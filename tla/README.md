# Verification of os_i386

This directory is a TLA+ development kept beside the kernel in `src/`. It
models the part of the kernel that is hard to test: threads, interrupts and
what they share, the way into user mode and back, and the allocator and the
data structures under them. TLC checks the modules on small instances. TLAPS
proves, for every value of the constants, the safety properties of the thread
system, the console with its mutex, traps and user mode, the keyboard decoder,
keyboard input, the allocator and the screen, and three refinements (section 4
says which, and what is left to TLC).

## 1. The system

os_i386 is a small single-processor kernel for 32-bit x86. It has no tests and
an empty README, so the code and its comments are the only reference.

| Component | State | Operations | Hard behaviour |
|---|---|---|---|
| Scheduler (`thread/thread.c`, `device/timer.c`) | 32 run queues, `rq_mask`, `need_schedule`, `RUNNING_THREAD`, TCBs, `thread_table` | `thread_run`, `process_run`, `thread_block`, `thread_unblock`, tick, `main_schedule` | the running thread stays queued; a mask caches emptiness; demotion wraps round |
| Context switch and interrupt entry (`kernel/kernel.s`, `thread/switch.s`, `kernel/interrupt.c`) | kernel stacks, `stack_top`, interrupt flag, IDT, `idt_table`, interrupt controllers | interrupt entry and exit, `task_trap`, `context_load`, `intr_*`, `pic_init`, `idt_init` | two kinds of frames, the flag is saved by hand; lines unmasked before their handlers exist; spurious interrupts |
| Semaphore, mutex (`thread/sync.c`) | counter, waiters, holder | `sem_down`, `sem_up`, `mutex_lock`, `mutex_unlock` | a woken waiter may lose the race; interrupts are on between the parts |
| Console and workload (`device/console.c`, `kernel/main.c`) | `console_mutex` | `console_put_int` from three threads, two spinning processes | contention, preemption inside the lock |
| User processes (`user/process.c`, `user/tss.c`) | `cr3`, `esp0`, page directory, GDT, TSS | `process_activate`, `process_entry`, `tss_init` | copies of "who runs"; a frame built by hand with interrupts on |
| System calls (`user/syscall_init.c`, `lib/user/syscall.c`) | `syscall_table` | `pid_get` through `syscall_entry` | privilege checks, a result patched into the saved frame |
| Screen output (`lib/kernel/print.c`) | cursor registers, video memory | `put_char`, `put_str`, `put_int` | several port accesses per cursor; printers without the mutex |
| IO queue (`device/ioqueue.c`) | ring, mutex, producer, consumer | `ioq_getchar`, `ioq_putchar` | blocks in interrupt context; test before lock |
| Keyboard (`device/keyboard.c`) | modifier flags, pending 0xe0 | `intr_keyboard_handler` | state carried from one interrupt to the next |
| List, bitmap (`lib/kernel`) | pointers, bytes | push, remove, scan, set, clear | used by everything with interrupts off |
| Memory (`kernel/memory.c`) | page pools, page tables | `malloc_page`, `target_vaddr_malloc` | partial failure, mutex kept on an error path |
| Strings, boot | - | - | straight-line code |

Components meet in few places. Everything that waits ends in `thread_block`,
everything that wakes ends in `thread_unblock`, and everything that switches
ends in `main_schedule`, which never returns: it loads the context of the next
thread from its `stack_top`. Every interrupt leaves through
`hwi_tail_handle`, hence through `main_schedule`. There is one processor, so
the only concurrency is an interrupt between two instructions of a thread that
has interrupts on. A stretch of code with interrupts off is atomic, and this is
what an action of the models is.

What makes each component correct, and what can go wrong in it, is in the list
`hazards` of `PROJECT.json`, each entry at the line where it bites.

## 2. Modules

| Module | Models |
|---|---|
| `Scheduler` | the functions of `thread.c` as operators on a scheduler state; each has the name of its C function, so calls compose as in the code |
| `Machine` | the processor under it: interrupt flag, `cr3`, `esp0`, kernel stacks, and the entry, exit and switch code |
| `Kernel` | `Scheduler` and `Machine` under their most general client |
| `Sync` | the atomic stretches of `sync.c` |
| `Console` | what `main()` runs: kernel threads and the idle thread printing through `console_put_int`, processes, the timer |
| `IoQueue` | the ring of `ioqueue.c` |
| `Keyboard` | the decoder of `keyboard.c`, byte by byte |
| `Input` | keyboard interrupts, the ring and its readers together |
| `Typing` | the decoder under a physical keyboard |
| `List` | `list.c` on pointers: `prev` and `next` of every element |
| `RunQueues` | what queues, waiters and the pick promise: the sequences and sets of `Scheduler` and `Sync` |
| `ReadyQueue` | run queues, `all_list` and a semaphore's waiters as linked lists, with the bytes of `rq_mask` and the loop of `bitmap_scan` |
| `BitSet` | what a bitmap promises: a set of bit numbers, a scan that answers at once |
| `Bitmap` | `bitmap.c`: bytes, and the loop of `bitmap_scan` step by step |
| `Memory` | `memory.c`: pools, kernel heap, page directories and page tables, under boot and concurrent processes |
| `Interrupts` | descriptor tables, handler tables and interrupt controllers as `init_all` leaves them |
| `Traps` | one process on its kernel stack, with addresses and register values: interrupts, switches, `process_entry`, the system call |
| `Terminal` | what a screen does with a character |
| `Screen` | `print.c` in single port accesses, with printers inside and outside the mutex |
| `MachineProofs` | lemmas about the operators of `Scheduler` and `Machine`, for any client |
| `KernelProofs`, `ConsoleProofs`, `InputProofs`, `TrapsProofs`, `BitmapProofs`, `MemoryProofs` | theorems about the module of that name |
| `DeviceProofs` | theorems about `Typing` and `Screen` |
| `MC*` | instances for TLC |

### Correspondence with the code

*Scheduler state.* `sched` is one record: the fields of `struct scheduler` and
the TCB fields as functions of the thread. A list is a sequence of threads, a
bitmap the set of its 1-bits. `NO_TCB` marks a page on which `thread_create`
has not been called yet. `elapsed_ticks`, the global tick count, thread names
and `stack_magic` are left out: nothing reads them but an ASSERT on the magic
number. The status values `TASK_WAITING`, `TASK_HANGING` and `TASK_DIED` are
never used by the code.

*Stacks.* `stack[t]` is the sequence of frames that are live on the kernel
stack of t: `ALL` for one pushed by the `VECTOR` macro, `FAST` for one pushed by
`task_trap` or built by `thread_stack_init`. `stack_top[t]` is the depth it
points to. `context_load` is only meaningful when `stack_top` points to the
innermost live frame; otherwise the processor pops whatever the memory holds,
and the model goes to `fault = "stale_frame"` and stops. In the same way
`"no_thread"` stands for `rq[-1]` after a failed scan and `"assert"` for
`panic_spin`.

*Interrupts.* `Interrupt(s)` is a whole interrupt: entry, handler (which turns
the scheduler state into s), `hwi_tail_handle`, `main_schedule`,
`context_load`. `iret` restores a flag that was on, since the interrupt was
taken.

*General client.* In `Kernel` the running thread may at any moment disable or
enable interrupts, block, or wake a blocked thread with interrupts off (as the
callers `sem_up` and `ioq_signal` do), and the timer or a device may interrupt
it. Threads and processes are created in `main()` before its first
`intr_enable`, the only place where the code creates any. `Console` and
`Input` are shown to be such clients by refinement (`ImplementsKernel`), `Input`
until the first handler has to wait for room, because a handler that blocks is
not.

*Console.* `pc` has a value for every place of `mutex_lock`, `put_int` and
`mutex_unlock` at which an interrupt may come. `process_entry` is one step and
user code only spins; `Traps` has the frame and the `pid_get` call, `Memory` the
allocation of the user stack, `Screen` what `put_int` draws.

*Input.* Consumers are external, because no code in `src/` calls
`ioq_getchar`; they obey the comment above it and disable interrupts. A
keyboard interrupt that finds room is one step; one that does not is an entry
(`KeyStuck`) followed by the steps of `ioq_putchar` in the interrupted
thread's context. `typed`, `got` and `stuck` (a handler has had to wait) are
history variables.

*Keyboard.* A character is named by its place in `keymap`, with one name for
the places that hold the same character in both columns. Codes keep their 16
bits; the masks of the code are division and remainder.

*Bitmap.* A byte is the set of the offsets of its 1-bits. One step is one
iteration of the loop of `bitmap_scan`. `answer` is what the call returned,
until the caller has used it. No two calls on a bitmap overlap: `rq_mask` is
used with interrupts off, the pools under a lock or before the first
`intr_enable`.

*ReadyQueue.* A list element is named by the list it heads or ends, or by the
TCB it is in and its tag (`ready_tag`, `pend_tag`, `all_list_tag`), so a thread
found through the wrong list shows. Every state of the lists is compared with
the sequences of `RunQueues` by following the pointers. Each operation is one
step, as interrupts are off, except the scan.

*Interrupts and Traps.* Selectors, attributes, descriptors and gates are the
numbers the code computes; the processor's checks read them back. Addresses of
code and of the TSS are below 2^31, TLC's limit. The reads of
`intr_entry_table` past its end give an address outside the kernel. A
controller has request, mask and in-service bits and takes the bytes the code
writes; lines may be raised at any time, before `pic_init` too, and a spurious
vector 0x27 may come at any time. `Traps` follows one process from its first
`context_load`: its kernel stack is an array of words, the frames have the
fields of `struct intr_stack` and `struct thread_stack`, the TSS is the dwords of
`struct tss` and is read by byte offset, as the processor does, and one step is a stretch
of code between two places where it matters whether an interrupt comes
(instruction by instruction in `hwi_ret`). While the process does not run
anything else may, another process included. Words below the stack pointer are
forgotten, and the model stops with `"clobbered"` when the user frame is built
below the place reserved for it: what happens next depends on what the
compiler keeps on the stack. The code is compiled without optimisation, so
`process_entry` does read `stack_top` twice. The mutex of the pool is abstract.

*Screen.* A printer is a thread between two port accesses; those in `Locked`
hold the mutex, the processes do not. The keyboard handler prints in one step,
because interrupts are off in it. A cell is a character (attribute bytes are
constant), and cells off the screen are not kept: what an overlapping access
draws there goes into the memory behind the screen. The history `last` says
whether a `put_char` ran without another one under way.

*Memory.* Physical addresses and the layout constants are the real ones; the
amount of memory is small. A page table is the content of the page it is on
(`page_table`), so two directory entries that name one page share its entries,
and page 0 (`NULL`) is a page like any other. The calls `main()` makes are
single steps, since interrupts are off. A process allocates with interrupts
on, cut into steps wherever it reads or writes a pool that others use: the
scan and the `bitmap_set` of `paddr_get` are two. No code in `src/` calls
`user_pages_malloc`; the model lets a process call it at any time after
`process_entry`, so that the pool can run out. The mutex is abstract here
(`Console` checks what it does). RAM is taken to be 0 at power-up: neither the
loader nor `page_dir_create` clears the entries that are later tested. The
model stops where the code goes on with a structure at address 0
(`low_memory`), in `PANIC` and `ASSERT`, and in the page fault of a process
without a stack.

## 3. Runs

| Run | Checks | Result |
|---|---|---|
| `kernel` | `SchedulerConsistent` (queues, mask and running thread against the TCBs), `NoMissedPreemption`, `SavedContextLive`, `AddressSpaceOfRunning`, `PidTable`, `DispatchMostUrgent` | hold, 870,557 states |
| `console` | `MutualExclusion`, `SemaphoreExact`, `NoLostWakeup`, `NeverFaults`, `HolderAccurate`, `ImplementsKernel` | hold, 633,829 states |
| `console_live` | `PrintsForEver`, `NoStarvation`, `InterruptsComeBack` | hold, 7,565 states |
| `input` | `NoCharLost`, `SleeperNamed`, `InOrder`, `NoReaderAsleep`, `ImplementsKernel`, `AllRead` | hold, 232,243 states |
| `input_no_reader` | `SomeThreadRunnable` | violated |
| `input_resume` | `ReturnsToInterrupted` | violated |
| `devices` | `StatusFollowsKeys`, `PrintsWhatWasTyped` (`Typing`), `SoloExact`, `CursorHeals`, `DigitsExact` (`Screen`) | hold, 1,666,183 states |
| `ready_queue` | `ImplementsRunQueues` | hold, 221,640 states |
| `bitmap` | `ImplementsBitSet`, `ScanReturns` | hold, 26,350 states |
| `memory` | `NoPageShared`, `PoolsExact`, `AddressesReserved`, `FailsOnlyWhenExhausted`, `MappingsStable` | hold, 70,054 states |
| `traps` | `TrapsLand`, `NothingInService`, `MisplacedOnlyWhenEarly`, `TrapsTransparent`, `ProcessStarts` | hold, 3,536 states |
| `entry_reserved` | `FrameInReservedPlace` | violated |

For every property of a passing run `PROJECT.json` names a mutant of the model
(an operator of the module, marked as such) under which the property fails.

### What the violated ones show

* `input_no_reader`. Nothing in `main()` reads `kbd_buf`. Once the ring is full,
  every key blocks the thread it interrupts, and in the end the idle thread;
  `highest_rq_get` then finds no queue, which its comment calls impossible.
* `input_resume`. A thread that blocked inside the keyboard interrupt does not
  return to where it was interrupted, because `task_trap` has overwritten the
  `stack_top` that the interrupt entry had stored.
* `entry_reserved`. `kernel_thread_entry` enables interrupts before
  `process_entry` takes `stack_top` for the value `thread_stack_init` left in it.
  An interrupt in between has stored the address of its own frame there, and the
  frame for user mode is built over words of the kernel stack that are in use.
  `MisplacedOnlyWhenEarly` says that this is the only way: an interrupt before
  `stack_top` is read, or between the store to it and the second read, misplaces
  the frame, and an interrupt anywhere else does not.

### What the passing ones show beyond their names

Of failures, `memory` shows that a call that runs out of pages half way keeps
the pages and the addresses it has, but no page is lost to the pool's books. A
mutex that stays locked, a process without a stack and page 0 installed as a
page table (`v2p_mapping` does not look at what `paddr_get` returns) happen only
when a pool is exhausted. One stop is earlier than that: `main()` does not look
at what it gets for an address bitmap, which takes several pages in a row (23 in
the code), and fails when there are some left but not as many.

`traps` shows that the gates that lead nowhere (0x30 to 0x7f) and the lines
unmasked before their handlers are registered do no harm, and why processes may
write the cursor registers, which is not the reason `tss_init` has in mind. It
stores the size of the struct in `io_base`, to say that there is no permission
map. But `trace` is declared a dword, so that `io_base` is at offset 104, and the
processor reads the start of the map from the word at 102, the upper half of
`trace`, which is 0. The map is therefore the TSS itself, and the bits for ports
0x3D4 and 0x3D5 are in the bytes at 122 and 123, behind the struct. They are 0,
and within the limit only because its granularity is 4K. With a limit counted in
bytes (the mutant) `put_int` in a process is a protection fault.

`devices` shows what the decoder does with two keys that share a flag. The
release of one shift key clears the flag though the other may still be held;
what is typed next is in lower case, until the held key repeats or is pressed
again. `StatusFollowsKeys` names this one exception, and says that there is no
other: a flag is never set without a key that is down. No comment in `src/`
claims more.

It does not show that output is right when printers overlap, because it is not:
a character may land anywhere. What holds is that this does not last.

`kernel` has one thread more than `thread_table` has entries. The code does not
notice: `pid_alloc` leaves the thread with pid 0, that of the idle thread.
`PidTable` says what that does and does not break.

`HolderAccurate` does not say that a mutex that is taken has a holder.
`mutex_unlock` gives the counter back before it clears `holder`, so a thread that
takes the mutex in between has its name erased. Nothing in `src/` reads `holder`,
so nothing comes of it.

### Bounds

Priorities: three in `kernel`, so that there is one between the extremes and
the wrap is distinct from an ordinary demotion; two in `console` and `input`. With three
priorities every slice is two ticks long. Threads: three in `kernel` (one
running, one ready, one blocked at once; idle included); four in `console` (a
holder, a woken waiter, a sleeping waiter, and a process to run meanwhile). The
idle thread prints as well, so `console_live` has two printing threads and a
process. `MAX_THREAD_NUM` is one less than the number of threads in `kernel`, so
that the table overflows. `input`: a ring of three places, that is two characters,
and four keys, two past the capacity; one reader and another thread, so that a handler can
block either. `devices`: decoder and screen share nothing, and one moves while
the other is as at first. `MAX_EVENTS` = 4 is the length of "both shift keys down,
one up, a letter". The screen has two by two places and registers of three
values, so that the cursor has two digits, the screen does not fill its range,
and garbled positions exist on and off the screen; three characters, two to
overlap and one to follow; the numbers 0 and 0x7fffff9a, the shortest and one
with eight digits and the step from "9" to "A". `ready_queue`: three priorities
and three threads, so that a list has a first, a middle and a last element and
a queue is found empty; runs of one bit, the only ones the scheduler asks for.
`bitmap`: ten bits, so that there is a neighbouring byte and a run may cross into
it; runs of one and of three, so that a shorter one is passed over. `traps`:
timer, keyboard, a masked line and one of the slave, which is wholly masked (no
interrupt comes from it, nor a spurious 0x2f); one process, since others only change `esp0`; a stack of
56 words, enough for two nested frames with the words of the call chain.
`memory`: two processes, page tables of eight
entries and 13 user pages, so that each process needs two tables; three pages
for an address bitmap, so that some can be left when it gets none; six amounts
of memory, one for each place at which it can run out (TCB, bitmap, page
directory, first and second page table, user pages). A process can take all 13
user pages before the other has its stack.

There is no symmetry reduction, because it is not sound for the liveness runs
and the others finish without it.

### Fairness

`Console` and `Input` assume two things. A thread that has the processor again
and again, and has code to execute, executes some of it again and again:
an interrupt entry is followed by at least one instruction of the thread it
returns to before the next tick. And if interrupts are on again and again,
ticks are delivered again and again: the interrupt controller latches a tick
that comes while they are off. Nothing is assumed of the scheduler, the mutex
or the keyboard. `Bitmap` and `ReadyQueue` assume that the loop they are in is
executed. `Traps` assumes that a ready process is chosen again (that is
`NoStarvation`), that it executes an instruction between interrupts, and that
the mutex of the pool is free for it now and then; nothing of the devices.
`Memory` and `Screen` state no liveness. Neither does `Kernel`: two threads of a general client
that wake each other with interrupts off keep everyone else out for ever.

## 4. Proofs

No theorem bounds the number of threads, priorities, pages, processes or
characters. What a theorem assumes of the constants is the `ASSUME` of its module,
which the runs evaluate on their instances.

| Module | Theorem | States |
|---|---|---|
| `KernelProofs` | `KernelInvariant`, `TypeCorrect` | `[]KernelInv`, `[]TypeOK` |
| | `RunQueuesCorrect` | `[]SchedulerConsistent` |
| | `PreemptionNeverMissed` | `[]NoMissedPreemption` |
| | `ContextsPreserved` | `[]SavedContextLive`, and what goes with it |
| | `AddressSpacesKept` | `[]AddressSpaceOfRunning` |
| | `PidTableCorrect` | `[]PidTable` |
| | `MostUrgentDispatched` | `DispatchMostUrgent` |
| `ConsoleProofs` | `ConsoleInvariant`, `ConsoleTypeCorrect` | `[]ConsoleInv`, `[]TypeOK` |
| | `ConsoleExcludes` | `[]MutualExclusion` |
| | `ConsoleSemaphoreExact` | `[]SemaphoreExact` |
| | `ConsoleNoLostWakeup` | `[]NoLostWakeup` |
| | `ConsoleNeverFaults` | `[]NeverFaults` |
| | `ConsoleHolderAccurate` | `[]HolderAccurate` |
| | `ConsoleImplementsKernel` | `ImplementsKernel` |
| `InputProofs` | `InputInvariant`, `InputTypeCorrect` | `[]InputInv`, `[]TypeOK` |
| | `SleepersAreNamed` | `[]SleeperNamed` |
| | `InputInOrder` | `[]InOrder` |
| | `OneReaderNeverAsleep` | `[]NoReaderAsleep`, if there is at most one reader |
| | `InputLosesNothing` | `[]NoCharLost` |
| | `InputImplementsKernel` | `ImplementsKernel` |
| `BitmapProofs` | `ScanLoopCorrect` | `[]BitmapInv` |
| | `BitmapImplementsBitSet` | `ImplementsBitSet` |
| `MemoryProofs` | `PoolsLaidOut` | `SideBySide`, for every amount of memory up to 32M |
| | `MemoryInvariant`, `MemoryTypeCorrect` | `[]MemInv`, `[]TypeOK` |
| | `MemoryNoPageShared` | `[]NoPageShared` |
| | `MemoryPoolsExact` | `[]PoolsExact` |
| | `MemoryAddressesReserved` | `[]AddressesReserved` |
| | `MemoryFailsOnlyWhenExhausted` | `[]FailsOnlyWhenExhausted` |
| | `MemoryMappingsStable` | `MappingsStable` |
| `TrapsProofs` | `TypeCorrect` | `[]TypeOK` |
| | `EveryTrapLands` | `[]TrapsLand` |
| | `EveryInterruptEnds` | `[]NothingInService` |
| | `MisplacedIffEarly` | `[]MisplacedOnlyWhenEarly` |
| | `Transparent` | `TrapsTransparent` |
| `DeviceProofs` | `KeysInvariant` | `[]KeysInv` |
| | `StatusesFollow` | `[]StatusFollowsKeys` |
| | `TypedIsPrinted` | `[]PrintsWhatWasTyped` |
| | `ScreenTypeCorrect` | `[]TypeOK` |
| | `ScreenSoloInvariant` | `[](RangeInv /\ SoloInv)` |
| | `ScreenCursorHeals` | `[]CursorHeals` |
| | `ScreenSoloExact` | `[]SoloExact` |

### The thread system

None of the properties of `Kernel` is inductive alone. That `context_load` finds
a live frame needs to know that the thread picked is not `NO_TCB`, which needs
the queues to hold only runnable threads; that the queues stay exact under
`list_remove` needs each thread to be queued once, at the priority its TCB says;
that the mask is right after a leave needs the queue it describes; that a new
thread does not clash with an old one needs `pc = "none"` to agree with
`NO_TCB`. `KernelInv` is their conjunction, conditional on `fault = "none"` where
the machine may have stopped.

The argument has three levels. `MachineProofs` first shows of each operator of
`Scheduler` that it takes a sound scheduler state to a sound one: first facts
about lists (`PushBack`, `ListRemove`, ...), then about joining and leaving a
queue (`JoinOnly`, `LeaveOnly`), then about the operations (`BlockSound`,
`UnblockSound`, `RequeueSound`, `MainScheduleSound`). Then it adds processor
and stacks: `MachineInv(code)` is the invariant of the machine for a
client whose threads in their own code are the set `code`, and a switch away from
a thread whose context has just been saved keeps it. `KernelProofs`,
`ConsoleProofs` and `InputProofs` are three clients.

### The console

`ConsoleInv` is `MachineInv` with the properties of the mutex. That is not enough
for `sem_down`: what it does after `thread_block` depends on the interrupt flag
it saved, so the invariant also says that a blocked thread is inside
`thread_block` and will find interrupts off, and that only the running thread is
in a stretch of `sem_down` or `sem_up` that must not be interrupted.
`ConsoleImplementsKernel` is the refinement: every step of the workload is a step
of `Kernel` or changes nothing that `Kernel` sees, so what is proved of `Kernel`
holds of what `main()` runs.

### Keyboard input

A handler that blocks breaks the stack discipline (run `input_resume`), so
`InputProofs` has two layers. `InputInv` holds always: scheduler, the queue's
mutex and its waiters agree, whatever frames are loaded. `QuietInv` holds until
the ring has been full for the first time: the machine is then as sound as that
of `Kernel`, and only readers are in calls of the queue. `InOrder` and
`SleeperNamed` need the second, `NoCharLost` only the first with `CountInv`, which
counts each character among those read, in the ring, and in the hands of
handlers that wait. `InputImplementsKernel` needs the second too: up to that
moment the keyboard handler is one of the devices of `Kernel`.

`NoReaderAsleep` is proved for one reader, under `ReaderInv` (nobody waits for
the mutex). For two it is false: a reader that slept in `mutex_lock` goes on to
`ioq_wait` without another look at the ring, and may sleep on one that has a
character. No code in `src/` reads the ring, so nobody meets this yet.

### Traps and user mode

For every placement of the tables in memory and every size of the stack in which
the call chain fits (`InterruptsAssumption`, `TrapsAssumption`). What happens in a
trap is arithmetic on words, and the lemmas are that arithmetic:

* `SegmentsLoad`, `TssIsFound`, `GatesLand`: the selectors the code loads find
  their descriptors, and a gate leads to its handler or is absent;
* `TssContent`, `CursorAllowed`: the words and bytes the processor reads in the
  TSS, and that the permission map it finds there lets the cursor ports through;
* `PicInit`, `Delivered`, `EoiIdle`: after `pic_init` the controllers are
  `Ready(master, slave)`, idle up to the requests that wait, and after an
  interrupt and its end of interrupt they are so again, spurious ones included;
* `StoreWords`, `SaveLoad`: a frame that is stored and loaded again gives the
  same registers and leaves the words above it alone;
* `LoadReturns`, `SyscallReturns`: hence a context that is saved comes back, and
  the system call comes back with nothing changed but `eax`.

`IInv` is the invariant. `PicsInv`, that the controllers are idle, is all
`NothingInService` needs. `RunInv` holds until `process_entry` has overwritten its own
stack (run `entry_reserved`). It says where the stack pointer is at each place of
the call chain (`CpuInv`); that a process that does not run has its registers in
the frame at `stack_top` (`FrameInv`), from which `TrapsTransparent` follows; what
`process_entry` has put into its frame (`UserFrameInv`), from which it follows
that `hwi_ret` reaches user mode; and how the value of `stack_top` travels into
`stack`, back into the TCB and into `proc_stack`, right if no interrupt came
early and too low if one did (`PlaceInv`). The last is why the one fault left is
the overwritten stack, and why it takes an early interrupt.

### The keyboard decoder

For any set of keys and any number of events. `KeysInv` says that some number `n`
of the events has been decoded, that statuses and characters are those of the
first `n` (`Decoded`), and that the bytes of the others are on the wire, the
first perhaps read already when it is the prefix 0xe0 (`Waiting`). An interrupt
that reads the prefix leaves `n` as it is; any other decodes one event (`Decode`,
`DecodedNext`). When the wire is empty all events are decoded (`AllDecoded`).

`Decoded` speaks of the last event of a pair of keys, because this is what a flag
holds; `StatusFollowsKeys` speaks of the keys that are down. `HeldInv` connects
them: `held` is `Down` of all events, and a pair that has an event has a last one.
That every beginning of the events has a last one is an induction; stated in the
invariant, it grows by one event per step instead (`DownNext`, `HasLastNext`), and
`LastDownIs` concludes.

The proof found one assumption the instance had met by accident. The handler
takes 0xe0 for the prefix wherever it comes, and 0xe0 is also what a release of
a key with make code 0x60 would send. `TypingAssumption` says that there is no
such key; scan code set 1, which `keymap` follows, has none.

### The bitmap

For every number of bits and every length of run (no caller passes length 0,
which `BitmapAssumption` excludes). `BitmapInv` is `WindowInv`, the loop
invariant, with the types and the fact that there is no result outside the
return. `Slide` shows what one iteration does to the window; from it follow that
a full window is the first run (`FoundIsFirst`) and that at the end there is none
(`FailedIsNone`). `SetBit` and `ClearBit` are the byte arithmetic: bits have
distinct places. `Scheduler` and `Memory` use their bitmaps as `BitSet` describes
them; `bitmap` checks that on an instance, and `ready_queue` checks the scheduler's
use of it with the real bytes and lists.

### Memory

`PoolsLaidOut`: for every amount of memory from what the page tables need up to
the 32M of the comment in `malloc_page`, the pools and their three bitmaps do not
overlap, end within the memory, and stay clear of the idle thread's TCB at
0xc009e000.

The properties of the running allocator need one another, and `MemInv` adds what
they need from the code around them:

* `HeapInv`: kernel pages and addresses are given away from the first on and
  never come back, so that the loop of `kernel_pages_malloc`, partial failure
  included, has a closed form (`MallocIs`) and takes only pages that were free;
* `MutexInv`: the process past `mutex_lock` holds the mutex, so the page that the
  scan of `paddr_get` found is still free at its `bitmap_set`, in the kernel pool
  too, whose own mutex `v2p_mapping` does not take;
* `CallInv`: the pages a call has still to map are not mapped. This is the ASSERT
  of `v2p_mapping`, and `ReservedInv` ties it to the address bitmap;
* `TablesInv`: no two directory entries name the same table, so an entry written
  through one directory changes one mapping of one process (`MapsOne`), from
  which `MappingsStable` and `NoPageShared` follow;
* `BootInv` and `StopInv`: what is missing is missing because a pool was
  exhausted.

There is one lemma for every action, and for those that leave pools and tables
alone (`Quiet`) a common one. The proof changed the model in one place:
`FailsOnlyWhenExhausted` used to say that the machine stops only when a pool is
empty, which held on the instance, where an address bitmap had two pages, and is
false for three or more (see section 3).

### The screen

In `DeviceProofs`, after the decoder. `RangeInv` (registers and locals keep to
their widths) holds whatever overlaps. `SoloInv` follows a `put_char` that nobody has disturbed through its port
accesses, from `last`, the state it found, to what it has drawn so far.
`CursorHeals` follows from both. For `SoloExact` there is also `DrawIsPut`: the code's
arithmetic on linear positions, with its copy loop for scrolling, is the
terminal's operation on rows and columns, for any size of screen.

### What is not proved

* Liveness (`PrintsForEver`, `NoStarvation`, `InterruptsComeBack`, `AllRead`,
  `ScanReturns`, `ProcessStarts`): out of the prover's reach.
* `ready_queue` and `DigitsExact`: they are about what a recursive definition
  computes (`elements` of `List` follows the pointers, `Value` adds up digits).

Every other invariant and action property of a passing run is proved.
`TypeOK`, `NoStaleFrame` and `SwitchedInWithIntrOff` are proved and have no run of
their own.

## 5. Not modelled, and the plan

Left for later, in this order:

1. `Memory` composed with `Sync`: the mutex of the user pool with its waiters,
   and that with enough memory every process gets its stack.
2. An abstract mutex and an abstract queue (an owner and a set of waiters; a
   sequence of characters), implemented by `Console` and, while it has room, by
   `Input`.

Left out for good:

* the boot loader, and the numbers `freq_set` writes to the timer: straight-line
  code without state the kernel reads again;
* the exception screen, the wording of messages, and what a page fault shows;
  note that `general_intr_handler` passes a NULL name to `put_str` for vectors
  that have none (`interrupt.c:108`), just before it stops for good;
* `string.c` as a component: its loops are part of the actions that call them;
* code without a caller: `list_len`, `syscall1` to `syscall3`,
  `target_vaddr_malloc(PF_KERNEL)`, and `kernel_pages_malloc` once interrupts are
  on, which scans and marks the kernel pools without a lock (`memory.c:88`);
* `stdio.c` and `print.s`, which the makefile does not build.
