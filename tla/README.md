# Nachos in TLA+

A verification development for this Nachos tree (the instructional operating
system with the CHANGED, USER_PROGRAM and file system parts compiled in): TLA+
modules of the kernel, of the simulated hardware it runs on and of the tools
that prepare its programs, TLC models of small instances, and TLAPS proofs for
all instances.

## 1. The system

Nachos is one UNIX process. It simulates a MIPS machine (`machine/`) and runs a
kernel on it (`threads/`, `userprog/`, `filesys/`).

| Part | Source | What it does, and what it uses |
|---|---|---|
| Threads, dispatcher | `threads/thread.cc`, `scheduler.cc` | Create, fork, yield, sleep, finish. The ready list is a `std::priority_queue`. A finished thread is deleted later, by another thread. |
| Context switch | `threads/switch.s`, `thread.cc` | Saves and loads registers; starts a new thread in `ThreadRoot`. |
| Synchronization | `threads/synch.cc` | Semaphores, locks, Mesa condition variables. Atomic because interrupts are off. Uses Sleep and ReadyToRun. |
| Lists | `threads/list.cc`, `synchlist.cc` | Linked lists, every queue above; a list shared by threads. |
| Interrupts, timer | `machine/interrupt.cc`, `timer.cc`, `userprog/progtest.cc` | The sorted list of pending interrupts, the clock, the idle loop, two sources of time slices. |
| Disk | `filesys/synchdisk.cc`, `machine/disk.cc` | A blocking read or write of one sector: lock, request, wait for the interrupt; the time a request takes. |
| Console, network | `userprog/synchconsole.cc`, `machine/console.cc`, `network.cc` | Characters in and out under one lock; packets between machines. |
| Processes | `userprog/exception.cc`, `threads/thread.cc`, `childthread.cc` | Exec, Exit, Join, faults. Parents and children meet in a record with a semaphore. |
| File system | `filesys/filesys.cc`, `directory.cc`, `filehdr.cc`, `openfile.cc`, `userprog/bitmap.cc` | Files as headers and sectors, one directory, a bitmap of free sectors; descriptors and the file system calls. |
| Virtual memory | `userprog/addrspace.cc`, `machine/translate.cc` | Demand paging, the frame table, the choice of victims; arguments on the stack of a new program. |
| MIPS simulator | `machine/mipssim.cc`, `machine.cc` | Executes user instructions. |
| Program tools | `bin/coff2noff.c`, `bin/execute.c`, `bin/d.c` | Converter of object files, stand-alone interpreter, disassembler. |
| Others | `threads/main.cc`, `utility.cc`, `machine/sysdep.cc`, `stats.cc`, other `bin/`, `test/` | Boot, options, debugging, user programs. |

**What runs concurrently.** There is one processor. A thread keeps it until it
sleeps, finishes, or enables interrupts: `SetLevel(IntOn)` calls `OneTick`, which
advances the clock, runs due interrupt handlers and possibly yields. So the
unit of atomicity is the stretch of code between two points where interrupts
are enabled, and every action of the models is one such stretch. A thread
dispatched in the middle of `Sleep` has interrupts off and first finishes the
call it was in.

## 2. Modules

| Module | Models | Builds on |
|---|---|---|
| `Scheduler` | `thread.cc`, `scheduler.cc`: states of threads, ready list as a bag, dispatch, carcass | |
| `ReadyList` | the heap behind the ready list | |
| `Switch` | `switch.s` and `StackAllocate`, i386 | |
| `Synch` | `synch.cc` | `Scheduler` |
| `Monitor` | abstract: what locks and conditions promise | |
| `Callers` | threads inside calls of objects that use the monitor | `Monitor` |
| `List`, `SynchList` | `list.cc` as cells and pointers; `synchlist.cc` | `Callers` |
| `Interrupt` | `interrupt.cc`, `timer.cc`, `RoundRobin` | `Scheduler` |
| `SynchDisk` | `synchdisk.cc` and the requests of `disk.cc` | `Synch` |
| `DiskLatency` | seek, rotation and track buffer of `disk.cc` | |
| `SynchConsole` | `synchconsole.cc`, `console.cc` | `Callers` |
| `Network` | `network.cc` | |
| `Process` | Exec, Exit, Join, faults | `Synch` |
| `OpenFile`, `FileSystem` | `openfile.cc`, `filehdr.cc`, `bitmap.cc`; `filesys.cc`, `directory.cc`, descriptors, file system calls | |
| `Translate` | `translate.cc`: page table lookup | |
| `Coff2Noff` | `coff2noff.c` | |
| `AddrSpace` | `addrspace.cc`: page faults, frames, victims | `Translate`, `Coff2Noff` |
| `Exec` | Exec's name and arguments | `AddrSpace` |
| `Word`, `MipsDecode`, `MipsSim` | `mipssim.cc`, `machine.cc`, the kernel's answers to exceptions | `Translate` |
| `Disasm`, `MipsInterp` | `d.c`, `opstrings.c`; `execute.c`: the reference for `MipsSim` | `Word` |
| `Scheduler_proofs`, `Synch_proofs`, `Monitor_proofs`, `SynchDisk_proofs`, `Process_proofs`, `AddrSpace_proofs` | theorems about the modules of those names; `Monitor_proofs` also has the one about semaphores | |
| `Devices_proofs` | theorems about `Network` and `SynchConsole` | |
| `Machine_proofs` | theorems about `DiskLatency` and `Switch` | |
| `MC*` | constants for TLC; `MCParts` puts the parts that share nothing into one run | |

### Scheduler

`status`, `priorityLevel`, `currentThread`, `threadToBeDestroyed`, `level` and
`mode` are the program's variables of those names (`mode` is
`Interrupt::status`). `readyList` says how often each thread is in the queue;
`FrontOfReadyList` is the set of threads that `top()` may return. `machineState`
stands for the saved registers: the place (`ThreadRoot`, `Yield`, `Sleep`,
`Finish`) where the thread will go on.

`NewThread`, `DeleteThread`, `Fork`, `Yield`, `Finish` and `Dispatch` (the end of
`Sleep`) are the functions. `Run` is the whole of `Scheduler::Run`, including what
the *next* thread does after `SWITCH`: a thread that resumes deletes the
carcass, a thread that starts in `ThreadRoot` does not. `Region(woken, sleeps)`
and `Handler(woken)` leave open which sleeping threads are woken; `Synch` and
`Interrupt` say which, and their properties `ImplementsScheduler` show that they
stay within it.

The main thread's constructor does not set `priorityLevel`: the initial value is
arbitrary.

### ReadyList

The vector under `std::priority_queue`, with `push` and `pop` as libstdc++ does
them (hole moved to a leaf, then sifted up). It shows what `Scheduler` leaves
open: who runs next among equals. It is also where the fairness assumed
elsewhere comes from (section 5).

### Switch

What `Scheduler` takes as given: registers, stacks word by word, and the saved
registers of each thread. `Switches` is the whole of SWITCH with the call and
its return; `RootStarts`, `RootCallsFunc` and `RootFinishes` are the three calls
ThreadRoot makes through registers, which `StackAllocate` filled and which other
threads use in between. A thread can be switched out in its own code and inside
the two calls that lead to a context switch: the startup function, which enables
interrupts, and `ThreadFinish`. A thread computes by putting anything into its
registers (`Computes`). `own` is the processor the thread would have had alone.

### Synch and Monitor

Queues are sequences (`List::Append`, `List::Remove`). `call[t]` is the call a
thread went to sleep in; when it is dispatched again it takes the loop's test
once more. `critical` (which threads are between the return of Acquire and
Release) has no counterpart in the code: it is what `available` and
`ownerThread` are to be compared with. `VInHandler` is V called by an interrupt
handler, `VThenFinish` V by a thread that turned interrupts off to finish.
Callers keep to `synch.h`: they release only what they acquired and wait and
signal only with the lock held.

`Monitor` is a Mesa monitor without queues, wakeups or a scheduler. Its variables
are mapped to `critical`, to the conditions' queues, and to the threads that are
inside Acquire or woken from Wait. `SynchList` and `SynchConsole` are written on
top of `Monitor` (through `Callers`), which `Synch` is shown to implement: their
state spaces hold no scheduler.

### List and SynchList

`List` has the cells of the heap, `first` and `last`, and the operations as
functions of such a record. `SynchList` applies them: to the list of
`synchlist.cc`, which threads append to and remove from under a lock and a
condition, and to a list kept in order by key, as the pending interrupts are.

### Interrupt

`pending` is the list of pending interrupts with the ticks left to each, so the
clock needs no bound. `FireDue` is the loop around `CheckIfDue`; `PutBack` is its
removal and re-insertion of an interrupt that is not due (which moves it behind
others due at the same time). `OneTick`, `TimeSliceEnds` (`yieldOnReturn`),
`Idle`, `IdleHalts` and `IdleEnds` follow `interrupt.cc`. `Timer` and `RoundRobin`
are the two sources of type `TimerInt`; one device stands for disk and console.
`expired` is a history: a time slice ended under the thread that has the
processor, and it has not yielded since.

### SynchDisk and DiskLatency

`pc` is a thread's place in `ReadSector` or `WriteSector`. The request and the
part of P up to its sleep are one action, as interrupts are not enabled between
them. `HandleInterrupt` includes `RequestDone`. Latency is left open in
`SynchDisk`: the interrupt may come at any later time. `DiskLatency` says when,
and compares `ComputeLatency` with a disk that turns: the sector under the head
at each tick.

### SynchConsole and Network

The devices poll: `CheckCharAvail` and `CheckPktAvail` buffer one character or
packet and call the handler. The console's buffer marks "empty" with the byte
EOF, so a typed EOF is a character that can be overwritten; the model types it.
The network's sockets are external; a packet is lost at any Send, and a `sendto`
that fails aborts the sender (`SendToSocket`, `sysdep.cc:390`), whose packets
then wait at the others and which answers nobody any more. Histories
(`typed`, `got`, `wire`, `received`) are what the properties compare.

### Process

A `ChildThread` record is identified by its SpaceId, and its `join_sem` is the
semaphore with that id. `ExecBegins` is the constructor of the child,
`ExecForks` and `ExecFails` the two outcomes of making its address space. Exit
and a page fault that cannot be served signal the parent with interrupts on
(`ExitNotifies`, then `ExitFinishes`); the other faults do both with interrupts
off (`Faults`). `started`, `exited`, `joins` and `result` record history.
A program may join any record that its list of children has: a failed Exec
leaves one behind, and a child that was joined stays on the list. Nobody signals
such a record (`Spent`), and a Join of it sleeps for ever.

### OpenFile and FileSystem

A disk is a function from sectors to a header, a bitmap, half of the directory
(its table is two sectors long, and one entry's name lies in the second) or
bytes. `ReadAt` and `WriteAt` keep the code's arithmetic: first and last sector,
which of them is read before it is written, what is copied.

An operation reads what it needs, and puts the sectors it will write, in the
code's order, in `todo`; `WriteSector` writes one. `Crash` stops Nachos between
any two. `Reboot` starts it again only when no operation was under way:
`filesys.cc:38-40` says that a disk left by an unfinished operation may be
corrupt. One call is under way at a time, as `filesys.cc:167` assumes.
Descriptors are the `FD_List` of one process, the two of the console included,
which a program may close.

### AddrSpace, Translate and Coff2Noff

`kernel` is one record of what `load_page` works on: frames, main memory, and of
each process the page table, `victum_offset`, the header and the name of its
file. `load_page` is two steps, because it can lose the processor where it opens
and reads the executable: `Claim` (find a frame, or take a victim's) and `Fill`
(copy text and data). `Sweep` is the loop of `try_store_page`, `StoreBest` what
follows it. A program is not made up: it is what `Coff2Noff`'s `Converted` makes
of linked sections, and `seen` is what the stand-alone loader (`load_program` in
`bin/main.c`) would put at each address, changed by every write.

`kernel.lost` is set where the code uses an element outside `available_pages`,
`pageTable` or `mainMemory`, or repeats `try_store_page` for ever: a dirty
victim is the common case (`addrspace.cc:757`). The model stops there, and
nothing is claimed of what follows.

### Exec

`read` and `write` go through memory a byte at a time and load pages on the way;
`createStackArgs` is `ReadArgv`, `PushStrings` and `PushArgv`. Exec may lose the
processor once, at the lock of `fd_put`, so it is `ExecOpens` and `ExecBuilds`;
`SysReads` is any other call that fills the static buffer. Every step of `Exec`
changes `kernel` by the operators of `AddrSpace`.

### MipsSim, MipsInterp and Disasm

`MipsSim` has the registers of `machine.h`, pages and page faults, and
`OneInstruction` for every opcode: `Attempt` is the fetch and the instruction on
a record, `Completes`, `SystemCall`, `PageFault`, `Ends` and `Unsupported` what
comes of it, `Interrupted`, `SwitchOut` and `SwitchIn` what may come between. A
word has four bytes of `ByteBits` bits; instructions keep their 32 bits.

`MipsInterp` is the loop of `bin/execute.c`, a second program for the same
processor, with its own tables, sign extension and multiplication. It is used as
an abstract machine: no delayed loads, faults, interrupts or paging. `Visible`
and `VirtualMemory` map the one to the other: a pending load counts as done.
`Differs` lists the instructions on which the two programs disagree, each
because one of them is wrong or lacks it, with the operands for which they do;
for these only the frame is compared (`Confined`). `Disasm` is `dump_ascii`, whose line the interpreter prints for
each instruction when tracing; `Unlisted` are the registers it does not print
(MFLO is printed with `rs` in place of `rd`, JALR without its `rd`).

## 3. Runs

| Run | Question | Result |
|---|---|---|
| `synch` | A semaphore, a lock and its condition, four threads that are created, sliced, finished and deleted, and interrupt handlers: are queues exact (`QueuesHoldSleepers`), is no wakeup lost (`SemaphoreNoLostWakeup`, `LockNoLostWakeup`), is there mutual exclusion (`MutualExclusion`), is the owner right (`LockKnowsOwner`), do lock and condition implement `Monitor` (`ImplementsMonitor`), are status, ready list, processor and carcass consistent (`DispatcherConsistent`), and is a thread deleted only when it cannot run (`DestroyedSafely`)? | holds |
| `scheduler_carcass` | Is every finished thread still the one to be deleted (`CarcassNotForgotten`)? | violated, finding 1 |
| `readylist_starve` | Does every ready thread run again when five share a priority (`EventuallyRescheduled`)? | violated, finding 2 |
| `interrupt` | One time slicer and a device: is the list ordered with nothing overdue (`PendingConsistent`), is every request answered and every time slice obeyed once (`NoInterruptLost`), does the machine halt when (`IdleMachineHalts`) and only when (`HaltsOnlyWhenQuiet`) it should? | holds |
| `interrupt_two_slicers` | Does the idle machine halt with both time slicers (`IdleMachineHalts`)? | violated, finding 3 |
| `synchdisk` | Two threads, two sectors, two calls each: one request at a time and return only after one's own interrupt (`RequestsInTurn`), the right data (`BufferCurrent`), and does every call return (`CallsReturn`)? | holds |
| `process` | Programs in three thread objects: does Join wait for the child (`JoinReturnsAfterExit`), is each record signalled once on every path (`SignalledOnce`), do records and threads agree while thread objects are deleted and reused (`RecordsConsistent`), does every Join return but those of a record that nobody will signal (`JoinReturns`)? | holds |
| `process_status` | Does Join return the exit status (`JoinReturnsStatus`)? | violated, finding 4 |
| `filesys` | Creations, removals, reads, writes and closes in every order, stopped between any two sector writes: is the bitmap exact (`FreeMapExact`), is every other file intact (`FilesIntact`), does a Read return what was written (`ReadsBack`)? | holds |
| `exec` | Three processes of two converted programs, in five frames, that start each other with arguments until victims are chosen: is a frame in one page table only (`FrameExclusive`), does each resident page hold what it should (`ResidentIntact`), do the arguments arrive (`ArgumentsPassed`)? | holds |
| `exec_name` | Does a process load its pages from the file whose header it has (`LoadsWhatWasOpened`)? | violated, finding 5 |
| `parts` | One part at a time: lists under any calls (`ListsRepresent`), and items reach who waits for them (`ItemsReachRemovers`); every PutChar returns (`PutCharReturns`) and characters arrive once and in order (`PutsInTurn`, `CharsDelivered`); packets in order (`DeliveredInOrder`); latency exact (`LatencyExact`); SWITCH and ThreadRoot leave threads undisturbed (`ThreadsUndisturbed`); the most urgent thread is taken (`MostUrgentFirst`) and ready threads run again (`EventuallyRescheduled`); every program of a family does what the interpreter does and what its trace says (`ImplementsInterpreter`); products exact (`MultExact`). | holds |

`ImplementsScheduler` and `ImplementsSynch` check that each composed module only
takes steps of the module below, so that what is shown and proved there carries
over. `ImplementsMonitor` and `ImplementsInterpreter` compare with an abstract
machine.

**Deadlock** is not checked where the machine may halt or stop, which is a state
without a next step. That nobody is left waiting is a property of its own
(`CallsReturn`, `JoinReturns`, `PutCharReturns`, `ItemsReachRemovers`,
`HaltsOnlyWhenQuiet`).

**What a property leaves out.** `ResidentIntact` is silent on initialized data: the
end of the read at `addrspace.cc:645` is reduced by a file offset, and data at
the end of a page may not be loaded. The model loads it as the code does.
Finding 5 happens in run `exec` too. `ResidentIntact` excepts the text of a
process that it happened to, and `ArgumentsPassed` its `argv[0]`, which must then
name the file that the pages come from; everything else is claimed of such a
process as of others.
`CharsDelivered` compares characters other than EOF. `FilesIntact` says of the
file an unfinished Create or Remove is about nothing, and of an unfinished
Write that each byte is old or new. `PutCharReturns` excepts a PutChar behind a
GetChar that waits for ever because nobody types, `JoinReturns` a Join that
waits, possibly through other Joins, for a record that nobody will signal.
`ImplementsInterpreter` is about programs that keep out of a load's
delay slot, as compilers do.

### Findings

1. *A carcass can be forgotten* (`scheduler.cc:145`). If the next thread runs for
   the first time it starts in `ThreadRoot` and does not delete
   `threadToBeDestroyed`; if it finishes too, it overwrites the variable.
   `thread.cc:171` says that `Scheduler::Run()` will call the destructor.
2. *Yield is not fair* (`scheduler.cc:64`). A heap does not keep equals in order;
   with five threads of one priority one of them can be passed over for ever.
   `thread.cc:196` says a thread that yields "will eventually be re-scheduled".
3. *Two slicers keep an idle machine alive* (`interrupt.cc:315`). The test for
   "just the time-slice daemon" expects exactly one pending interrupt.
4. *Join returns 0* (`exception.cc:361`); `syscall.h:68` says "Return the exit
   status."
5. *A process can load another file's pages* (`addrspace.cc:303`). The name the
   constructor copies lies in `read`'s static buffer; while the constructor
   waits for the descriptor table's lock another process's system call may fill
   the buffer. `addrspace.cc:299`: "Save this so the address space can be
   constructed later."

## 4. Bounds

No run bounds its depth; what is bounded is named in the modules' constants.

- Threads in `synch`: three are enough for a releaser, a woken thread and one
  that takes the lock in between; the fourth is a second sleeper behind the
  woken one, which `LockNoLostWakeup` and `SemaphoreNoLostWakeup` are about.
- `MaxValue` bounds a semaphore's int. Two units and two sleepers are the
  smallest case in which a V is lost if it wakes only at value 0.
- `MaxReady` in `ReadyList` is one less than the number of threads: it excludes
  no state. Six threads give a heap in which a node has one child.
- Delays in `Interrupt` are chosen so that interrupts fall due in the same tick
  and in different ones; `SystemTick` and `UserTick` have the program's values
  10 and 1.
- Two threads with two calls each on the disk reach the case that a thread that
  has just released the lock takes it again before the one it woke.
- `MaxSpaces` is 2 with three Thread objects: a child of a child, two children,
  and a thread object used twice are all possible. The number of Joins needs no
  bound: a second Join of a child never returns.
- `MaxCalls` 4 in `Callers`, by three threads: two removers waiting and two
  appends, or a reader that holds the console's lock with writers behind it and
  a second reader. `MaxTyped` 3 lets a typed EOF be overwritten.
- `MaxItems` 3 in the ordered list: insertion in front, in the middle, at the end,
  and next to equal keys. `MaxSent` 3 packets: one buffered, two in the socket; or one received, and two
  sent to a machine that has been aborted since.
- `MaxTicks` 30 in `DiskLatency` is more than two turns of a track of four sectors
  of three ticks; a seek of five ticks ends inside a sector.
- Stacks of 24 words in `Switch` hold one call of SWITCH and ThreadRoot's frame.
- `filesys`: sectors of two bytes; files of one byte and of two sectors, writes of
  one byte and of more than a sector, at every position; nine sectors, of
  which four are left for files: two small files fit, a small and a large one
  do not; two directory entries, one of
  them across the sectors; four descriptors, two of them the console's.
- `exec`: pages of 16 bytes, text and data in different pages with a segment that
  ends inside a page, two sections of uninitialized data that lie apart, five
  frames for programs of five and three pages, so that frames run out. `MaxArgs`
  3 (19 in the code): none, one and two arguments, one of them empty. The third
  process is the one whose system call refills the static buffer under an Exec.
- `parts`, processor: bytes of two bits, so that the second operand of a
  product takes every value; every kind of opcode in the second place of a program, alone, in the delay
  slot of a branch or a call, and after a load; registers with values of both
  signs.
- Symmetry: the threads other than `Main` in `synch`, the processes other than
  `Main` in `exec`, the file names in `filesys`. None of these runs checks liveness.

## 5. Fairness

- Ready list: weak fairness of Yield, as `RoundRobin` re-schedules itself every
  20 ticks and `OneTick` then yields.
- `Interrupt`: weak fairness of the next-state relation: the simulated processor
  does not stop. Every behaviour in which a program computes for ever is still
  allowed.
- `SynchDisk` and `Process`: strong fairness of each thread's own steps and of
  its dispatch. A ready thread is dispatched again and again
  (`EventuallyRescheduled` in run `parts`), for as many threads as these models
  have; with five, finding 2 applies and the assumption is not justified. A
  thread that has the processor again and again gets on with the call it is in:
  a time slice is longer than the code of a call between two places where
  interrupts are enabled. The disk's interrupt is strongly fair: interrupts are
  off now and then, but whenever they are enabled the clock goes on, so a
  pending interrupt falls due (run `interrupt`). The return of Idle is weakly
  fair: it is next in the code.
- `Process` assumes also that a program ends at some time.
- `SynchList` and `SynchConsole`: weak fairness of each thread's steps inside a
  call, on the same grounds, and of the device's two interrupts, which schedule
  themselves again (the poll) or are pending (the write). No call need ever be
  made, and nobody need ever type.
- The file system, paging and the processor are checked for safety only.

## 6. Proofs

The theorems hold for any sets of threads, priorities, semaphores, locks,
conditions, sectors, programs, machines and characters, and for any sizes. What
they assume is named where the constants are declared:

- `Main` is a thread and `NULL` is neither a thread nor a program's id; priorities
  are integers, initial values naturals, each condition has a lock
  (`ThreadAssumption`, `PriorityAssumption`, `SynchAssumption`,
  `ProcessAssumption`);
- there are finitely many threads (`ThreadsFinite`, `ConsoleAssumption`), where
  threads are counted;
- the disk's semaphore starts at 0, there is at least one sector and one value to
  write (`SynchDiskAssumption`), a track has sectors and a sector takes time to
  pass (`GeometryAssumption`);
- a stack has at least the 15 words that ThreadRoot's frame and a call of SWITCH
  take, and what lies in fresh memory is not one of the places in the code that
  the model tells apart (`SwitchAssumption`);
- programs are converted ones that fit into memory, as the constructor of
  AddrSpace asserts (`AddrSpaceAssumption`).

**Scheduler_proofs.** `DispatcherSafe`: types are kept, the ready list holds
exactly the READY threads, once; the processor is owned by one thread; the
carcass is a finished thread. The inductive invariant `SchedInv` is the
conjunction: none of its parts is inductive by itself. Deleting a carcass leaves
the ready list right only because a carcass is finished, and `Run` does not delete
the thread it dispatches only because that one is READY. The main lemma is
`RunInv`, used for Yield and for the end of Sleep. `DestroyedSafelyTheorem` is the
action property: the ASSERT in `~Thread` cannot fail.

**Synch_proofs.** `QueuesTheorem`, `MutualExclusionTheorem`,
`LockKnowsOwnerTheorem`, `LockNoLostWakeupTheorem` and `SynchRefinesScheduler`.
The inductive invariant `SynchInv` adds to `SchedInv` the exactness of the queues,
the owner of each lock, and `CallConsistent`: a thread inside a call is asleep
there, or woken and on its way with interrupts off. It is needed because a
thread that could yield, finish or make another call while `call[t]` is set would
be taken from the woken threads without testing again. The proof first computes
how a region or handler changes the sets of sleeping and woken threads of each
call (`RegionCalls`, `WakeCalls`, `SchedStepCalls`), next what Append and Remove do
to the members of a queue, and then has one lemma per operation. That every
step is a step of the dispatcher follows from the exactness of the queues.

**Monitor_proofs.** `SemaphoreNoLostWakeupTheorem` compares a semaphore's value with
the number of woken threads: the lemma `WokenStay` says that a woken thread leaves
its call only by going on with it, so the number falls by one only when P takes
a unit, and V that finds a sleeper raises it by one. `SynchImplementsMonitor` maps
each operation to a step of `Monitor`: Acquire that sleeps to `QueueUp`, Acquire
that returns (also at the end of Wait) to `Enter`, Wait to `WaitOn`, Signal and
Broadcast to `SignalTo` and `SignalAll`, and the dispatcher and the semaphores to
stutters. The lemmas `ReturnEntering` and
`SleepEntering` compute how a region changes the threads that have to enter a
lock.

**SynchDisk_proofs.** `RequestsInTurnTheorem`, `BufferCurrentTheorem` and
`DiskImplementsSynch`. `DiskInv` adds to `SynchInv` where threads are
(`PlacesConsistent`: past Acquire exactly if holding the lock) and `RequestOwned`: a
request under way and a unit of the semaphore exclude each other, and one of
them is there exactly while a thread is in P. Without the last, a unit left over
from another request would let P return before the interrupt.

**Process_proofs.** `SignalledOnceTheorem`, `JoinReturnsAfterExitTheorem`,
`RecordsConsistentTheorem`, and `ProcessImplementsSynch`, by which the theorems about
semaphores hold for processes. `ProcInv` has besides `SynchInv` the ids issued so
far, that no two thread objects have one record (`RecordUnique`), that a thread is
in Exit exactly if its program is over (`ExitKnown`), and what a thread under
construction may look like (`NewbornRecorded`). They are needed because thread
objects are deleted and made again: a stale `parentRecord` must not count.

**Devices_proofs.** `DeliveredInOrderTheorem`, `PutsInTurnTheorem` and
`CharsDeliveredTheorem`, about the network and the console alone (`NetworkSpec`,
`ConsoleSpec`: the initial predicate and next-state relation that run `parts`
uses). The property of the network is inductive with its types, whichever
machines are aborted. The console
needs that one thread is past Acquire (`OneCaller`) and that a PutChar waits
exactly while its interrupt is to come or has signalled (`WriteSignalled`). "The
same characters, EOF left out" is a mapping that keeps order between the places
of two sequences; the lemmas `SameTransitive`, `SameWithout` and `SameAppended` say
what a typed, an overwritten and a read character do to it. The console uses
its lock as `Monitor` describes, which `SynchImplementsMonitor` justifies.

**Machine_proofs.** `LatencyExactTheorem` for every geometry (`LatencySpec`) rests on
`ModuloDiffIs` and on `BufferAligned`, that the track buffer starts at a sector's
edge after the seek. `ThreadsUndisturbedTheorem` (`SwitchSpec`): `SwitchInv` says for
each thread that does not run that it is fresh, with the frame StackAllocate
laid out, or suspended in SWITCH, with a return address where its stack pointer
says, the place it returns to (`Place`: its code, or the startup function) and its
own registers saved, or finished; and for the one that runs what
its registers are at each place in ThreadRoot. `FrameKept` says that the words of
ThreadRoot's frame are still there when it goes on.

**AddrSpace_proofs.** `FrameExclusiveTheorem`: no frame is in two page table
entries, and none in an entry is called available, through page faults, victims,
kernel reads and writes and the end of processes. The inductive invariant
`FramesApart` says it entry by entry and adds the shape of the tables and that a
`physicalPage` is a frame or -1: `Claim` takes a victim's frame, and only because
it is a frame of exactly one entry is it free once that entry has lost it. What
the sweep chooses, a recursive function, is left open: the tests of `StoreBest`
after it suffice. The theorem is about `AddrSpace`'s own specification; run
`exec` checks the same property where system calls read and write many bytes in
one step. Each byte is a step of `AddrSpace` (`KernelReads`, `KernelWrites`), but
that any number of them keep the invariant is an induction over their number,
which is out of the prover's reach.

**Model-checked only.**

- Liveness: `NoInterruptLost`, `IdleMachineHalts`, `CallsReturn`, `JoinReturns`,
  `ItemsReachRemovers`, `PutCharReturns`, `EventuallyRescheduled`. The prover has no
  rules for fairness.
- `PendingConsistent` and `HaltsOnlyWhenQuiet` of `Interrupt` and its refinement of
  the dispatcher, and `MostUrgentFirst` of `ReadyList`: the loop around CheckIfDue
  and the sifting of the heap are recursive operators, which the prover does not
  support.
- `ListsRepresent`, `ArgumentsPassed` and `ResidentIntact`: what they say is computed by
  recursive functions (the cells reached from `first`, the strings that
  createStackArgs reads and pushes, the conversion of sections), and what such a
  function computes for every input needs induction over the input.
- `MultExact` and `ImplementsInterpreter`: the processor uses bitwise operations,
  which are defined recursively.
- `FreeMapExact`, `FilesIntact` and `ReadsBack` of the file system, whose operations
  put together and flatten sequences of sectors.

## 7. What is not modelled

- SWITCH for other processors than the i386, and the check of the stack's
  fencepost.
- Destructors of Semaphore, Lock and Condition: no modelled caller uses them.
- Uninitialised `child` and `parentRecord` of the main thread are taken as NULL,
  which is what the code relies on; its `priorityLevel` is arbitrary.
- Swapping to disk (`readPage`, `writePage`, `on_disk`): a dirty victim's index
  is already -1 when it is used, before a page could be read back. The TLB
  branch of `Translate` is not compiled.
- What happens after an access outside an array, or after an uninitialized
  pointer is deleted, other than a stop.
- Two threads in the file system at once: `filesys.cc:167` excludes it.
- File system calls that answer with an error and change nothing; the lock of the
  descriptor table, whose process is one thread; `List`, `Print` and `Mapcar`.
- The debugger and the big-endian branches of the simulator; the system calls of
  the stand-alone interpreter.
- Ints at their limit in the disk's latency (`disk.cc:236`), after 2^31 ticks.
- Boot, options, debug output, statistics, wrappers of UNIX calls, `fstest.cc`
  and `threadtest.cc`: without protocol.
- `disasm.c`, `coff2flat.c`, `out.c` and the programs in `test/`: they print or
  copy object files, or run on top of Nachos.
