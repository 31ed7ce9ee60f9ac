# LazyOS in TLA+

LazyOS is a 32-bit x86 teaching kernel: a boot loader, a kernel heap, a physical
frame allocator, paging, a preemptive scheduler over a priority queue, a spinlock,
interrupt and exception handling, a VGA terminal with a keyboard-driven command
line and editor, and a FAT12 file system. This directory models its core and checks
the models with TLC and TLAPS. Source paths below are relative to `src/src/` of the
repository.

## 1. Inventory

| Component | Source | State | Operations | Modelled in |
|---|---|---|---|---|
| Ready queue | `queue/queue.c` | `data[256]`, `size` | `pq_init`, `pq_push`, `pq_pop`, `pq_peek`, `pq_is_empty` | `PriorityQueue`, `QueueMachine`, `PriorityBag` |
| Process table, scheduler | `process/process.c`, `process.asm` | `procs[4]`, `kernel_proc`, `ready_queue`, `executing_process`, `zombie` | `create_process`, `start_processes`, `scheduler`, `process_exit`, `free_proc`, `context_switch` | `Scheduler`, `LazyOS`, `ProcessLifecycle` |
| Spinlock | `process/spinlock.asm` | `shared_lock`, the `spinning` flags | `setLock`, `releaseLock` | `LazyOS` |
| `kernel_main`, entry functions | `kernel.c` | `shared_variable` | create, start, three demo processes | `LazyOS` |
| Interrupt stubs, IDT, PIC | `idt/idt.asm`, `idt/idt.c` | `eax` of the interrupted code | timer and keyboard stubs | `LazyOS` |
| Exceptions | `idt/ISR/` | the stacked frame | `isr<n>`, `softwear_interrupt_handler` | `Exceptions`, `LazyOS` |
| Timer | `PIT/pit.c` | tick counter | `timer_handler`, `sleep` | `LazyOS` (`Tick`, `Sleep`) |
| Kernel heap | `memory/heap/` | the block table | `kmalloc`, `kzalloc`, `kfree` | `Heap`, `ProcessMemory` |
| Physical memory manager | `memory/paging/PMM/`, `e820_mmap/` | the frame bitmap | `fill_from_to`, `get_free_physical_address`, `free_physical_frame` | `PMM`, `ProcessMemory` |
| Paging | `memory/paging/paging.c` | directories, page tables | `paging_new_process_directory`, `vmm_alloc`, `paging_set`, `free_vmm` | `ProcessMemory` |
| Terminal | `drivers/VGA/VGA.c` | `terminal_row`, `terminal_col`, the screen, the saved window | print, scroll, backspace, save and restore | `Terminal`, `Screen` |
| Keyboard, commands, editor | `drivers/keyboard/`, `drivers/VGA/` | `buff`, `position`, `editor_buff`, `e_pos`, `mode_t` | key handler, commands, editor | `Console` |
| FAT12, disk, streamer | `fs/fat/`, `disk/` | FAT and root directory in memory and on the disk, sectors | `create_file`, `read_file`, `delete_file`, boot | `FAT12` |
| Clock | `clock/clock.c` | RTC registers, the interrupt flag | `read_date`, `print_time`, conversions | `Clock`, `Console` |
| Boot loader, string and port helpers | `boot/`, `str/`, `IO/` | none of interest | | not modelled |

How they interact. `kernel_main` runs on the boot stack with interrupts enabled,
creates processes and switches to the first. From then on the timer stub calls
`timer_handler`, which calls `scheduler`, which may switch stacks inside the
interrupt; the stub of the *new* process's last interrupt then returns. A process
leaves by returning into `process_exit` (interrupts enabled), by an exception that
`softwear_interrupt_handler` turns into `kill_proc` (interrupts disabled by the
gate), or by a tick that finds its budget spent. When the queue is empty the boot
thread is resumed. `create_process` uses paging, which uses the frame allocator
and the heap. The keyboard handler runs the command line, which saves, reads and
deletes files; each of these takes disk streams and buffers from the heap. It runs on
the stack of whatever it interrupted. The end of interrupt is sent before it begins,
and a command that reads the clock executes `sti`: from there on ticks may switch to
another process and further keys are handled on top of it.

What is hard here:

* ticks arrive between any two instructions of `start_processes`, `process_exit`
  and `setLock`, and these share globals with the scheduler;
* every interrupt stub ends with `popad; mov al, 0x20; out 0x20, al; iret`, so the
  interrupted code loses the low byte of `eax`;
* a waiting process is marked `spinning` through `executing_process`, not through
  the caller, and the scheduler charges accordingly;
* a process may be dropped by the scheduler anywhere, also inside its critical
  section or in the middle of printing a character;
* the zombie slot holds one process, and slots are never reused;
* `create_process` may run out of memory after each of its allocations, gives
  nothing back, and `free_proc` gives back only a part of what a process has;
* a file is saved and deleted in several sector writes with a power failure possible
  between any two, a sector may end inside a directory entry, and the boot reads back
  less than was written;
* processes and the keyboard handler print through one cursor that nothing protects;
* keys arrive while a save, or the printing of the time, is under way, and a process
  that ends takes a save on its stack with it;
* boundaries: a full screen, 8-bit positions in buffers of 4096, queue at capacity,
  children at the end of the heap, the end of the block table, regions that
  begin or end inside a byte of the frame bitmap, or at the end of the address space.

The properties that make each component correct are listed with the runs.
`PROJECT.json` ("hazards") gives each of these points with its source line.

## 2. Modules and what they correspond to

```
PriorityQueue --> QueueMachine --(implements)--> PriorityBag
     |                 |
     |            QueueMachine_proofs
Scheduler    Exceptions
     \          /
       LazyOS  --(implements)--> ProcessLifecycle
      /      \
MCLazyOS   LazyOS_proofs
     |
  Claims        Heap ---> ProcessMemory <--- PMM --> MCPMM, PMM_proofs
                            |       |
         ProcessMemory_proofs   MCProcessMemory

Screen, Clock --> Console --> MCConsole, Console_proofs
Terminal --> MCTerminal, Terminal_proofs
FAT12 --> MCFAT12, FAT12_proofs

NatInduction --> ProcessMemory_proofs, Console_proofs, FAT12_proofs
```

**PriorityQueue** is `queue.c` as operators on a record `[data, size]`. Cells above
`size` keep their old contents, as in the code. `bubble_up` and `bubble_down` move
one element along a path and are recursive functions of its index.
**QueueMachine** drives them with arbitrary pushes and pops; **PriorityBag** says
what a bounded priority queue promises.

**Scheduler** holds the process control blocks and the globals of `process.c`. A
thread is identified with the block it belongs to; `sp[b]` names the *thread* whose
saved frame block `b` points at, or `NULL` when no such frame exists (never built,
or consumed and overwritten). That is what makes a context saved into the wrong
block visible. `CR3` is the block whose directory is loaded, `freed` counts the
calls of `free_proc` on a block. `scheduler` is split by its four ways through:
`SchedulerIdle`, `SchedulerExpire`, `SchedulerKeep`, `SchedulerPreempt`; each one
includes the freeing of the zombie that precedes it. The number that
`context_switch` stores into `state` is the 3 of `process.asm`, not the 2 of
`queue.h`.

**Exceptions** lays `registers_t` over the words that the stubs push and computes
what `reg->int_no` yields.

**LazyOS** is the running system. `pc` has one step per instruction where a tick
in between matters: `setLock` (`LockBegin` ... `LockEnd`), the load, add and store
of `shared_variable`, `process_exit` (`ExitMark` ... `ExitSwitch`), and the two
halves of `start_processes` (`KernelStart`, `KernelSwitch`). `create_process` is one
step: as long as no process executes, a tick only frees the zombie, which the call
does not use. Entry function kinds are `A`, `B`, `C` of `kernel.c` and `any`, code
of unknown shape that may compute, return or fault but does not use the lock.
`Tick` may happen between any two steps, `KeyboardInterrupt` wherever `eax` is live.
`cpu = HALTED` stands for `cli; hlt` and for the resumption of a frame that does not
exist; nothing is claimed of the machine afterwards, which is why those runs do not
check deadlock.

**Ticks in kernel code.** The hardware allows a tick in the two sections of `process.c`
that change the globals in several steps with interrupts enabled: between the assignment
of `executing_process` and the switch in `start_processes` ("start"), and inside
`process_exit` once it has begun ("exit"). The model allows it too; no run and no theorem
closes them. The auxiliary variable `raced` remembers which of them a tick has fallen
into (`Section`), no action reads it, and the properties that such a tick breaks say so.
`claim_context` and `claim_directory` show one way each in which they break. `cli` before
line 119 and after line 35 of `process.c` would prevent both. Ticks inside `pq_push` and
`pq_pop` themselves are not modelled.

**ProcessLifecycle** is the promise of a uniprocessor scheduler: unused, ready,
running, exited; one process runs, the processor passes only from the running
process to a ready one, and no exited process runs again. `ImplementsLifecycle`
maps `state`, `pc` and `executing_process` to it. (The `state` field alone would not
do: number 3 means both running and terminated.)

**Heap** is `heap.c` and `kheap.c`: the table, first fit, marking and freeing by
flags. An entry is its set of flags. First fit is stated with sets;
`Scan` is the loop as it is written, and `FirstFitAsLoop` compares them.
Sizes that the kernel allocates at boot and keeps (`BootSizes`) are separate from
those it frees (`RuntimeSizes`), because freeing a multi-block allocation is wrong in
the code: `heap_mark_blocks_taken` sets `HAS_NEXT` on the last block too
(`heap.c:107`), so the free runs on into the neighbour. The model has this behaviour
(`Mark`, `LastFreed`); the kernel frees single blocks only. `BootFits` and
`SingleBlocks` say so of the sizes: they are hypotheses of the theorems, and
`MCProcessMemory` assumes them, so that TLC evaluates them for the run.

**PMM** is `pmm.c` with the regions of `manual_prefill` and `get_e820_mmap`. The
bitmap is the set of frames whose bit is set. `Marked` gives the frames that
`fill_from_to` marks, its padding loop included (`PadRound` is a round of it), with the
early return that loses bits and the borrow of 7 instead of 8. Nothing clips it to the
bitmap: the code writes `bitmap[++block]` without a bound, so bits behind `Frames` stand
for bytes behind the array. Arguments are `uint32_t`: the numbers of a memory map entry
are truncated in the call (`Low32`), and `2^32 - 1` is not divided by `calc_frames`, which
makes `start_frame` a bit far behind the bitmap. `U32` is `8 * PMM_ENTRIES * PageSize`, as
the bitmap of the code covers exactly the 4 GiB.

**ProcessMemory** composes the two under `create_process` and `free_proc`. It extends
`Heap` and instantiates `PMM` as it is after boot. `create_process` takes one step per
call that takes memory: the directory, the structure that points at it, and for each
stack page a frame and (once) a page table. Every one may fail. The answer of
`paging_set` is ignored by `vmm_alloc` (`NoTableBlock`), as in the code, and only the
top page is looked at (`TopPage`). A failed call gives nothing back. `Exit` makes a
process the zombie, `Expire` (a spent budget) does not, `Reap` is `free_proc` with one
page of the two, the directory, and neither page table nor pointer structure. The
single zombie slot is in the model: a second exit before the tick overwrites it.
`Streams` are the short-lived blocks of the keyboard handler.

**FAT12** keeps the table and the directory twice, in memory and on the disk. An
operation changes memory at once and leaves its sector writes in `todo`; `WriteSector`
makes one of them. A `file_dir` has 28 bytes and a sector 512, so a directory sector may
end inside an entry: `Stored` takes from memory the fields that lie in the sector
written and leaves the others as they were, with name, first cluster and size at offsets
0, 12 and 24. A cut falls in front of a field; inside a name it is taken to fall behind
it, which is exact for names of up to 4 characters (a boundary inside a name is at
offset 4 of an entry). The first cluster of an entry that is empty, or was cut behind
its name, is `UNSET` (zero on the disk): `delete_file` then starts with the word in
front of the table, which may hold anything. `TextEnd` is where `read_file` puts the end
of the text, at a `data_size` that the loop has already reduced: of a file of several
sectors only the beginning is printed. `Reboot` may come at any moment, and so may
`Abandon` during a save: `create_file` begins with the clock and so enables interrupts,
and a tick that finds the budget of the interrupted process spent never comes back to
it, also when the driver hangs (`CreateHangs`) with table and directory in memory
already changed. One operation runs at a time; the code does not enforce this (`Console`
has keys that interrupt a save), so nested saves are outside this module. The boot reads
`TOTAL_FAT12_ENTREIS` bytes of the table, that is half of its entries (`Loaded`), and
does not read the directory. On a full disk `-NO_MEMORY` is stored as the first cluster:
the driver then polls for ever for a sector behind the disk (`CreateHangs`), and for an
empty file, where no data is written, the entry may be stored without a cluster
(`CreateNowhere`). A full directory is noticed after the clusters were taken
(`CreateNoSlot`). Names match by prefix. Auxiliary variables serve the properties:
`saved` (files saved and not deleted), `mounted`, `blind` (a file was saved before the
directory was read), `behind` (memory is ahead of the disk after an abandoned save) and
`stale` (a boot has lost table entries, or has cut a write short while `behind`, or an
entry without a cluster was deleted) and `torn` (entries of which the disk holds one
part old and one part new).

**Terminal** is `terminal_write_char` instruction by instruction, with the real screen
of 80 by 20. `pc` names the instruction, `eax` holds the value between a load and a
store; `print` is a sequence of characters (`Begin`). The build does not optimise, so
each access to `terminal_row` or `terminal_col` is a load and a store. `Tick` may come
anywhere, damages `eax` and runs any printer; `Expire` is the tick that finds the budget
of the running printer spent and drops it wherever it stands, with the handler of ESC if
that is on its stack. `Runnable` says who gets the processor: a process, or `Boot` (the
thread of `kernel_main`, which prints last) when no process is left. The keyboard
handler is one step (`KeyEcho`, `KeyBackspace`, `KeyEdit`), as its gate disables
interrupts, except for the end of ESC: the save has enabled them, so `RestoreRow` and
`RestoreCol` are steps of their own, on the stack of the printer that was interrupted
(`host`). Cells are left out here, but for the places where Backspace may stop
(`Coloured`). Auxiliary: `alone`, the printer whose current character nobody has
interfered with, and `strayed`: the row is below the screen since a printer was ended
between its increment and its test, or since a saved row was damaged on its way back.

**Screen** has the cells: `VGA.c` as operators on a record of cells and cursor, executed
without interruption. Cells are addressed by `row * VGA_WIDTH + col` with a column up to
`VGA_WIDTH`, which `back_one` really reaches. **Clock** has the BCD conversion and `itoa`.

**Console** is `keyboard_callback` with the two buffers, the command line, the editor
and the window behind it, on a machine whose processes are done. A key is one step
unless its handler reads the clock: then the rest of the handler is on `stack`, one
step per effect, and the next key may come in between and be handled first. Positions
have `POSITIONS` values, fewer than the buffer has cells. A command word is one
character. What commands on files print is one of `Replies`; what they do to the disk is
in `FAT12`. Auxiliary: `files` and `due` (what was saved, what must be), `nested`,
`wrapped` and `joined`, which mark histories after which screen and buffer are known to
differ.

**Claims** and the last definition of `PMM` state what comments
and messages of the source say, for the runs that refute them.

Definitions whose comment begins "Mutation:" are wrong variants of the definition
that follows. No action uses them; each one shows that a property notices the bug.

## 3. Runs

| Run | Configuration | Expected | What it shows |
|---|---|---|---|
| `kernel_main` | `KernelMain.cfg` / `MCLazyOS` | holds | consistency of the scheduler and the lock, and that it implements `ProcessLifecycle` |
| `kernel_returns` | `KernelReturns.cfg` / `MCLazyOS` | holds | liveness: control returns to `kernel_main`, zombies are reclaimed |
| `queue_heap` | `MCQueueMachine.cfg` | holds | the array heap implements a bounded priority bag |
| `process_memory` | `ProcessMemory.cfg` / `MCProcessMemory` | holds | heap, frames and page tables under `create_process` and `free_proc` |
| `fill_frames` | `FillFrames.cfg` / `MCPMM` | holds | reserving, handing out and freeing frames |
| `file_system` | `FileSystem.cfg` / `MCFAT12` | holds | consistency and durability across power failures |
| `terminal` | `Terminal.cfg` / `MCTerminal` | holds | the shared cursor under ticks, keys and two printers |
| `console` | `Console.cfg` / `MCConsole` | holds | command line, editor and clock agree with the screen |
| `claim_context` | `ClaimContext.cfg` / `Claims` | violated | a tick in `start_processes` saves the wrong thread |
| `claim_directory` | `ClaimDirectory.cfg` / `Claims` | violated | a tick in `process_exit` frees the directory in use |
| `claim_done` | `ClaimDone.cfg` / `Claims` | violated | "all processes done" may never be reached |
| `claim_reserved` | `ClaimReserved.cfg` / `MCPMM` | violated | a reserved frame is handed out |

Run one with `tlc -config KernelMain.cfg MCLazyOS`.

**kernel_main.** Three slots and four `create_process` calls (`A`, `B`, `any`, `C`), so
the table fills and the last call fails; `B` makes two rounds of its loop, both inside
the one critical section, as the code takes the lock once, outside the loop;
`create_process` may also fail earlier for lack of memory. A budget of three slices lets
a process be preempted twice and expire at every step. Faults: division by zero, invalid
opcode, and a page fault with and without a non-zero error code, so that both the kill
and the halt branch are taken. Ticks fall at every step, those of `start_processes` and
`process_exit` included (1.6 million states). Unconditionally: two processes are never
between `setLock` and `releaseLock` together (`MutualExclusion`), a preempted lock
holder is the next to run (`HolderNext`: with equal priorities `pq_pop` returns the
process pushed last), no tick charges a waiter (`WaitingNotCharged`), the queue holds
each process at most once, never the executing one and no dead one (`ReadyQueueSound`),
every thread outside `process_exit` runs as its own process in its own address space
(`OwnContext`), and a directory is freed at most once (`NoUseAfterFree`). Up to the
first tick inside one of the two sections: no live process is forgotten
(`NoLostProcess`), every queued block holds its own thread (`OwnContext`), no process
inside `process_exit` is queued (`ReadyQueueSound`), a freed directory is not in use
(`NoUseAfterFree`), and the whole is a step or a stutter of the life cycle
(`ImplementsLifecycle`). Three processes are enough for each pairwise interaction plus a
bystander, and for queue sizes 0 to 3.

**kernel_returns.** Three `any` processes. Fairness: `WF(Tick)`, since the timer is
periodic and its gate is never masked for good; `WF(KernelStep)` and
`WF(ExitStep(p))`, since the processor executes kernel code whenever it holds that
thread. Nothing is assumed of entry functions: a process that computes for ever is
ended by its budget. `KernelRegainsControl` says that the boot thread gets the
processor back for good, `ZombieReaped` that an exited process is reclaimed unless a
second exit overwrites the slot within the same tick, in which case its memory is
lost. Both allow for one thing more: after a tick inside `start_processes` or
`process_exit` a frame that does not exist may be resumed, and the machine stops.

**claim_directory.** `process_exit` sets `zombie` (line 40) with interrupts enabled and
goes on in the address space of the dying process. A tick there calls `free_proc` on it:
the directory that `cr3` points at is back in the heap while the processor uses it.

**claim_done.** The same liveness with two lock users and, on top, strong fairness for
each process's own steps, ticks inside the two sections set aside. It fails. In the
counterexample an interrupt between `xchg` and `test` turns the 0 that won the lock into
0x20; the process spins, and as it is marked `spinning` it is never charged and never
ends. The other way to the same end, with no key or tick at that place, is a holder
whose budget ends inside its critical section: the lock stays taken and every waiter
spins uncharged.

**queue_heap.** Four processes, two of equal priority, pushed repeatedly into five
cells: three levels, nodes with one and two children, pushes beyond capacity.

**process_memory.** Twelve blocks, a boot sequence with two one-block allocations and
a two-block one, three slots, five calls of `create_process`, and two to six free frames,
so that the heap or the frames run out at each step of a call and in either order.
`Disjoint`, `TableMatches` and `InsideHeap` are the heap's own consistency;
`FirstFitAsLoop` asks for every size from 0 to beyond the table in every state
reached. `Isolation`: no two directories share a frame, table or block, and nothing
that a directory refers to has been given back. `StackComplete`: a created process
has all its pages, although intermediate answers are ignored (frames are taken from the
bottom, and a page table that was missing for the first page may be there for the
second only if a block was freed in between, which does not happen before
`start_processes`). `MemoryAccount` says what each live, ended and reaped process and
each failed call costs for good. The system may stop: deadlock is not checked.

**file_system.** Three clusters in two table sectors, two directory entries in three
sectors of 20 bytes, two names of which one is a prefix of the other, files of no, one and
two sectors, three saves and two reboots. Three clusters let chains be fragmented by
deletions and the disk fill up. The first directory sector ends in front of the size of
entry 0, the second in front of the first cluster of entry 1, so that a power failure
leaves both kinds of torn entries. The editor's 8-bit position limits files to one sector
today; files of two sectors exercise the chain loops. `DiskConsistent` holds after each
single sector because a save writes the table before the directory and a deletion the
directory before the table: an entry of which only one field is new still has a chain that
ends and is its own; only its size may be another's (`torn`). Once a save has been abandoned
the second order is the wrong one, as the directory on the disk is older than the one in
memory; consistency is claimed again when a write has completed. `Durable` and `ReadsBack`
hold under three provisos that the code does not ensure: the boot has not lost table
entries, after a boot a file is read before one is saved, and no entry that was cut in
front of its first cluster is deleted. Without them files are lost. `ReadsBack` says what
is printed: nothing of an empty file, and of any other the first sector, since the end of
the text is put at the reduced `data_size`.

**fill_frames.** Three bitmap bytes; regions start at each of nine frames and have six
lengths, aligned and not, inside one byte, across two, and past the end; eleven more lie
around the largest `uint32_t` (48 in the run): up to the last byte, with the undivided
value as base or length, and above it, so that the call truncates them. Two regions may
overlap. `Regular` regions, those that reach the end of their first byte, are never
handed out; the others are (`claim_reserved`). At most one frame too many is marked
(`OneFrameTooMany`, stated for the truncated region). `SpillBounded`: regions inside the
4 GiB make `fill_from_to` write at most two bits of the one byte behind the bitmap. That
byte is written: by the last eight frames of the run's bitmap, and in the code by the
region `0xFFFC0000 + 0x40000`, against what `pmm.h:5` says of the size of the bitmap.

**terminal.** Two printers of two characters each, letters or newlines, and `kernel_main`
with one after them, from the end of the last row and of the last but one, and two keys.
Wraps, newlines and scrolling of both printers then overlap in every way, a printer is
dropped at any instruction, and a key falls between any two; a window can be opened and
closed in between. `RowReturns`: the row is below the screen only while some printer is
about to correct it, or since it has strayed in one of the two ways that the code really
has. `AloneOnScreen`: a character printed alone lands on the screen unless the row has
strayed. Columns and characters do go astray in races: no property says they do not.

**console.** Six keys, from eight command lines, on a screen of three by three, so that
lines wrap and the screen scrolls within a command; five positions in six cells, so that
positions wrap; handlers nested up to three deep, enough for a save interrupted by a
second ESC and by a command with its own. `LineEnds` is the guarantee that
`bufferTestCommand` stops. `LineOnScreen` and `TextOnScreen` relate the buffers to what
the user reads. `TextSafe` says that the text in the editor when ESC is pressed is in
the editor until it is in a file. `TimeShown` compares the printed digits with the two
digits of the register (0, 7 and 59). The two flags `wrapped` and `nested` are the price
of the code's limits: after 256 characters the editor saves an empty file, and a key
during `get-time` may be erased, or execute the command again.

Not kept as runs, but visible in the models: `reg->int_no` is the error code, as
`registers_t` begins with a `ds` that no stub pushes (`Exceptions`), so that every
exception without an error code is taken for a division by zero; `context_switch` marks
the process it starts with 3, which `queue.h` names `PROCESS_TERMINATED` (harmless while
only unused slots are searched for); `proc_a_entry` sleeps with the lock held although
`kernel.c:30` says "outside the lock"; `tests.c:123` expects 70 at the root of a heap
into which 100 was pushed; a request that ends in a too short free run at the end of the
block table is granted past the table (`Trailing` in `Heap`); freeing several blocks
frees the neighbour; the table is read back by half and the directory not at all after a
boot (`fat12.c:20`, `fat12.c:125`); a file of several sectors is printed cut to what its
last sector holds (`fat12.c:183`); deleting a file that has no cluster hangs the driver;
text typed between ESC and the end of the save is lost; a second ESC during a save makes
a second file of the same name; Backspace over a newline in the editor takes a character
from the screen; a waiter whose winning 0 became 0x20 waits for a lock that nobody
holds, the first half of `claim_done`.

## 4. Proofs

Check a module with `tlapm M.tla`. Each theorem holds for every value of the constants
that the named assumptions allow. The inductive invariants below were invariants of the
corresponding run first, wherever TLC can evaluate them (those of `FAT12_proofs` quantify
over all chains).

### The kernel

`LazyOS_proofs` proves, for every `MAX_PROCS <= MAX_PROCESSES`, every list of entry
functions, every budget, every set of faults and ticks at every step:

* `TypeCorrect`: `Spec => []TypeOK`. `TypeOK` is not inductive. `pq_push` and
  `pq_pop` read priorities through the queued pointers, so `TypeInv` adds `QueueOK`
  (the cells in use hold processes of priority 1), that the executing process and a
  process popped by `process_exit` have priority 1, and that `kernel_main` does not
  run past its list. `PushAppends` and `PopMovesLast` are the facts about the heap:
  as long as priorities are equal, which `create_process` guarantees, the bubbling
  loops stop at once, push appends and pop moves the last process to the root.
* `LockExcludes`: `Spec => []MutualExclusion`. The strengthening is `LockInv`: while
  some process holds the lock, the lock word is not 0, and a value about to be
  exchanged into it is not 0. It survives the damage to `al` because
  `ClobberNotZero`: the damaged value ends in 0x20 and so is never 0. Damage can make
  a winner miss its win, never make a loser win.

The second part of the module proves `QueueStaysSound`, `NothingLost`, `ContextsKept`,
`FreedIsGone`, `HolderRunsNext` and `WaitersNotCharged`, the rest of what `kernel_main`
checks, with no hypothesis on ticks: what a tick inside `start_processes` or
`process_exit` breaks is in the properties, as `raced`. None of them is inductive, and
they need each other: that a queued process has its own frame is needed to show that the
process which is switched to runs as itself, that the running thread is the executing
process is needed to show that the frame a tick saves is its own, and so on around the
loop. There are two invariants.

`SchedInv` holds as long as nothing has raced (`UnracedInv`). It is the conjunction of

* `QueueInv`: the queue holds live processes that wait with their own frame, each once;
* `UnusedInv`: nothing has happened to a slot that `create_process` has not used;
* `KernelInv`: `kernel_main` runs with no process executing, except between its choice
  of the first process and the switch;
* `ThreadInv`, with `ExitInv` for the steps of `process_exit`: a process runs as itself;
  an exit path knows at each step what it has popped, marked and handed to `zombie`;
* `HaltInv`, `OneExit`: where the machine may have stopped, and that only the running
  thread is inside `process_exit`;
* `ReapInv`: the zombie has ended and is not yet freed, and what is freed has ended;
* `SpinInv`: a process that waits for the lock is marked.

`RaceInv` is what no tick can break, wherever it falls. Its point is how wrong things can
get: a frame in the block of another process is always that of a thread about to switch to
this very process, and lies nowhere else (`FrameInv`), so a process that is resumed in the
wrong block is in `process_exit` and goes on to end. From this follow that no process that
is leaving is ever queued or chosen (`ListInv`, `ChosenInv`, `PoppedInv`), that a process
runs as itself until it is leaving (`RunInv`), that it becomes the zombie once
(`FreeInv`), and, without a tick in the section concerned, `BootInv`, `LeaveInv` and
`LoadedInv`.

For both there is a lemma for each group of actions (kernel code, entry functions,
faults, exits, ticks, keys) and under it a step for each conjunct that the group
disturbs. `HolderNext` rests on `PopMovesLast`: the process that a tick pushes is the
last one in the array, and the one that a pop returns and the one it moves to the root
are not the holder unless it is first.

It also proves `KernelImplementsLifecycle`: `Spec => ImplementsLifecycle`. `LifeValue`
expresses the life of a process through `Live` and `executing_process`; `AbsStutter`,
`AbsExit`, `AbsReplace`, `AbsPreempt` and `AbsDispatch` say which change of these two is
which abstract step, and each action of the kernel is brought to one of them with
`SchedInv`.

### The ready queue

The kernel gives every process priority 1, and the proofs above use that. The queue by
itself promises more, and `QueueMachine_proofs` proves it for every capacity, set of
processes and priorities, with no hypothesis but the named assumptions: `QueueTyped`,
`HeapKept` and `HeapImplementsBag` (`Spec => ImplementsPriorityBag`). The inductive
invariant `HeapInv` is small (cells in use hold processes, in heap order); the work is in
what the two recursive functions compute.

* The library's induction theorems take an operator; `StrongInduction` and
  `StepInduction` (here, and as `NatInduction` for the other modules) state the
  principle for a *set* of naturals instead, from the least element outside it. With
  them `UpPrefix` and `DownSuffix` show that the recursive functions exist, which no
  prover takes for granted.
* `RaisedTo` says what `bubble_up` leaves when the process it moves has come to cell
  `j`: cells behind `j` are untouched, the processes are those of before with the moving
  one in place of the content of `j`, and if it outranks that content the cells are a
  heap. `RaisedHere` and `RaisedOn` are the two cases of the recursion. `SunkTo`,
  `SunkHere` and `SunkOn` do the same downwards, where `LargestOrder` says that the
  child chosen is not below its sibling.
* Processes are counted cell by cell (`CountChange`, `CountNext`), so that a push adds
  one and a pop takes one of exactly one process (`PushResult`, `PopResult`).
* `BagSize` shows that the cardinality of the bag, a sum over a choice of elements, is
  the fill count; `RootLargest` that the root has greatest priority. With these each
  operation is a step of `PriorityBag`.

### Memory

`PMM_proofs` proves, for every page size, memory size and set of regions and with no
hypothesis but `PMMAssumption`: `FramesTyped`, `ReservedStayReserved`, `FillIsTight`,
`SpillIsTwoBits` and `FramesAreConserved`. The work is in the padding loop.
`PaddingValue` says what is left to be marked after any number of rounds, by way of
`PadRound` (a whole byte that is broken up counts as 7, not 8), `MarkedForm` turns it
into an interval of frames, and `RegularMarked` shows that a regular region lies inside
it. The invariant `FrameInv`: what is handed out is marked, nothing is handed out before
boot is over, the frames of a regular region are marked without an owner, what boot
marks belongs to a region, and regions inside the 4 GiB spill at most two bits: a base
and a length are each rounded up to whole frames, and one frame more is marked.

`ProcessMemory_proofs` proves `HeapSound` first: `Disjoint`, `TableMatches` and
`InsideHeap` of the heap alone, under `BootFits` and `SingleBlocks`. Both hypotheses are
needed, as the code shows: a request that does not fit may be granted past the end of
the table (`Trailing`), and freeing several blocks frees the neighbour (`Mark`,
`LastFreed`). The constants of the kernel satisfy them: of 25600 blocks of 4096 bytes,
boot takes 1024 page tables, their directory and little more, and nothing larger than a
block is ever freed. `HeapInv` relates allocations and flags block by block; `BootInv`
says that until the last boot allocation what is taken is the beginning of the heap, so
that first fit finds the next place behind it. `FirstFit`, `OneFits` and `NoneFits` say
what `heap_get_start_block` answers.

`SearchIsLoop` proves `FirstFitAsLoop` with no hypothesis but `HeapAssumption`: in every
state, for every table and every request. `ScanInv` is the invariant of the loop. Before
the break, `start_block` is the beginning of the free blocks that end where the loop
stands, and no run of the length asked for lies behind it; at the break it is the first
such run. `RoundKeeps` is one round.

Its second part proves, for every number of slots, stack pages, blocks and frames and
under the same two hypotheses, the other invariants of the run `process_memory`:
`MemoryTyped`, `AllocationsDisjoint`, `TableIsExact`, `HeapNotLeft`, `ProcessesIsolated`,
`StacksComplete` and `MemoryAccounted`. `MemInv` adds to `HeapInv`
and `BootInv`

* `DirInv`: every directory in use, the one under construction included, is backed by
  kept single blocks and by frames with an owner, and no two have anything in common;
* `BuildInv`: how far `create_process` has come. Its point is the ignored answer of
  `paging_set`: once a page table could not be had, no block is free until the call
  ends, so the top page is missing as well and `create_process` notices;
* `OrderInv`, `CountInv`: the order of the kernel's life, and that every call has failed,
  has made a process or is under way;
* `AccountInv`: the account, with the part lost by failed calls as a difference.

### The file system

`FAT12_proofs` proves, for every number of clusters up to 4094, every number of table
entries and of directory bytes in a sector, wherever that cuts the entries, every number
of directory entries, saves and reboots, and every set of names and sizes, all that the
run `file_system` checks: `FileTypes`, `DiskStaysConsistent`, `SavedFilesDurable` and
`ReadShowsSaved`. There is no hypothesis but `FAT12Assumption`; the provisos (`stale`,
`behind`, `blind`) are those in the properties.

* The properties speak of `Chain`, which counts links until the end mark. The proofs
  speak of `IsChain`: a function from `1 .. n` to clusters that ascends, as
  `fat12_allocate` takes them from left to right. `LinkAlong` and `ChainIs` show by
  induction that this is what the loops over the table visit, `ChainUnique` that there
  is one. `TakesFree` and `Allocated` say what `fat12_allocate` takes and leaves; that
  it is a function at all is `TakenPrefix`.
* `Sound` is the invariant behind `DiskConsistent`, which by itself says nothing of
  memory or of a write that is half done. In memory every entry has a chain and no
  cluster belongs to two (`MemorySound`). While nothing is deleted the *table in memory*
  has the chains of the directory *on the disk* as well, and the table on the disk
  agrees with it on their clusters (`DiskKnown`), so either directory may be mixed from
  old and new sectors (`Mixed`). During a deletion the table in memory has forgotten a
  chain that the disk may still refer to; then the disk is sound by itself and the files
  that are left agree (`DiskSound`), provided that the directory in memory holds nothing
  new (`NothingNew`). This is what an abandoned save breaks, and why `behind` is in the
  property. `Progress` (a field that is not pending is written) and `Ordered` (the table
  before the directory in a save, the directory before the table in a deletion) tie the
  pending writes to it.
* `Sized` says which entries have the length of their chain. Those in memory have it,
  but for one that was read from the disk torn and not changed since; those on the disk
  have it unless they are torn, in the table in memory or, during a deletion, in that on
  the disk.
* `AllKept` adds the content: a saved file is in the directory on the disk, both tables
  have the same chain for it and its sectors hold the save (`Kept`); each sector of the
  save under way is on the disk or pending (`Underway`), and its entry is not torn once
  it is stored (`Saving`); a deletion overwrites only clusters that are free in memory
  (`Wiping`); nothing is written before the directory has been read (`Unread`); an entry
  that is empty in memory is empty on the disk (`EmptyKnown`). `WrittenElsewhere` is the
  heart: a sector of data that is written belongs to no saved file.

### Terminal and console

`Terminal_proofs` proves, for every set of printers, every width, every height from 3 to
32, every text and number of keys:

* `CursorTypes`: `Spec => []TypeOK`.
* `CursorHeals`: `Spec => []RowReturns`, with printers dropped anywhere. The inductive
  invariant `Inv` adds that a saved row is on the screen (`SavedOnScreen`): `KeyEdit`
  saves it after two newlines of the handler itself. The heart is `ClobberLarge`: a
  damaged register holds at least 0x20, at least the height, so an interrupt can only
  make the test of the row succeed. This is where the height of at most 32 is needed; on
  a screen of 40 rows a tick could hide a row below the screen from its test.
* `LoneCharacterOnScreen`: `Spec => []AloneOnScreen`. `AloneKnows` says what a printer
  left alone knows at each instruction of the column, of the row and of its register, as
  long as the row has not strayed.

`Console_proofs` proves, for buffers and positions of any size, any keys and handlers
interrupted to any depth:

* `LineAlwaysEnds`: `Spec => []LineEnds`. `LineInv`: no cell behind what a position can
  address is ever written.
* `TextNeverLost`: `Spec => []TextSafe`. `SaveInv` says of a text that is due: if a save
  on the stack is past `create_file`, the text is in a file; if it is in no file, a save
  is still to come, the text stands in the editor before `e_pos`, and every save to come
  was called with a position behind it. So characters typed during the save are stored
  behind the text, and a second save that finishes first takes the text along.
* `ConsoleTypes`: `Spec => []TypeOK`, for a screen of any size. The invariant of both
  screens is `Neat`: the cursor is on the screen or just behind the end of a line, cells
  hold what can be printed, and all cells behind the cursor are black. It holds whatever
  interrupts what (`ScreenInvariant`). What is printed must have a length: `ArgSeq` for
  the argument that `bufferTestCommand` cuts out of the line, `ItoaDigits` for the digits
  of a register.
* `TextReadable`: `Spec => []TextOnScreen`, for a screen of any size. Each operation on a
  neat screen has a lemma about the text before the cursor, `Shown`: a character is
  appended to it, a newline leaves it, scrolling removes the beginning, Backspace removes
  the last character or, at the beginning of the screen, nothing (`WriteCharShown`,
  `NextLineShown`, `BackspaceShown`), and `print` follows by induction over the message.
  So the shorter of the text in the editor and the text on the screen is a suffix of the
  longer one (`TextShown`). `Calm` says that line and editor are used in turns as long as
  no key interrupts a handler.
* `LineReadable`: `POSITIONS - 1 <= VGA_WIDTH * (VGA_HEIGHT - 1)` implies
  `Spec => []LineOnScreen`. The line is a suffix of the text on the screen and, which the
  invariant adds, stands in consecutive cells (`Full`), so that Backspace removes from
  the screen the character it removes from `buff`. The hypothesis says that the longest
  line fits above the row that scrolling clears: 255 characters and 80 times 19 cells in
  the code. Without it the claim is false: a line that has scrolled off does not come
  back when Backspace shortens it.
* `TimeReadable`: `Spec => TimeShown`, for three rows and more and registers that hold
  two decimal digits, as the clock's do. `TimeIs` says what `itoa` makes of such a
  register; the digits wrap over one row at most and the newline behind them scrolls one
  more, so in three rows they stay on the screen.

### Assumptions and what is only model-checked

The assumptions are those named in the modules: `CapacityAssumption`,
`PriorityAssumption`, `SchedulerAssumption`, `LazyOSAssumption`, `HeapAssumption`,
`PMMAssumption`, `ProcessMemoryAssumption`, `FAT12Assumption`, `TerminalAssumption`,
`ScreenAssumption`, `ConsoleAssumption`; TLC evaluates them in each run. Most
say what kind of value a constant is. Those that say more: the queue has room for every
slot (`SchedulerAssumption`), positions are narrower than the buffer, the first line fits,
and a letter is a printed character (`ConsoleAssumption`; `return_letter` gives `'\n'`
for Enter only, and a key it gives `'\0'` for prints and stores nothing), cluster numbers
lie below the end mark 4095 and a file name has 1 to 8 characters (`FAT12Assumption`), the
screen has 3 to 32 rows (`TerminalAssumption`).

Only model-checked: liveness and everything under fairness (`KernelRegainsControl`,
`ZombieReaped`), which is out of the prover's reach.

## 5. What is left out

Device initialisation, port I/O, the boot loader, wording and the contents of memory.
`Console` has no ticks: the processes are done, and the damage to `eax` in a handler
with interrupts enabled is modelled for the cursor only (`Terminal`), not for words on
their way to the disk. `memset` of a buffer and the copying of a window are single
steps. One of the six registers of the clock is printed, and the copy of `time` after
`sti` cannot be torn. File names are shorter than `editor_filename`; with ten characters
its terminator is stored behind it. A save in `Console` finds room. `LazyOS` and
`ProcessMemory` are two views of the process table: the first has every interleaving and
of memory only "whose directory is loaded, how often was it freed"; the second has the
frames, page tables and heap blocks and of scheduling only the order of exits and
reaping. The kernel's own identity mapping is built once and not modelled. In `FAT12`
reads are atomic, and the out-of-bounds read behind the table on a full disk is
abstracted to its outcomes; extension, attribute and time stamp are left out. The
counters `seconds` and ticks do not wrap.

## 6. Plan

Done: queue, scheduler, lock, exceptions, running kernel, heap, frames, memory of
processes, file system, terminal, keyboard, editor and clock. Proved: the ready queue and
its refinement, and every safety property of the kernel with its refinement, of the frame
allocator, the heap, the memory of processes, the file system, the cursor and the console.

Left: the two liveness properties, which stay with TLC, and what section 5 leaves out.

Not modelled, and why: the boot loader and `init_pit`, the PIC and the IDT are
straight-line port I/O without a state that later code depends on; the string and memory
helpers have no state; nested saves would need the sector steps of `FAT12` inside the
handlers of `Console`, which is beyond what TLC can enumerate with both kept faithful.
