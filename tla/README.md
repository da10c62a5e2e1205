# Canalotus in TLA+

Canalotus is a small 32-bit x86 kernel in the style of Minix: a kernel with
synchronous message passing, a priority scheduler, interrupt handlers for the clock,
the keyboard and the disk, and system processes (TTY, SYS, HD, FS) that serve user
processes by messages. This directory holds TLA+ models of its core, the TLC
configurations that check them and TLAPS proofs about them. Paths below are relative
to the repository's `src/` directory.

| Module | Models | Checked by | Proved in |
|---|---|---|---|
| `Ipc` | message passing, `kernel/proc.c:54-447` | `MCIpc` | `IpcProofs` |
| `Rendezvous` | what message passing promises | (abstract) | |
| `IpcRefinement` | the mapping from `Ipc` to `Rendezvous` | `MCIpc` | `IpcRefinementProofs` |
| `Schedule` | `schedule()`, `block()`, `kernel/clock.c` | `MCSchedule` | `ScheduleProofs` |
| `Hd` | the disk driver, `kernel/hd.c` | `MCHd` | `HdProofs` |
| `Keyboard` | `kernel/keyboard.c`, `kernel/tty.c`, `keymap.h` | `MCKeyboard` | `KeyboardProofs` |
| `Console` | `kernel/console.c`, `syscall_printx` and the echo of `kernel/tty.c` | `MCConsole` | `ConsoleProofs` |
| `Interrupt` | `kernel/kernel.asm`, the masks of `lib/kliba.asm` | `MCInterrupt` | `InterruptProofs` |
| `Processors` | what the entry and exit code promises | (abstract) | |
| `InterruptRefinement` | the mapping from `Interrupt` to `Processors` | `MCInterrupt` | `InterruptProofs` |
| `Fat12` | finding and reading a file, `boot/boot.asm`, `boot/loader.asm` | `MCStartup` | `StartupProofs` |
| `Partition` | the volumes of the disk, `kernel/hd.c` | `MCStartup` | `StartupProofs` |
| `Mkfs` | the layout of a new file system, `fs/main.c` | `MCStartup` | `StartupProofs` |
| `Startup` | the three composed, from the boot sector to the file system | `MCStartup` | `StartupProofs` |

`PROJECT.json` lists the runs, the theorems, the mutants that show each property can
fail, the code lines each definition models, and the hazards of the code.

## 1. The system and its parts

| Part | State | Operations | Talks to | What is hard | What makes it correct |
|---|---|---|---|---|---|
| Message passing (`kernel/proc.c`) | per process: `p_flags`, `p_msg`, `p_recvfrom`, `p_sendto`, `has_int_msg`, the list `q_sending`/`next_sending` | `send_recv`, `syscall_sendrec`, `msg_send`, `msg_receive`, `deadlock`, `inform_int` | every process; the interrupt handlers | list surgery by two parties, BOTH as two calls, interrupts inside a call | queue = blocked senders, no missed rendezvous, no circle of senders, no assertion fails |
| Scheduler and clock (`schedule`, `block`, `kernel/clock.c`) | `ticks`, `priority`, `p_flags`, `p_proc_ready`, global `ticks` | choose, recharge, tick, block | interrupt entry, message passing | ticks and wake-ups that nest in the scan | a runnable process is resumed, with the most ticks; fair rounds; no starvation |
| Disk driver (`kernel/hd.c`) | `hd_info`, `hd_buf`, `hd_status`, the request in hand | `sys_hd` loop: open, close, read, write, ioctl; `partition`; `hd_handler` | FS by messages; the disk by ports and an interrupt | its interrupt between any two statements of its own RECEIVE; failed commands; one buffer for all tables | command and interrupt stay paired; requests are answered; each device is the volume the disk has |
| Interrupt entry and exit (`kernel/kernel.asm`, `i8259.c`) | `k_reenter`, the interrupt masks, `irq_table` | `save`, `restart`, `restart_reenter`, `hwint_*`, `_syscall` | all handlers | nesting, the stack chosen for it; masks read and written back | the way out matches the way in; no line nests in itself or stays masked |
| SYS (`kernel/sys.c`), `get_ticks` | the clock's `ticks` | GET_TICKS | everyone who waits for time | `waitfor` and `milli_delay` compute on a wrapping count | the caller gets the time |
| File system (`fs/main.c`) | the cluster map, the file table | `mkfs` | HD by `rw_sector` | rounding, a 32 KiB structure on a 32 KiB stack | areas on the disk do not overlap |
| Keyboard (`kernel/keyboard.c`) | the scan-code ring `kbd`, modifiers and locks | `keyboard_handler`, `keyboard_read`, `set_leds` | TTY; the keyboard's interrupt | ring shared with the handler, bytes dropped, codes of many bytes, polling for an ACK | each key has the effect it had when struck |
| TTY (`kernel/tty.c`) | `tty_table`, `in_buf` | the loop, `in_process`, `syscall_printx` | keyboard, console | two writers to one console | keys reach the right console, in order |
| Console (`kernel/console.c`) | `console_table`, `nr_current_console` | `out_char`, `scroll_screen`, `select_console`, `flush` | the CRT controller | preemption between statements on `cursor`; a cursor that wraps | cursor, screen and text stay in the console's memory or within a line of it; the controller has the cursor and start of the console selected |
| Process table set-up (`kernel/main.c`) | `proc_table` | `kernel_main` | all | order of the initialisations | every field starts as the kernel expects |
| Protection (`kernel/protect.c`, `start.c`) | GDT, IDT, LDTs | table set-up, `va2la` | | | straight-line code, run once |
| Boot and loader (`boot/`) | FAT12 buffers, `wSectorNo`, `bx` | find and read LOADER and KERNEL | the BIOS | following a chain of 12-bit entries that lie across sectors | the file started is the file asked for, whole and in order |
| Library (`lib/`) | none | formatting, strings, port I/O | | | conversions print the number |

How they interact: a user process calls `send_recv`; the kernel call (`_syscall`, with
interrupts on again) runs `msg_send` or `msg_receive`; a process that must wait is
marked in `p_flags` and `block()` calls `schedule()`. The clock's handler counts
`ticks` down and calls `schedule()` when the quantum is used up and it did not
interrupt the kernel. The disk's handler calls `inform_int`, which is a message from
INTERRUPT to HD. The keyboard's handler shares a ring with TTY, which polls it. TTY
echoes on a console on which every process prints by a kernel call. The boot sector
starts the loader, that one the kernel, and FS, once it runs, has HD open the root
device and formats it.

## 2. The modules

### Ipc, Rendezvous, IpcRefinement

The variables of `Ipc` are the fields of `struct process` that message passing uses,
plus `buf` (the message in the caller's memory), `both` (a process that is between
the two calls of a BOTH) and `kernel` (whether `panic` or an assertion has stopped the
machine). `Send`, `SendBoth`, `Receive`, `ReceiveBoth` are the four ways `send_recv`
enters the kernel; `InformInt` is the call made from an interrupt handler. The
assertions on the process table and the queues, `deadlock()`'s own (`proc.c:428`)
included, are explicit tests whose failure sets `kernel`. Those on `k_reenter` and on
the arguments (`proc.c:63`, `:64`, `:69`, `:138`, and again at `:254`, `:262`, `:313`,
`:320`) are not: the processes of the model call with legal arguments from their own
code, as those of the repository do. The queue keeps the shape of the code's list; a
walk along it is the least set closed under `next_sending`, so the module has no
recursion and can be proved about.

A kernel call is one step of `Ipc`. The code does not guarantee that, because
`_syscall` executes `sti` (`kernel/kernel.asm:245`). No other process runs inside a
call, so the only code that can come in between is an interrupt handler that calls
`inform_int`, which is `hd_handler`. `Hd` therefore splits the call that HD itself
makes, and its invariant `MainLoopQuiet` says that no disk interrupt is outstanding
while HD is in its main loop, the one place where another process's `msg_send` works
on HD's fields.

`Rendezvous` promises the same without flags, pointers or lists: a line of waiting
senders for each process, whom each process waits for, pending interrupts, messages.
`IpcRefinement` maps the one onto the other and states `ImplementsRendezvous`.

### Schedule

`Compare`, `Choose` and `Recharge` are the statements of `schedule()`'s loops;
`ClockInUser` and `ClockInKernel` are `clock_handler` with `k_reenter` equal to 0 and
not; `Irq` and `IrqInKernel` are any other handler, which may wake a process of
`IrqProc`; `Call`, `CallReturns`, `CallBlocks` are a kernel call. Why a process blocks
is `Ipc`'s affair, so here a call blocks or does not. The clock does not nest in its
own handler, which the interrupt mask ensures (`kernel.asm:151-153`), so it does not
interrupt the `schedule()` it calls itself; it does interrupt the one called by
`block()`.

### Hd

`pc` is HD's place in its code. `Check`, `SetFlag`, `SetFrom`, `Block` are the parts of
`msg_receive` that an interrupt can come between (`proc.c:314`, `:400`, `:402`,
`:403-408`), `HdHandler` is `hd_handler` with `inform_int`. `Dispatch` is the loop of
`sys_hd`; `CmdOut`, `WaitforFails`, `PortRead`, `AwaitDrq`, `Finished`, `Reply` are the
requests, down to the commands and interrupts of `partition()`. `DiskStep` and the
definitions marked external in `PROJECT.json` are the disk: it takes a command when not
busy, delivers sectors with an interrupt each or fails with one, and asks for the data
of a write without one for the first sector. Sectors are counted; `hd_buf` only records
whether what was read was a sector the disk had ready. The disk here has a partition:
the assertion that fails without one (`hd.c:214`) is in `Partition`.

### Keyboard

`kbd` is the ring with the pointers as indices. `SendByte` and `SendAck` are a byte from
the keyboard with `keyboard_handler` taking it; they come between any two steps of TTY
while `int_enabled` holds. `InitKeyboard`, `SetLeds`, `TtyDoRead`, `GetByte`,
`TakenByte`, `Decode`, `TtyDoWrite` are TTY's loop, split where it touches the ring or
waits; what only TTY touches is one step. The keymap is translated as a whole; a
character is named by its place in it, since no property tells two characters apart by
anything else. The user has the keys of one of `KeySets` before him (`keys`, chosen at
the start). `Press` and `Release` are the user: when a key is struck, `owed` records
what it should do and on which console, from the keys held down and the keys struck
before. `Effect` compares that with what the code does.

Left out: keyboards that wrap arrow keys in fake shifts (see the hazard at
`keyboard.c:102`), PrintScreen with a modifier held, `kbd_wait` (it waits for the
controller, not for the keyboard), and the flags that only mark the key code.

### Console

The cells of the video memory are numbered as `cursor` and `current_start_addr` number
them. TTY's `out_char`, `scroll_screen` and `flush` are split at each access to the
console: the pointer `p_vmem` is computed (`OutChar`), the cursor tested (`Switch`),
read again (`LoadCursor`) and stored (`StoreCursor`), and likewise the start of the
screen and the registers of the CRT controller. Between any two of these the clock may
take the processor from TTY and another process may print. Kernel calls are not
preempted, so `PrintX` is a character of `syscall_printx` from the test to the flush;
the characters are those `out_char` tells apart, a newline, a backspace and any other,
and both writers write all three. A cell is told by its place, and `cell` is the one the
last step wrote. The cursor is a u32 of `Word` values: only a backspace can wrap it, and
`Cell` is where the address computed from it then points. The loop that scrolls is
`StopsAfter`, and the machine is `hung` if it cannot end. All processes print on console
0 (`nr_tty`, `main.c`), which is the console with two writers while it is current.
`crt` holds the last arguments of `set_cursor` and `set_video_start_addr`. `overtaken` is
a history variable, which no guard reads: a process printed on the console shown while
TTY was inside its flush, so that the flush put back what the process had changed.
The panic path of `syscall_printx` writes outside the video memory and halts the
machine: it is left out.

### Interrupt, Processors, InterruptRefinement

`Save`, `Return` (with `restart` and `restart_reenter`), `HwInt`, `HwIntReturn`,
`Syscall` and `SyscallAnswer` are the assembler's paths; what runs with interrupts off
is one step. An entry of `kstack` is what `save` leaves on the kernel's stack: the
address it returns to, its `esi`, and the registers if they were saved there and not in
the process table. Registers are told by whose code they belong to, how far it has
come (`eax`), and what a `disable_irq` or `enable_irq` holds of a mask (`al`,
`midway`). `Raise` is a device; `FirstDeliverable` the priorities of the two 8259A.
`Handler` and `SyscallBody` may make another process ready, as `schedule()` does.
`Programs` are the drivers' set-up: `init_keyboard` by TTY, `init_hd` by HD
(`keyboard.c:48`, `hd.c:88`).

`Processors` promises that each process and each activation of a handler or a kernel
call has a processor of its own: its registers change by its own steps only, or by the
answer to its kernel call; activations end in the order of a stack; the process that
runs is changed when the last of them ends. `InterruptRefinement` finds a process's
registers in the processor or in the process table, and an activation's in the
processor or in the entry above it.

### Fat12, Partition, Mkfs, Startup

`Fat12` is the common code of the boot sector and the loader. The allocation table is
read in digits of four bits so that the arithmetic of `GetFATEntry` and `ReadSector`
is the code's; a directory entry is a name and a first cluster; `bx` counts sectors and
wraps around at `Window`. `Partition` is the part of the driver that finds volumes:
`partition()`'s two levels as one loop over the table of the disk and one over a
chain, both through `hd_buf`; `Geometry` and `SectorOf` are the two places that look a
volume up. `Mkfs` is `mkfs()`, a step for each cluster it writes. `Startup` composes
them: the boot sector runs `Fat12` for LOADER.BIN, the loader for KERNEL.BIN, and in
the kernel FS has the root device opened, asks for its size and formats it. Commands,
interrupts and errors of the disk are `Hd`'s; a read of the floppy that fails is
repeated by the code until it succeeds (`boot.asm:123-127`), so here it succeeds.

## 3. The runs

| Run | Instance | Shows |
|---|---|---|
| `ipc` | four processes, one with an interrupt; one message body; symmetry on the three others | the six properties of message passing below |
| `ipc_pending_int` | the same | finding 1 |
| `schedule` | three processes: one that never blocks, one woken by an interrupt, one of lower priority; two nested ticks | the scheduler's properties |
| `hd` | requests of at most 3 sectors, 3 partition tables, 2 opens | the driver's properties |
| `hd_assertions`, `hd_write` | the same | findings 2 and 3 |
| `keys` | three keyboards: a letter, two Shifts and Alt, two function keys, Up; a letter, Caps Lock, Pause; Num Lock, a pad key, PrintScreen. 4 events, a ring of 3, two consoles | effects in order, at the right console, and in the end; the ring; codes longer than the ring |
| `keys_init` | the first keyboard, 2 events | finding 4 |
| `console` | two consoles of 5 cells in lines of 2, of which 4 are shown; a u32 of 32 values | the console's properties |
| `interrupt` | clock, keyboard, and the disk behind the slave; TTY and HD setting up | the entry code's properties, and the refinement |
| `startup` | 4-byte sectors, files of up to 4 clusters in any order; 2 slots, chains of up to 4 tables in any order; root volumes of 7, 8, 17 and 26 sectors | files, volumes and areas are right, and it ends |
| `root_device` | the same | finding 5 |

What the properties say:

- `NoAssertFails`, `QueueIsSenders`, `NoMissedRendezvous`, `NoSendCycle`,
  `ImplementsRendezvous`: no assertion of the kernel's message passing fails (but the
  one of finding 1), the list of `d` is exactly the set of processes blocked sending to
  `d`, nobody waits who could be served, blocked senders never form a circle, and
  every step is a step of `Rendezvous` (first come, first served; each message once
  and unchanged).
- `RunsRunnable`, `GreatestChosen`, `RoundsAreFair`, `NoStarvation`: what `schedule()`
  resumes is runnable and has the most ticks up to the ticks that nested in the scan;
  quanta are renewed only when every runnable process has used up its own; every
  runnable process gets the processor. In the second and third a process that an
  interrupt can wake is left out, since the wake-up may come behind the scan.
- `FreshData`, `MainLoopQuiet`, `AsleepForAReason`, `Answered`: HD never reads the
  data register for a sector that is not there, unless the disk failed (the code stores
  `hd_status` and never looks at it); the main loop never receives an interrupt (it
  would spin); HD never sleeps with no interrupt to come; an open or a read is answered.
- `RingSound`, `KeysFollow`, `SpinsOnlyAfterLoss`, `KeysArrive`: the ring's head, tail
  and count agree; each key has the effect it had when it was struck; TTY waits for the
  rest of a code in vain only if a byte was dropped; every effect comes, unless a byte
  was lost or TTY hangs in `kbd_ack`.
- `PlacesInMemory`, `TextInMemory`, `OneWriterInside`, `ShowsCurrent`, `EchoEnds`: with
  a second writer between any two accesses, the cursor and the screen leave their
  console's memory by at most the lines that begin in it, but for one way, in which the
  cursor wraps and TTY stays in the loop of `out_char`; a character lands in those lines,
  and an erased cell there or just before them (below); with one writer all that is
  written is in the memory, and the cursor strictly inside, where the loop can scroll it
  into view; when TTY is between its flushes the controller has exactly the cursor and
  the start of the current console, or some place of it if a process printed on it inside
  the last flush; and each echo ends unless that loop is stuck for good.
- `DepthCounted`, `NestsOnce`, `MasksAgree`, `ImplementsProcessors`, `Taken`:
  `k_reenter` counts the entries on the kernel's stack and the first alone returns by
  `restart`; nothing nests in itself; once a line is set up it is masked exactly while
  its handler is on the stack; every step is one of `Processors`; the last line in
  priority is served.
- `FilesLoaded`, `RootFound`, `AreasApart`, `Ends`: what is started is the file asked
  for, each sector in its place if it fits before `bx` wraps; each device is the volume
  the disk has in that place; super block, map and file table do not overlap, given a
  cluster of map; and all the loops end.

Why the bounds are enough. With four processes a queue holds three senders, so one can
leave from the head, the middle and the end; a circle can have three members; and a
driver with an interrupt can stand in any role. One message body is enough because
message passing looks at none; the source tells messages apart. Three processes give
the scheduler one that never blocks, one woken out of turn and one of another priority;
its scan treats entries alike, and the safety properties are proved for any number.
Three sectors and three tables are a first, a middle and a last round of each loop of
the driver. A ring of three is full and wraps around within the six bytes of Pause;
four events are a modifier, a key, the release and another key, or a console switch
and a key on the new console; the three keyboards are
checked apart, since four events mix few keys anyway.
A console of two and a half lines has, like the real one of 68 and a bit, a last line
that is cut off, a line above the screen to scroll to, and room for the screen to begin
at a line that shows some of the next console; all the ways out that the console's
properties name are reached. Three interrupt lines are one that nests in
another and a third that comes from the slave; two processes are one that is switched
to while the other is in a kernel call. A sector of four bytes holds 2 2/3 entries of
the table, so entries lie across sectors on whole and on half bytes; a window of 3
wraps for files of 4; a chain of 4 is one volume more than `NrSub` keeps; the sizes of
the root give 0, 1, 2 and 3 clusters of map. `MaxNested` and `MaxOverrun` bound the
ticks that nest in one visit to the kernel and how far `ticks` is told apart below zero;
`MaxEvents` and `MaxOpen` bound the environment.

Deadlock is not checked where the system may really stop: after `panic` or a failed
assertion, when all of the processes of `Ipc` wait for one another's messages (a
receiver waits for ever if nobody sends, which is the processes' affair), when HD waits
for requests that do not come, when nothing more is typed, when `syscall_printx` hangs, and
when start-up is over. It is checked for `Schedule` and `Interrupt`, which cannot stop.

Fairness. `Schedule` assumes weak fairness of the kernel's own steps (the code runs to
its return) and strong fairness of `ClockInUser`: the clock ticks on, and of infinitely
many moments in user code some tick hits one. Without the latter a process that
calls the kernel at exactly every tick keeps the processor, and the code does nothing
against that. `Hd` assumes weak fairness of HD's own steps (`NoStarvation` is the
reason), of the handler (the controller keeps a request until interrupts are on) and of
the disk (a command ends, in data or an error); none of the client. `Keyboard` assumes
weak fairness of TTY's loop and of the keyboard sending what an event or a command
called for, and none of the user. `Console` assumes weak fairness of TTY's steps
inside an echo or a scroll (`NoStarvation` again), and none of those who print.
`Interrupt` assumes weak fairness of the code that runs in the kernel or with interrupts
off, and strong fairness of each line's delivery, since interrupts are off again and
again: a controller keeps a request until it is taken. `Startup` assumes that the one
program that runs goes on: the BIOS and the disk answer.

## 4. Findings

1. `proc.c:408` asserts that a process that has blocked in RECEIVE has no interrupt
   pending. A RECEIVE from one process does not take a pending interrupt
   (`proc.c:314`), so the assertion fails, for example in the `get_ticks` that `waitfor`
   calls. Run `ipc_pending_int`.
2. The assertions behind `block()` (`proc.c:241`, `:404`, `:408`) fail when the disk's
   interrupt lands between the statements of HD's own RECEIVE. Run `hd_assertions`.
3. `fs.h:110-114` documents `WRITE_SECT` as writing a sector; the write branch of
   `hd_rdwt` (`hd.c:323-330`) answers without writing the data register. Run `hd_write`.
4. `keyboard.h:120` documents `count` as the number of bytes in the buffer. TTY runs
   `init_keyboard` with the keyboard's interrupt on; a byte between its assignments
   leaves the count one too high for good. Run `keys_init`.

5. `hd_rdwt` takes the base of a logical volume from `primary[logidx]` (`hd.c:302`),
   past the end of that array, where `hd_ioctl` takes its size from `logical`
   (`hd.c:344`); `hd.h:85-86` says which is which. The root device is logical, so `mkfs`
   writes at the beginning of the disk. Run `root_device`.

Met while reading or modelling, with no run, since no doc or assertion of the repository
says otherwise (the hazards in `PROJECT.json` have most of them with their lines):

- `kbd_ack` can wait for ever; keyboards with fake shifts are misread.
- The loop that clears the map (`fs/main.c:103`) ends two clusters early; for a volume
  under 32768 clusters there is no cluster of map and the file table is written over
  it; a logical volume that does not exist has size 0 and is formatted all the same;
  `Cluster_map` is as large as the stack of FS.
- On console 0 TTY and a process that prints overtake each other. A newline that TTY has
  tested and a process then overtakes can put the cursor behind the console's memory,
  where `out_char`'s loop never ends (`console.c:51`). A backspace of TTY, tested and
  then overtaken by printed ones that bring the cursor to 0, takes it to 2^32 - 1
  (`console.c:32-34`), with the same end, and the machine hangs with the next character
  printed. Printed backspaces let TTY store a character up to a line behind the memory,
  since `p_vmem` is older than the test (`console.c:19`, `:42-44`); a backspace of TTY
  may erase the cell before it. A process that prints inside TTY's flush leaves an older
  cursor or start in the controller until the next flush (`console.c:134-135`).
- The panic screen starts at `VMEM_SIZE` instead of `VMEM_BASE` (`tty.c:117`).
- The boot sector reads the directory to segment 0 (`boot.asm:34`); a KERNEL.BIN of more
  than 128 sectors is read over its own beginning (`loader.asm:125`).

## 5. The proofs

All are safety, for every value of the constants allowed by the named assumptions.

`IpcProofs`, from `IpcAssumption` (the special values are distinct from processes and
from each other): `TypeCorrect`, `NoAssertionFails`, `QueuesSound`, `NoneMissed`,
`NoCircle`. The properties are not inductive, and the inductive invariant `IInv` adds
what the code relies on without saying: the fields of a process agree with its flags
(`FieldsAgree`); a process between the two calls of a BOTH does not wait for itself
(`BothInv`); and for the lists (`LinksInv`), that a head and a next link lead to senders
to the same process (`HeadSends`, `NextSends`), that no two links lead to one process
(`LinksApart`), that every sender is led to (`SendersLinked`), and that no set of
processes is a circle of links, followed either way (`LinksEnd`, `LinksBegin`). Only
with these do the least sets of the walks come out as the set of senders: that set is
closed under the links, and a smaller closed set would leave out senders of which one
has no predecessor among them (`LinksBegin`), although it is led to. `NoCircle` is
carried by the test of `deadlock()`: a circle closed by a new sender would pass through
it, and the chain from its destination would have reached it. The proof has one lemma
per action.

`ScheduleProofs`, from `ScheduleAssumption` (at least one process, positive
priorities): `TypeCorrect`, `RunnableResumed`, `MostTicksChosen`, `FairRounds`. The
invariant adds what the first loop knows half-way: a process passed over has no more
ticks than the greatest so far, or has none left (`PassedOver`); once there is a
greatest, it is that of `p_proc_ready`, which is runnable, but for the ticks that have
nested (`ChosenIsReady`); and between the comparison and the second read of `p->ticks`
the process is runnable and still beats the greatest, or would but for the nested ticks
(`AboutToChoose`).

`IpcRefinementProofs`, from `IpcAssumption` again: `RendezvousImplemented`. The mapping
reads the line of a process off its links, as the sequence along them. With `IInv` each
list is such a sequence (`Lined`), and only one sequence fits (`ListsUnique`), so what a
call does to the links is what `Rendezvous` does to the line: a sender that is appended
to the last link, one that is taken out of the middle (`RemoveAt`), a line that is left
alone. That a list of any length is a sequence calls for an induction; in place of the
library's induction theorem, which takes an operator, the proof takes the least number
with a property, which `WFMin` gives for a set. Each kernel call is then one step of
`Rendezvous`, or of its stopped machine where an assertion fails.

`KeyboardProofs`: `TypeCorrect`, `BufferSound`, `KeysHaveTheirEffect`, `CodesEnd`, from
`KeyboardAssumption` and `KeySetsAssumption`. The latter says which keys there are:
those of a row 0 to 0x7F, with or without the prefix, PrintScreen and Pause, but for
keys whose code begins like one of the long ones, among them the fake shifts, which the
code misreads (`keyboard.c:102`).

- `RingInv` says for each place of TTY's code what lies between `p_tail` and `p_head`:
  nothing before the ring is set up, one byte less than `count` while
  `get_byte_from_kbdbuf` has interrupts off, and `count` bytes anywhere else.
- `TypeInv` is what the other variables may be.
- `FlightInv` holds as long as no byte is lost. The bytes TTY has taken, those in the
  ring and those the keyboard is yet to send are one sequence (`Flying`, `Byte`), which
  every step leaves as it is (`Keeps`), appends a code to (`Adds`) or cuts a code off
  (`Drops`). It is a sequence of codes (`Leg`); each leads from one state (modifiers,
  locks, console, effects so far) to the next, beginning with the decoder's (`Now`) and
  ending with the one the user means (`Then`); and where a code has an effect, it is the
  one in its place in `owed`. So a key is owed the effect that the keys before it call
  for, and the decoder, which sees the same codes, produces it, however many keys are in
  flight. `Quiet` says that the sequence is not empty while TTY reads.

The proof is the keymap, case by case (`KeyIs`, `ModifierKey`, `HeldIs`), the shape of
the codes (`NeedsByteIffShort`: `keyboard_read` asks for one more byte exactly while the
code it is in has one), and one lemma for each step. An ACK is a byte nobody has struck;
it is decoded as the release of a key no row has (`AckCode`).

`InterruptProofs`, from `InterruptAssumption` and `ProgramsAssumption` (a driver that
disables a line enables it later, and each line not open at the start is in some
driver's program): `TypeCorrect`, `DepthIsCounted`, `NoSelfNesting`, `NoLostMask`, and
`GivesProcessors`, the refinement. The inductive invariant `IInv` says besides
`DepthCounted`, `NestsOnce` and `MasksAgree`: a process that is switched out is not
midway through a change of a mask, and has its registers at home in the process table
(`Home`, `Midway`), because that change runs with interrupts off; every handler on the
stack has its line masked, whether or not its driver is set up (`Nested`), which is what
keeps a line from nesting in itself, since a mask can only be taken away by the handler
or by the driver's `enable_irq`, and no process runs while the stack is not empty;
what is left of a program still enables what it has disabled (`EnabledAgain`). The
depth of the stack then follows by counting activations (at most one for each line and
one kernel call). For the refinement each action of `Interrupt` maps to one of
`Processors` or, for a device's request, to a stutter.

`StartupProofs`: `TypeCorrect`, `FilesAreLoaded`, `RootIsFound`, `AreasNeverOverlap`,
from the assumptions of `Fat12`, `Partition` and `Mkfs` on their sizes and from
`StartupAssumption`: the floppies and disks are well formed (`FloppyOK`: clusters of
files are apart and their entries are inside the table; `DiskOK`, `SlotOK`: an empty slot
is zero, the tables of all chains lie apart), and a drive has more than one slot. The
invariant has a part for each program.

- `FatInv`: what has been searched does not hold the file; so many clusters of the file
  are in memory, in order, and the next is in hand. `TwoSectorsAre` and its neighbours
  are the arithmetic: an entry of three digits is read right wherever it lies, over the
  end of a sector too.
- `PartitionInv`: the volumes that have been passed are the disk's and all others are
  empty (`Found`), and the table to read next is the next of the chain (`Chain`), though
  one buffer holds all tables in turn. `PlacesApart` says that no two volumes share a
  place in `logical`.
- `MkfsInv`: for each place of `mkfs` which areas are written and in which interval each
  lies (`Super`, `Owned`, `Layout`), for a volume and a cluster of any size.

`HdProofs`, from `HdAssumption`: `TypeCorrect`, `SectorsAreFresh`, `NoInterruptLeft`,
`SleepsForAReason`. The invariant pairs the place of HD with the state of the disk
(`Paired`): outside `interrupt_wait` no interrupt is outstanding and the disk is not busy
(but for a write); inside it the disk is busy with what is left of the request, or has
delivered it with one interrupt, which is requested, pending or just consumed, or has
failed, or still wants the data of a write and sends none. `Flags` says what HD's fields
in the process table are between the statements of its RECEIVE, `OneRequest` that the
client has one request in the queue or in HD's hands, `Working` that a command is given
only with something left to do. Of the disk it is used that a command causes one
interrupt for each sector read, and one if it fails.

`ConsoleProofs`, from `ConsoleAssumption`: `TypeCorrect`, `StaysInMemory`, `TextStays`,
`OneWriterStays`, `CurrentShown`. The assumption has a u32 hold every place with room to
spare (`Words`), which 2^32 does many times over. The invariant says what is left of a
test when the other writer has been at work. A printed character moves a cursor that is
in its place to another such place, and one that is inside its memory to one inside
(`Prints`), so after TTY's test a character or a newline still finds the cursor inside;
but a backspace may find it on the first cell, and then wraps it (`InOut`, `Backward`).
From there TTY is in its loop (`Places`, `Wrapped`), which it does not leave because a
wrapped cursor is below every screen (`WrappedBelow`), and a process that prints does not
return. The screen is moved down by a print, by whole lines, and less than a line past
the end (`Rounds`, `InScreen`). What TTY carries through its flush is the console's own
unless it was overtaken (`InFlushing`, `Shown`). The rest is arithmetic on lines
(`Sizes`, `LineEnds`, `Forward`).

Every invariant and every action property of the passing runs, and both refinements,
are so proved. The inductive invariants were first checked by TLC on the instances of the
runs: that of `Keyboard` with the cut into codes computed, on 1 728 744 states.

Only model-checked: liveness (`NoStarvation`, `Answered`, `KeysArrive`, `EchoEnds`,
`Taken`, `Ends`) under fairness, which the prover does not handle. The findings are
counterexamples and have no proof.

## 6. The plan

In order of importance, with what is done:

1. `Ipc` with `Rendezvous`: done; safety and the refinement proved.
2. `Schedule`: done; its safety proved.
3. `Hd`: done as far as commands and interrupts go; its safety proved.
4. `Keyboard`: done; its safety proved, the effects of keys included.
5. `Console`: done; its safety proved for any size.
6. `Interrupt` with `Processors`: done; safety and the refinement proved.
7. `Mkfs` and `Partition`, with `Fat12` and `Startup`: done; files, volumes and the
   layout proved.
8. `System`: FS, HD, SYS and a user process composed over `Rendezvous`: requests are
   answered through two servers, and `milli_delay` ends.

## 7. Not modelled

- SYS (`kernel/sys.c`) and `get_ticks`: a server without state of its own; each of its
  steps is a call of `Ipc`. The delays (`clock.c:40`) compute on the tick count in an
  int, which overflows after 2147483 ticks.
- Descriptor tables, selectors, mode switching, the 8259A's initialisation: straight-line
  set-up whose meaning is the processor's. Exceptions print and halt.
- The loader's memory report, page tables and copying of ELF segments: between the BIOS
  and addresses, of which the models have none.
- The library: port I/O, string copies and formatting, sequential and without state.
- The bytes of a sector in transfer (`Hd` counts sectors); stacks and their sizes; what
  `dump_proc` and `dump_msg` print.
