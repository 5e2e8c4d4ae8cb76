# Ziemniak: a TLA+ model

Ziemniak is a small x86-64 operating system: a CD boot loader in two stages and
a kernel that initialises interrupts, a serial port and its memory manager.
This directory holds TLA+ modules for the parts of it that are hard to get right
and hard to test, TLC configurations that check them on small instances, and
TLAPS proofs for every value of their parameters.

## The system

| Component | Source | State | Operations |
|---|---|---|---|
| Stage 1 | `bootloader/stage1/stage1.asm` | drive number | copies itself, reads 16 sectors by BIOS, jumps to stage 2 |
| Real-mode stub | `bootloader/stage2/src/stub.asm` | `rm_data` | BIOS probes (EDD, CPUID, VBE, e820, A20), switch to 32 bits; `run`: paging and 64 bits |
| Interrupts of stage 2 | `interrupt.c` | IDT, `*data_ready`, the 8259s | `init_idt`, `irq_low`, `irq_high`, `irq_disk1`, `irq_disk2`, exceptions |
| ATAPI driver | `cdrom.c` | ports, `data_ready`, the drive | `cdrom_init`, `cdrom_read_sector` |
| Directory search | `cdrom.c` | the shared buffer `cdrom_buf` | `cdrom_search`, `search_directory`, `compare_str` |
| Stage 2 main | `stage2.c` | e820 map, header, `load_buf`, `pages`, `stack`, `buf`, page tables, `lm_data` | search, allocate, build tables, load, `run` |
| Video console | `video.c` | cursor | `video_print` and friends |
| Kernel entry | `kernel/src/init/init.asm` | bss, GDT | `_start` |
| Kernel main | `kernel/src/init/kernel.c` | - | calls the initialisations, peeks at the frame buffer |
| Kernel interrupts | `interrupts.c`, `wrapper_*.asm` | IDT, 8259s | `interrupts_init`, 16 IRQ and 32 exception wrappers |
| Memory manager | `mm.c` | e820 map (rewritten), `peek_pde` | `mm_init`, `mm_peek`, `mm_set_cr3` |
| Bitmap allocator | `bitmap.c` | - | four stubs |
| Serial, debug | `serial.c`, `debug.c` | port contexts | `serial_init`, `serial_print`, `debug_*` |

Interaction: stage 1 and the stub put questions to the BIOS, one after the other,
and leave the answers in `rm_data` for stage 2's `main`, whose console draws in the
mode that was set. `main` calls the search, the search calls the driver, and
the driver waits for a byte, `data_ready`, that only the disk interrupt handlers
set. Stage 2's `main` and the kernel meet in memory: one lays out image, tables
and stack and describes them in `lm_data`, the other runs in them and computes
from the same e820 map what is still free. They also hand over live devices:
`run` disables interrupts, and the kernel sets up IDT and controllers again. In
the kernel everything prints through one polled serial port, also the report of
an exception, which may come anywhere.

What is hard here is concurrency with the hardware (the drive, two cascaded
interrupt controllers, a main thread and handlers that share one byte), commands
that fail at different points, a BIOS whose every answer may be missing, a memory
layout on which five pieces of code with two sets of rounding macros must agree,
and a switch of address spaces in the middle of it. `PROJECT.json` lists these hazards
line by line. Nothing is persisted and there is one CPU.

## Modules

    BootProbe  <--extends--  VideoConsole          (real mode, then stage 2)
    IrqLatch  <--implements--  BootInterrupts      (stage 2, then the kernel)
       ^
       | extends
    CdromDriver  --implements-->  SectorRead  <--instantiates--  KernelSearch
    BootMemory  <--extends--  Handover             (stage 2, then the kernel)
    KernelLog     PeekWindow                       (the kernel)

**BootProbe** is the boot in real mode: stage 1's check for EDD and its read of
stage 2, then the stub's `id_drive`, CPU checks, font, search of the VBE modes,
e820 loop and A20. A machine is a record of everything the BIOS may answer, chosen
once (`bios`), so that each question can fail, or be left without an answer, on
its own. The module keeps what the code depends on across its calls: the segment
register the next message is read through (`ds`), and the mode description that a
call which fails leaves unchanged (`info`). `.getMaximum` looks for the end of the mode
list only behind its first word (`stub.asm:207-210`): of an empty list it takes the
0xFFFF for a mode and reads on, through the words of `beyond` (`Words`). When no mode will
do, `screen_mode` is still 0 and the BIOS is asked for mode 0; `zero` is its answer.
`rm_data` is what main is told.

**VideoConsole** extends it by `video.c` in the mode that was set: the cursor, the
wrap that is put off to the next character, the character each cell shows, and the last
byte of video memory that was written (`reach`). The reference lays the text out line by
line (`RowsAbove`, `LineStart`), without a cursor.

**IrqLatch** is what the interrupt side promises to the code of main: latched
requests, handled one at a time as if atomically, setting bits of `data_ready`;
a request that is withdrawn may come as a spurious one, which `irq_disk2`
answers. `Leave` is the end: `run` disables interrupts for good. `Raise`, `Withdraw`,
`Serve` and `ClearReady` are used as building blocks by the driver's module.

**BootInterrupts** is `interrupt.c` in detail, then `run`'s `cli` and mode switch,
then the kernel's `interrupts.c` and `wrapper_pic.asm`: `program` says whose code
runs. It has the order of the initialisations, the gates of all 48 vectors of
both IDTs, the handlers as sequences of their accesses (`Body`), and as
environment two cascaded 8259s in fully nested mode and the CPU's entry and
`iret`. The controllers start at the BIOS's vectors and with latched requests.
`Passed`, `Above` and `Chosen` are the priority resolution, `Spurious` the answer
to a request that fell during the acknowledge cycle. An IDT of the wrong format,
or none, is `NoGate`.

**CdromDriver** is `cdrom_init` and `cdrom_read_sector`, with one action per
access that the drive or a handler can tell apart; runs of writes to registers
nobody reads in between are one action. `Drive...` actions are the drive as this
driver uses it. The constant `Quirk` admits what real drives and boards may do
beyond the plain protocol: a command that fails after its packet
(`checkCondition`), an interrupt to ask for the packet (`intrDrq`), requests that
travel slowly (`slowIrq`). A sector is an opaque value; what `insw` stores when
the drive has no data is `NoSector`. Unless the board is slow, a handler runs
before the driver's next access (`Prompt`), as interrupts are enabled throughout.

**SectorRead** is the atomic read the callers rely on: it ends with the sector in
the buffer or with result 0 and the buffer as it was.

**KernelSearch** is `cdrom_search` with `search_directory` and `compare_str`, and
main's use of what they return, on top of `SectorRead`. A disc is a function from
addresses to sectors, a sector what the code reads in it. The code looks at no
read's result, nor does the model; a read of a sector that is there may be refused, or
fail after its packet and fill the buffer from a port without data (`Garble`, what
`CdromDriver` does with `checkCondition`). That such a port shows neither a descriptor
nor a record of the kernel's is assumed. `failed` is the set of the addresses whose read
went wrong. The reference is stated without the code's buffer and loops: the first address from `PVD_START` on whose sector
looks like a volume descriptor, the records of its root directory's sectors as one
sequence (`RootRecords`), and in it the first with exactly the kernel's name (`Kernels`),
with or without the version `;1`. Longer names that begin so, which `compare_str` takes
for the kernel too, are `LookAlikes`. `LastLba` bounds the otherwise endless search for a
volume descriptor.

**BootMemory** is main's allocation and layout, the clearing loop, the two
last-level page tables, the load loop, the kernel's clearing of its bss through
those tables, and `mm_init`'s rewriting of the map, where `len` becomes `end` in
place. Memory is a function from sectors to what they hold. Sizes and widths are
parameters. `Image` states what the kernel's linker script guarantees of an
image (page-aligned sections, `_sbss` at or after the end of the file, at most
2 MB); the maps are any with entries that do not overlap. Where `pages..buf` lies
above 4 GB the clearing loop's 32-bit index never reaches its end: `ClearForever`.
A sector of the kernel that cannot be read is skipped, as in the code.

**Handover** extends BootMemory by the other eight paging structures, `lm_data`,
the mode switch of `run`, and the kernel's main as far as its peek at the frame
buffer. Each of its actions is one of BootMemory with what happens besides, or
leaves BootMemory's variables alone. `tab` holds the entries; `Frames` is the CPU's
walk from PML4E down, so that what is mapped where follows from the entries alone.
`mm_peek` writes through `peek_entry`, a physical address, as a virtual one:
`PeekFaults` where that is not mapped.

**KernelLog** is kernel `main` with `serial.c` and `debug.c`: each step of
`serial_init` that an NMI or the UART can tell apart, `serial_putc` with its poll,
what `mm_init` and `main` print, and the exceptions: the CPU's frame, the pushes of
`exc_wrap_err` and `exc_wrap_no_err`, `struct dump_data` laid over them and
`debug_crash`. `Vectors` are the exceptions that may come, any of the 32; `WithError` are those
whose wrapper expects an error code, `PushesError` those of which the CPU pushes one.
Registers hold their own names. The UART sends in its own time
(`Shift`), may be absent or dead, loops back slowly, and may receive (`Quirk`);
with `nmi` an NMI comes between any two steps, also in the report of another
exception or after it, where other exceptions need an instruction that can fault.
`build` is both ways to compile (`DEBUG` or not).

**PeekWindow** is `mm_peek`: its refusals, one action per turn of the loop
(`MapBlock`), and as environment the CPU's walk of the directory, which faults on
reserved bits, and its TLB, filled at any time. Physical addresses and sizes are
what callers ask for; pages, blocks and the directory are parameters.

**MC...** modules give the constants of TLC's runs; **...Proofs** hold theorems.
The operators marked *Slip* in the modules are plausible mistakes in the
definition that follows them; each makes a property fail, which shows that the
property depends on that code.

## What the runs check

| Run | Instance | Shows |
|---|---|---|
| `cdrom` | 2 sectors, lines 0 7 14 15, no quirks | calls return, read the sector asked for, leave nothing behind for the next (`QuietBetweenCalls`), and implement `SectorRead` |
| `cdrom_hostile` | the same, every quirk | the wake-up a call waits for is never lost |
| `cdrom_check_condition` | `checkCondition` | **fails**: an error after the packet is returned as a sector read (`cdrom.c:198`) |
| `boot_irq` | lines 0 7 8 14 15 | in both programs and between them no request hits an exception gate or no gate, handlers do not nest, each EOI ends the right service, requests end; stage 2's side implements `IrqLatch` |
| `probe` | 229 machines, 8 characters | real mode comes to main or to a message read from the right segment; main gets the biggest mode of a list that is not empty, and the whole memory map; printing stays in video memory and wraps as documented |
| `probe_slave` | the same | **fails**: the slave flag never reaches `rm_data` (`stub.asm:89`) |
| `memory` | see below | allocation fits, what could be read of the image intact, frames of image, tables and stack apart, free memory free; low memory, image and stack are where the code needs them from the mode switch on; the frame buffer can be peeked at; the boot ends |
| `memory_stack` | the same | **fails**: the top stack page is not where `bootloader/README.md` puts it (`stage2.c:333`) |
| `search` | see below | when reads succeed: the file with exactly the kernel's name is found, unless a look-alike comes first, the header is the kernel's, the search ends; when some fail: what is found is a file of the directory |
| `kernel_log` | a UART of 2 characters, 1 region, vectors 2 14 21, every quirk | the log arrives whole and in order, a crash report is complete and true, no poll waits forever |
| `peek` | 3 blocks of 4 pages of 2 bytes | peeks stay in the directory, and show the memory asked for if it begins in the first pages of a block |
| `peek_anywhere` | the same | **fails**: elsewhere in a block the window faults (`mm.c:183`) |

Bounds. In `boot_irq` the five lines are both controllers' lowest (where
spurious requests appear), one above them on each controller, and a disk
line; more lines add no new relation of priorities. The driver handles one call
at a time and keeps nothing but `data_ready` from one to the next, so two sectors
tell the right one from a wrong one and the unlimited number of calls does the
rest. In `probe` the machines differ from a good one in one probe each; the mode
lists are all those of up to two out of seven modes (too small, best, not settable,
24 bits, not supported, too high, not described) and six of three, lists without a
candidate where the BIOS refuses mode 0, describes it but cannot set it, and sets it,
and empty lists with one to three words behind them; the e820
answers are all of up to two out of eight kinds, with both ways to end. The smallest
screen has two cells in two rows, so that eight characters wrap and begin again
from the top. In `memory` a page has two sectors of two bytes; a free region starts at
each offset of a page, with lengths around the need of the images (just below,
exactly, above), next to a reserved and to another free region, and two
maps have their region beyond the first block (where `peek_entry` cannot be reached)
and across the 32-bit limit. Tables have 16 entries, enough for an image and a
stack to leave entries unmapped and for the links at 0, the middle and the top to differ. Images have one or two pages, with and without
bss, and file sizes that end inside a sector, inside a page and at its end. In
`search` the descriptor comes first or second, a path table follows whose first
byte looks like a descriptor's and which would lead to the second half of the directory,
and the directory has one or two sectors with up to two records, among them one whose
name has the kernel's as a prefix and an empty file without an extent; some discs have a
directory of more sectors than the 16-bit counter holds (here 4), and some end in the
middle of it. The longer name stands before the kernel, behind it and alone. In `kernel_log` two characters distinguish a full UART from one that is
merely not empty; exceptions with and without an error code, and one of which the CPU pushes
one that its wrapper does not expect (21), come at every step, and the NMI. In `peek` the addresses cover every offset in a block and the next
one, with sizes of nothing, one byte, one block, two and a bit, the whole window
and one byte more.

Deadlock is checked in the driver's, the interrupt and the peek runs. The others
turn it off, as these programs stop: in `halted`, at the bound of what is printed,
with the kernel started or faulted, at the allocation, at the bound of the endless
loop, or in the kernel's own endless loops.

Fairness. The CPU executes instructions and takes interrupts (`WF` of the main
code's next step and of each line's handler). The drive answers (`WF` of
`DriveStep`); a drive that never does hangs the boot, as no loop has a timeout. No
fairness is assumed of devices' interrupts, of the callers, or of a choice among
outcomes. `EveryRequestEnds` is conditional on the lines above going quiet:
fixed priorities can starve a line. `ProbeEnds`, `SearchEnds` and `HandoverEnds`
need only that the one thread runs on (the BIOS's calls return; that those of the
driver do is `CallReturns`); `SearchEnds` is about discs with a volume descriptor and
behaviours in which no read ever fails, `HandoverEnds` about maps below 4 GB, as the code's loops
have no other end. `KernelSettles` assumes that the
UART sends what it was given. In `BootInterrupts` stage 2 need not ever call `run`.

## What is proved

All proofs are checked by TLAPS without assumptions other than the named ones
of the constants: `DriveAssumption`, `LineAssumption` (which lines there are, and
that the drive's is one of them), `SizeAssumption`, `InputAssumption` and
`HandoverAssumption` (sizes, and what the linker script and the BIOS guarantee of
images and maps), `SizeAssumption`, `VectorAssumption` and `QuirkAssumption` of the log,
`PageAssumption` and `CallAssumption` of the peek window, `BiosAssumption` and
`FontAssumption` (what a machine's record may hold), `SearchAssumption` (what a sector
holds, and that addresses and sizes are natural numbers). TLC evaluates each of them in
a run.

`CdromDriverProofs`, for every set of lines, sectors and quirks:
- `TypeCorrect`; `WakeupSafe`: `[]NoLostWakeup`. `NoLostWakeup` is not inductive.
  `WakeupInv` adds where the drive can be at each access, and that its line is low
  when the packet is sent and until it has answered: the answer is an edge, which
  the controller latches, and which no read of the status register can undo before
  the wait is over.
- with `Quirk = {}`: `ReadsAreIntact`, `CallsAreSeparate` and
  `DriverImplementsRead`. The invariant `IInv` ties the driver's `pc` to the
  drive's state (`DriveInv`) and to where the drive's one interrupt is, not yet
  raised, pending or in `ready` (`LineInv`). The refinement is proved step by
  step: each action maps to an action of `SectorRead` or to a stutter.

`BootMemoryProofs`, for every memory map, image and page size:
- `TypeCorrect`; `AllocationIsSafe`, from `SuitableFits`: the two pages of slack
  pay for rounding the base up and for one more page;
- `FramesAreApart`: what `PTE_KER` and `PTE_STA` map, each page of the image and of the
  stack to a frame of its own, the image's before the paging structures and the
  stack's behind them. It says nothing of the identity block (`stage2.c:324`), through
  which the kernel can reach its tables below 2 MB, and does (`PeekReachesScreen`). From
  `FramesInv`, which keeps the tables as they were built, with `KernelFrame` and
  `StackFrame`, where the 32-bit truncation is shown not to matter below 4 GB;
- `FreeMemoryIsFree`: `TrimNext` keeps for every entry of the map whether it is as
  the BIOS reported it or trimmed, and `TrimmedIsFree` shows that the entry with
  base `load_buf` is the one allocated from because entries do not overlap;
- `ImageIsWhole`: the sectors of the file that could be read, the bss and the tables; not
  the bytes between the file's end and the bss, nor the place of a sector that was not
  read. From `ImageInv`: the sectors read so far are in place (`Loaded`),
  the table pages hold tables (`TablesBuilt`), and once the kernel has cleared its
  bss, it is zero up to `pages` (`BssIsZero`). `LoadStep` shows that a sector lands in
  its own place and in the image, `ClearBssStep` that the kernel's stores from `_sbss`
  on, through its last-level table, reach those bytes and none of the file's.

`HandoverProofs`, for the same inputs and every size of block and table:
- `HandoverIsBoot`: a behaviour of the hand-over is one of `BootMemory` when its own
  variables are not looked at, so all of the above holds in it. The invariant
  `AllInv` is `LayoutInv`, `FramesInv` and `ImageInv` with `HandInv`: from the mode switch
  on `tab` holds the upper tables, with the peek window's entries once main has
  peeked, and `lm_data` holds what stage 2 laid out;
- `LowMemoryIsMapped`, `KernelIsMapped`, `ScreenIsMapped`. The ten tables lie in ten
  pages (`TablesApart`), so an entry names one table, and the walk is decided by the
  entries: `LinksAreLeads` and `DownLeads` follow them level by level, `BlocksFound` and
  `Walks` say where each walk ends, and `LowPages`, `ImagePages`, `StackPages` and
  `PeekPages` read off the frames of each range of addresses;
- `HandoverCountsDown` and `LostAboveOnly`, from `WayInv` (how far each loop is and where
  the processor is meanwhile): every step makes `BootLeft` smaller, a natural number,
  and the endless clearing loop is entered only with a region above 4 GB. Together
  they are a part of `HandoverEnds`: below 4 GB the boot is not lost and cannot go on for
  ever; that it stops nowhere on the way is left to TLC.

`BootInterruptsProofs`, for every set of lines:
- `TypeCorrect`, `RequestsAreNoExceptions`, `NoNesting`, `ServiceEnds`. They
  need each other: the invariant is `SetupInv`, by which interrupts are on only in
  a `main` whose IDT and vectors are in place and while no handler runs, and
  `ServiceInv`, by which what the running handler has still to do ends what is in
  service. `EnterNext` treats requests and spurious ones alike;
- `InterruptsImplementLatch`: main's view of `data_ready` is the byte with the
  bits the running handler has still to store. `EnterBits` shows that entering a
  handler adds its bit, `HandlerBits` that its own steps add nothing.

`KernelLogProofs`, for every UART, memory map, build and set of quirks:
- `TypeCorrect`, `LogReachesWire`. `EarlyInv` is what `serial_init` relies on at each of
  its steps: nothing was printed before it, so the one character in the UART is
  its test and does not count. After it `LogInv` holds what was printed against the
  wire and the UART;
- `ReportsAreTrue`, for all vectors but 21 and 29 (`AllButTwo`): `PushedIs` and `PushedAt`
  give the stack as the CPU and the wrapper leave it, with and without an error code,
  and `DumpIsTrue` lays `struct dump_data` over it;
- `ReportsAreComplete`: by `ReportInv` the last report is what was written since the
  exception (`done`) and what is still to do (`todo`); an exception in a report starts
  this anew, with all that was written before it set aside.

`PeekWindowProofs`, for every size of page, block and directory:
- `TypeCorrect`; `AlignedPeeks`, from `PeekInv`: the entries show the blocks mapped so
  far, and the TLB has nothing else for them. `FirstPages` is where the condition on
  the address is needed: in the first two pages of a block, rounding to a page
  leaves the address of the block and at most the PAT bit, no reserved one.

`VideoConsoleProofs`, for every machine, mode list and font:
- `TypeCorrect`, `MessagesAreShown`, `ModeIsRight` (for lists that are not empty), from
  `ProbeInv`: by `SearchInv` the best mode so far is a candidate and none that was
  considered is bigger, and what main is told is the description of the mode that was
  set, or of mode 0 without a candidate; `MessageInv` follows `ds`;
- `ScreenIsSafe`, from `ConsoleInv`: the cursor is in the grid or behind the end of one of
  its lines. `CellInMemory` shows that the last pixel of a cell is on the screen;
- `MapIsRight`, from `MapInv`: the entries in memory are the wanted ones among the answers
  before the next (`Before`), in their order, but for some of those whose length's halves
  cancel. `AnswerFacts` shows that the code's test of
  an entry is the reference's but for lengths that cancel, `AnswerIsListed` that an answer
  kept or dropped extends the list to the next one;
- `ScreenIsRight`, from `ScreenInv`: the cursor is where the reference puts the next
  character (`Cursor`), though it wraps late. `RowsAbove` is a sum over the text and is
  reasoned about by its equation alone: that it exists (`SumsExist`), is a number
  (`SumsAreNat`) and is not changed by what is printed later (`SumsAgree`) follows from a
  least counterexample (`Least`), and `HeightFacts` is the arithmetic of rows that are full;
- `BootCountsDown`: every step makes `StepsLeft` smaller, a natural number that begins
  at no more than ten plus one for each answer and each word taken for a mode; an empty
  list is among them if some word behind it ends the search. That is why
  `ProbeEnds` does not depend on the lengths of the lists; that real mode stops nowhere
  on the way is left to TLC.

`KernelSearchProofs`, for every disc, kernel name and set of reads that fail:
- `TypeCorrect`, `SearchRight`, `HeaderRight` and `ListedFound`, from `SearchInv`. While the
  descriptor is sought no sector before the one just read looks like one, unless its
  read failed (`DescriptorInv`); from then on the search has the first one's directory
  (`RootInv`), and when every read succeeds the sectors it has left behind had no match,
  or first one without an extent (`DirectoryInv`). After a read that failed the buffer holds nothing or an earlier sector, the
  descriptor's or one of the directory, which is what `ListedFound` needs to know;
- `FlattenParts` and `FirstIsFirst` connect this with the reference: the records of
  a sector stand together in `RootRecords`, those of earlier sectors before them,
  so the first match of the first sector with one is the first match of all
  (`PrefixSearch`), which is the kernel if no look-alike comes before it (`KernelIsFirst`);
- `SearchCountsDown`: from the descriptor on every step makes `SearchLeft` smaller, whichever
  reads fail.

Model-checked only: the liveness properties (`CallReturns`, `EveryRequestEnds`,
`ProbeEnds`, `HandoverEnds`, `SearchEnds`, `KernelSettles`). They rest on fairness, that is
on `ENABLED`, which the provers at hand do not handle; what is proved of three of
them is that there are finitely many steps (`...CountsDown`). Every invariant and both
refinements that the runs check are proved. The library's induction theorems cannot be
used with these provers either; where a proof is about sequences of any length it is by
the least counterexample (`Least`, from well-foundedness of the natural numbers).

## Not modelled

- `mm_set_cr3` with `set_cr3` (`asm.h:66`): nothing calls it. The four stubs of the
  bitmap allocator: they keep no state and return 0. Ports other than the first:
  every caller asks for port 0.
- Glyphs, pixels and fonts, and the digits of numbers: no state depends on them.
- Makefiles and linker scripts, except for what they guarantee of an image;
  `_start`'s setup of SSE and of the GDT, which always succeeds and is read by
  nothing in the model; fields of `rm_data` and `lm_data` that are only copied.
- Directory records at byte offsets: a sector is a sequence of records that ends
  inside it, so the run of a full sector into the memory behind the buffer
  (`cdrom.c:114`) is outside the model.

Some properties leave out, by a condition they state, a case in which the code
does not do what they say:

- `InVideoMemory` is about lists with a mode that will do; the console writes four bytes for
  a pixel of the legacy mode, which has three (`stub.asm:215`), and of mode 0, which the
  code asks for when no mode will do and never compares with 32 bits.
- `ModeIsBiggest` leaves out an empty list, whose end mark is taken for the first mode
  (`stub.asm:174-210`) so that any mode may be set that the words behind it name. Where
  no mode of the list will do it allows mode 0, which is not "biggest supported"
  (`stub.asm:160`): the "test for support or fail" behind that (`stub.asm:221`) is the BIOS's alone.
- `MessageIsShown` is about stage 2's messages; stage 1 reads its message about EDD
  through the `ds` of the copy it makes of itself (`stage1.asm:88`).
- `MapIsBios` leaves out lengths whose two halves add up to 2^32: main may get them or
  not. The e820 loop drops them as empty regions, though they are "eiter empty or
  invalid" (`stub.asm:304`) by no other measure.
- `FramesApart` is about the last-level tables of the kernel's half; the identity block
  maps the paging structures a second time when they lie below 2 MB.
- `FreeIsFree` ends what was laid out at `buf`, as `mm_init` does. The page at `buf`, which
  `PTE_STA` maps as the top of the stack, counts as free there: `memory_stack`.
- `AllocationFits` is about images and stacks of at most 2 MB (`Image`), what one last-level
  table maps, for which the 32-bit sum of `stage2.c:256-264` does not wrap.
- `PeekReachesScreen` is about frame buffers that begin at a block, as those of PCI devices
  do (for others see `peek_anywhere`), and tables in the first block.
- `ReportIsTrue` leaves out vectors 21 and 29: the CPU pushes an error code, and stage 2's
  gates expect it (`interrupt.c:174,182`), but their wrappers in the kernel do not
  (`wrapper_exc.asm:102,110`), so what the report shows is one word off. Both need features
  (CET, SEV-ES) that nothing turns on.
- `SearchIsRight` is about reads that succeed, after one that failed the kernel may be
  reported as not found, about discs that list no look-alike before the kernel
  (`cdrom.c:115` takes the first name that begins so, though `cdrom.h:58` says "exact
  name"), and about directories of less than 65536 sectors, as
  `dir_sectors` has 16 bits. `FoundIsListed` is about any reads but the descriptor's own,
  and about descriptors that do not themselves hold what looks like the kernel's
  record, as they may still be in the buffer when the directory cannot be read.
- `CrashIsReported` is about a port that `serial_init` has accepted, and not about an NMI
  between `serial.c:98` and `100`, when it is still in loopback mode; a UART that loops
  back more slowly than the driver looks is refused.
- That a handler reads and writes `data_ready` in two accesses is left out of the model, in
  which it sets its bit in one step; what could come between them is another handler, and
  `HandlersDoNotNest` says that none does.
- `HandoverEnds` is about maps below 4 GB, beyond which the clearing loop does not end.
