# A TLA+ verification of salsola

salsola is a small amd64 kernel: it boots through Multiboot 2, manages frames,
page tables and a heap, takes keyboard interrupts into a ring buffer, and has
drivers and libraries around that. The repository has no documentation and no
tests beyond its comments and assertions, so the code itself is the reference.
This directory models the parts that carry its logic, checks them with TLC on
small instances and proves the most important results with TLAPS for all.

## Inventory

| Component | State | Operations | What makes it correct |
|---|---|---|---|
| Ring buffer (`ringbuffer.c`) | bytes, `read_ptr`, `write_ptr` | init, write, read, queries, free | it is a bounded FIFO although writer and reader interleave without a lock |
| Physical frames (`mmu.c`: `set_frame`, `get_frame`, `mmu_init`) | a bitmap in which two frames share a cell | reading the memory map, marking boot frames, finding a run | no frame twice, no boot frame, no frame the machine has not |
| Kernel heap (`kmalloc.c`) | a chain of headers in memory that `ksbrk` gives | kmalloc, krealloc, arrays, kfree, merging, growing | blocks disjoint, inside the heap, as large as asked; every call returns |
| Kernel address space (`mmu.c`) | page tables stored in the space they describe, `heap_end` | ksbrk, mapping, unmapping, cloning | no page with two owners, `allocate_pt` does not recurse for ever, no assertion fails |
| Interrupts (`idt.c`, `idt_asm.s`) | controller masks, gates, handlers | idt_init, handler_install, dispatch, eoi | a line that can interrupt is ready, services end, requests are not lost |
| Keyboard (`ps2_keyboard.c`) | modifier flags, `keyboard_buffer` | init, interrupt handler | events are those typed, whole and in order |
| Random numbers (`csprng.c`) | ChaCha20 block, entropy pool | get_random, add_entropy | no block of the stream twice, keys not given away |
| PRNG (`prng.c`, xoshiro) | 256-bit seed | init, fill | words are consumed once |
| SHA1, HMAC (`sha1.c`) | hash, partial block | init, update, final | the digest does not depend on how the input is cut |
| Tasks (`task.c`, `task_switch.s`) | task list, saved registers, page directory, stacks at the same addresses | fork, switch | a task resumes with what it had, and every task runs again |
| AHCI (`ahci.c`) | command slots and tables, port registers | setup, command | tables in use are left alone, a transfer stays in the buffer, success means done, commands return |
| PCI (`pci.c`) | configuration space | searches, BAR sizing, interrupt line | no device missed, registers as before, sizes right |
| Output (`kprintf.c`) | options of a directive, count, buffer | kprintf, ksnprintf | a directive is written with its own options, numbers read back, the count is right |
| Serial port (`serial.c`) | the transmitter's FIFO | init, print | no character is lost when an interrupt prints too |
| Boot, GDT, ports, assert | constants | | |

**How they interact.** The heap grows through `ksbrk`, which searches and maps
pages and takes frames from the bitmap; page tables themselves take pages by the
same search. The ring's memory comes from the heap. The keyboard handler runs
as an interrupt between any two instructions of the kernel thread and is the
ring's writer. The heap and the address space fill new memory with
pseudo-random bytes that come from the CSPRNG's seed. A failed assertion stops
the kernel.

**What is hard.** There is one CPU and no lock: concurrency is interrupts
against the kernel thread (ring buffer, installation of handlers, task switches,
serial output) and devices against both (keyboard, disk ports). Tasks yield; none
is preempted. The memory manager is sequential, but long sequences of calls,
merges and self-reference (a table's page is found by the search that needs the
table) reach states no test visits. Sizes and counters have widths at which
they wrap. Nothing is persisted, so there is no crash recovery.

## Modules

Every module names the source file it models; `PROJECT.json` maps each
definition to its lines. Definitions keep the source's names. Operators whose
comment starts with "Mutated" are deliberately wrong variants of the definition
that follows them; no specification uses them. They show that the property that
is checked would notice that mistake.

* **BoundedFifo** is the abstract specification of the ring buffer: a queue of
  bytes. **RingBuffer** is the code. Writer and reader are two processes, and
  each iteration of a copy loop is three steps: load the other side's pointer
  and fix the length, `memcpy`, store the own pointer. That the pointer is loaded
  once per iteration was read off the `-Os` build. The refinement mapping takes
  the committed bytes between `read_ptr` and `write_ptr` for the queue.
* **FrameBitmap** is the bitmap with its cells: `(1 << offset)` is an `int`
  shifted by up to 63, which the build computes modulo 32, so frames j and j + 32
  of a word share a bit. `get_frame` takes the first run, as an abstract choice;
  **FrameScan** is the loops of the code, frame by frame (`Look` is what they do
  with one frame, `Scan` what they have found at the end), and the run checks that
  both agree in every reachable bitmap.
* **Kmalloc** is the chain of headers. The walk of `find_free_entry` is a step
  machine (advance, merge, give up); a call is a program counter and its
  arguments. Addresses and sizes are in units of one header, and a header's size is
  stored modulo 2^32; contents are left out.
* **Mmu** is the part of the address space the heap lives in: which pages are
  mapped and for what, which page tables exist, `heap_end`. Searches and mappings
  are loops, one step per page. Calls that consist of several (boot,
  `mmu_clone_directory`) are lists of what remains to be done. Frames are left to
  FrameBitmap.
* **Interrupts** has the kernel thread, the two 8259 controllers (external: they
  latch requests of masked lines, nest by priority and end the highest priority
  in service) and the devices. An interrupt arrives between any two steps of the
  thread; `handler_install` is its three effects in order.
* **Keyboard** composes Interrupts (by `INSTANCE`) with the handler and with the
  ring as the queue of BoundedFifo. The handler's body runs with interrupts off
  and is one step with its return; the reading of the port and the end of
  interrupt are steps of their own because the device reacts to them. No code
  reads `keyboard_buffer` yet; the reader is external.
* **Csprng** has the ChaCha20 input block as key, nonce and counter. Keys are
  names, and what the cipher or the hash computes is a new name: the model is
  about which inputs the code uses, and cannot speak about their quality.
* **Tasks** has a stack per directory, all at the same addresses, of which `rsp`
  and `cr3` name the one in use. A fork is three steps (the call, the building
  of the child's frame with `cr3` on the child's directory, the return) and a
  switch two (up to the loading of `rsp`, and from the loading of `cr3` on): an
  interrupt may arrive between them and leaves junk beyond `rsp`. What a task
  computes between its calls is external. `r12` stands for `r12` to `r15`.
  `struck` notes an interrupt in one of the two places where `rsp` and `cr3` are
  different tasks': after a switch loaded `rsp`, and at the end of a fork.
* **Sha1** has bytes that are names: a byte of the message, of the key, of the
  length, of a digest. A hash value is the sequence of blocks that went into it,
  so two digests are equal only if the same blocks were hashed. The reference is
  the padding rule and RFC 2104 as formulas. Sizes are scaled (blocks of six
  bytes, lengths of two).
* **Ahci** has the driver as a program counter, with one step per look at a
  register, and the ports beside it (external): each engine follows its switch, a
  port completes or fails a command that is issued, and halts after a failure. A
  command table is what it transfers where; addresses count sectors, and pages
  that follow each other have frames that do not. PxTFD is read as the
  environment chooses.
* **Pci** has devices at addresses (external, with wired bits in their registers)
  and the two searches as loops, one step per address read. Once a device was found
  its registers are read and set in any order. The widths are
  scaled so that, as in the code, slot numbers have more bits than device numbers
  and the upper ones fall on the bus number.
* **Kprintf** reads a format one character per step; the character and the
  argument of a conversion are chosen by the environment, so that every format up
  to the bound is a behaviour. A field is a sequence of characters. An `int` has
  16 values and a `long long` 32. `p` and `i` are left to `x` and `d`. The size of
  `ksnprintf` becomes an `int`; the proofs are for sizes that an `int` holds. The NUL
  after what is copied is left out. `earlier` notes that an `l` is still in effect.
* **Serial** has two callers of `serial_print_char`: kernel code and an interrupt
  that stops it anywhere and prints a message. The transmitter is external; it
  drops a character that does not fit.
* **DeviceDrivers** (Ahci, Pci, Serial), **Library** (Csprng, Sha1, Kprintf) and
  **Machine** (Interrupts, Keyboard) put components together that are checked
  together. In the first two a behaviour chooses one of three components first and
  the others, with which it shares no state, stay in an initial state; in Machine it
  chooses between devices on any lines and the composed keyboard.

## Runs

The modules of the runs, **MC...**, only give constants their values. Components
that share no state share a run: `devices` is about DeviceDrivers, `library` about
Library, and `interrupts` about Machine, where Interrupts' properties are checked in
both settings.

| Run | Bounds | What it shows |
|---|---|---|
| `ring` | 4 bytes, requests to 3, u32 as 256 | `NoOverlap`, `RoomForCommit`, `UnusedIsHonest`; the code implements the queue (`ImplementsFifo`); every call returns (`CallsReturn`) |
| `frames` | three words of six frames (three cells each), memory maps with holes and entries past 4 GiB | no double allocation, boot frames kept, only released cells, first fit |
| `kmalloc` | three live blocks, two heap regions of four units and more, a heap of 18 units (`MaxHeap`), 2^32 as 100 | disjoint blocks inside the heap of the size asked; the retry after growing succeeds; every call returns |
| `kmalloc_wide` | a request of 2^32 | *violated*: `HeapMapped` |
| `mmu` | tables of 12 pages, five calls after boot, at most P - 1 pages between two extensions | no assertion fails, `Slack`, `RegionsOwned` |
| `mmu_large` | an extension longer than a table | *violated*: `assert(was_free)` |
| `interrupts` | keyboard, a second master line, a slave line, the cascade; and the keyboard with one key, two of four modifiers at once, three keys unread, room for two events and two bytes | `UnmaskedIsReady`, `ServiceEnds`, `RequestsKept`, `KeyTaken`, `TypedIsBuffered` |
| `interrupts_gate` | the same lines | *violated*: an interrupt finds no gate |
| `keyboard_torn` | two keys, one of them past the tables, two unread, room for one event and two bytes | *violated*: the release field of an event read holds something else |
| `tasks` | three tasks, one local word | `Intact`, `ContextKept`; every task runs again (`RunsAgain`) |
| `devices` | AHCI: two ports, two and three slots, three commands of 1, 8 and 9 sectors at two places of a page. PCI: 4 buses of 2 devices, slots of 3 bits, two devices of three kinds. Serial: seven characters, three messages, a FIFO of four | `TransferIsBuffer`, `SlotsApart`, `SuccessIsDone`; `ScanComplete`, `ConfigKept`; `NothingLost`; every loop ends (`DriversReturn`) |
| `library` | CSPRNG: counter of four values, pool size modulo 8, seven key names. SHA1: blocks of 6 bytes, messages to 13, keys to 8. Output: formats of five of 12 characters, buffers of 0 and 2 | `NoRepeat`, `KeysKept`, `EntropyUsed`; `DigestIsHash`, `HmacIsRight`; `OwnOptions`, `NumberReads`, `BufferIsPrefix` |

`TypeOK` is stated in every module and is part of what is proved where there are
proofs. It takes no place in the runs: TLC stops at a value of a wrong type
anyway where an action or a property uses it.

*Why the bounds are enough.* Four bytes let both pointers wrap with one, two and
three bytes in the ring and requests longer than the room. The bitmap has runs
that cross a word and words in which both frames of a cell differ in use. Three
blocks are what it takes to free one between two others and merge on either
side; two regions, adjacent or not, are what it takes to merge across a border.
Twelve pages per table let each call straddle a table. The `mmu` run assumes that
between two extensions callers ask for fewer pages than one table maps
(`Budget`); with `Budget = P` it fails, which is how the bound was found. In the
kernel that is 511 pages. The keyboard's ring keeps the remainder of two bytes
that 383 has modulo 3; what follows an event that did not fit is cut off in
`interrupts` (`CONSTRAINT Untorn`) and explored by `keyboard_torn`. Two whole events
fit, so that their order in the ring is exercised as well as that of a third key in
port or handler; for that, no more than two modifiers are down at once (`FewHeld`),
which still lets both shifts be. `EventsOfMachine` has none of these bounds. In the same
way `tasks` cuts off what follows an interrupt in one of the two windows
(`CONSTRAINT Unharmed`), of which its properties claim nothing. The counter of
the CSPRNG has the shortest length at which rekeying inside a request, inside
`mix_chacha` and between calls all differ. Three tasks are what it takes to fork
from a child and to have two that wait. Blocks of six bytes with a length of two
have every distance of a message's end from the block's end, on both sides of the
boundary where the length no longer fits. Three commands are one that fails, one
after it and one on the other port. With three slot bits for one device bit two
fall on the bus number, as three of eight do in the code; fewer would hide the
device at the highest address, for which one skipped slot is not the only way.
Five characters hold two directives of which the first has an option.

Deadlock is not checked where the system may stop: when a bound on calls is
used up, after a panic, after a reset, or when no device raises anything.

**Fairness.** `ring`: a call that began goes on (weak fairness of the writer's
and of the reader's steps); the interrupt handler runs to completion and an
interrupted reader resumes. Nothing is assumed about how often calls are made.
`kmalloc`: the same for the one call in progress. `interrupts`: the CPU
takes a request that stays, and a handler that runs goes on, in both settings; the kernel thread
and the devices have no fairness. `tasks`: the CPU goes on, and tasks call
`task_legacy_switch` again and again (strong fairness, as forks and computation
come in between): switching is cooperative, so a task that never yields stops
the others, and nothing less will do. `devices`, AHCI: the driver's loops go on, engines
follow their switches and a port that is not halted answers a command; a device
that never answers stops the kernel, because the wait for the command has no
limit. `CommandReturns`, a part of `DriversReturn`, is stated for a port that did
not fail before and a controller with more than one slot. PCI: a search goes on. Serial: the
transmitter sends, the caller whose turn it is goes on, a handler ends.

## Violations

Each of these runs checks a statement of the repository that the code does not
keep; `PROJECT.json` quotes the line.

* `kmalloc_wide`: the size is truncated to 32 bits before the header is added.
* `mmu_large`: `ksbrk` of more than 2 MiB runs into `assert(was_free)`, because the
  table that its search allocates is stored in the first page of the region.
* `interrupts_gate`: `handler_install` unmasks the line before gate and handler
  exist. A key pressed between `idt_init` and `ps2_keyboard_init` is latched and
  resets the machine.
* `keyboard_torn`: the 128th unread event loses its last byte and shifts every
  later one.

Other disagreements between code and comments are stated in the modules as
invariants that TLC refutes when they take the place of the run's. They are not
runs of their own.

* `Preserved` (Tasks): `switch_to_task` does not save `rbp`, which its comment lists.
* `ReceivesFis` (Ahci): after setup FIS receive is off: `4 << 0` where `1 << 4` is
  meant.
* `ErrMeansFull` (Ahci): the number of slots is taken from a field that holds one
  less, so the last slot is never used.
* `BarRight` (Pci): I/O regions are masked like memory regions.
* `InterruptsOn` (Pci): the bit that is set disables interrupts.
* `ReturnsCount` (Pci): the comment promises the number of devices, the code
  returns whether there is one.
* `LevelIsOwn` (Kprintf): `long_level` is set back by `d` and `i` only, so that
  `%llu` followed by `%lu` fails the assertion on it, and `%lu` followed by `%d`
  reads an `int` as a `long long`. The run's formats are too short for the first,
  which takes eight characters; `NumberReads` leaves the second out by name.

An interrupt between the loads of `rsp` and of `cr3` in `switch_to_task` writes its
frame at the new task's depth on the old task's stack, and one at the end of
`weird_switch2`, before `cr3` is put back, over the child's new frame. `Intact` and
`ContextKept` without `~struck` fail for that reason; nothing in the repository says
whether callers turn interrupts off.

## Proofs

All theorems hold for every value of the constants that satisfies the named
assumptions, and are checked to the last leaf. Every safety invariant that a
passing run checks is stated by one of them, and so is the refinement of the queue.

Several properties are about what a recursive function computes (the scan of the
bitmap, the digits of a number, the blocks of a hash). The library's induction
theorems cannot be used for them. Where such a fact is needed, a counterexample is
assumed and the least one taken: the naturals are well founded, the equation of the
function holds below it, and that refutes it.

For a component that DeviceDrivers, Library or Machine instantiates, the argument is
made for the component by itself first, with its assumption as a hypothesis and
without fairness (`SearchesAreComplete`, `DigestsAreHashes`, `EventsAreTyped` and so
on). That a behaviour of the composition about this component is one of the
component's (`ConfigIsPart`, `Sha1IsPart`, `KeyboardIsPart`...) then gives the
theorem about what the run checks (`SearchesOfDrivers`, `DigestsOfLibrary`,
`EventsOfMachine`...), from the assumption of the composition
(`DriversAssumption`, `LibraryAssumption`, `KeyboardsAssumption`).

* **RingBufferProofs.** From `SizeAssumption`, `ModAssumption`, `MaxLenAssumption`
  and `DataAssumption`. The inductive invariant `IInv` says that the length a
  writer fixed still fits (the reader has only made room since), that the length
  a reader fixed is still there (the writer has only added), and that neither
  crosses the end of the allocation: the properties by themselves say nothing of
  the locals between the load and the store. `ContentInv` adds that the bytes of
  a copy in flight are in place. From them `NoOverlapAlways`,
  `RoomForCommitAlways`, `UnusedIsHonestAlways`, and step by step `Refinement`.
* **FrameBitmapProofs.** The invariant relates cells to frames: a cell of a frame
  that was handed out, or of a boot frame, is taken, so that no clear cell hides
  one. From it `NoDoubleAllocationAlways`, `BootFramesKeptAlways`,
  `OnlyReleasedCellsAlways`. `ScanIsFirstRunAlways` needs no more of the bitmap
  than its type. It is about the loops: before frame f they have returned the first
  run, or there is none up to f and the frames counted are all the free ones just
  below f (`LoopInv`, `Searching`), which every frame keeps. That skipping a full
  word skips no free frame is `LookByBit`.
* **LibraryProofs.** Csprng: the invariant `Good` says that every block used with
  the current key and nonce has a smaller counter, and that the counter is below
  its last value between steps. The last value itself is used, once, for the block
  that becomes the key, when `Ahead` is broken for a moment. From it
  `NoRepeatAlways` and `KeysKeptAlways`. `EntropyUsedAlways` rests on `PoolInv`,
  under the assumption that one call adds no more than fits before the wrap.

  Sha1, from `Sha1Assumption`: `Hashing` says that the blocks compressed and the
  bytes buffered are together what was given to `SHA1_Update`, whatever its pieces,
  and `Stages` which of the updates of key, padding and message each context of
  the HMAC has had. From them `DigestsAreHashes` and `HmacsAreRight`. What is
  proved is the order and the padding of the bytes; the compression function is a
  name for its input.

  Kprintf: `BufferIsBeginning` (from `KprintfAssumption`) says that a short buffer
  holds the beginning of what a long one would. `OptionsAreOwn` needs no
  assumption. Its invariant says that the options are cleared between
  directives (`Cleared`) and, within one, are those that the characters read
  so far describe (`Ongoing`), for every way to split them into flags, width and
  precision. `NumbersAreRead` adds what is written: the digits that the
  division loop leaves, last one first, read as the number in their base, turned
  round they are the field, and padding adds nothing to the number. Which number
  that is says the directive's own text (`Meant`); the invariant `LevelOf` relates
  `long_level` to the `l`s of the text and to `earlier`. `LengthIsOwn` names the
  cases that are left out because the code takes another length.

* **KmallocProofs.** From `SizesAssumption` and, as a hypothesis of each theorem,
  `Narrow`: requests and array products stay below 2^32 together with a header,
  and the heap, the gaps between its regions included, spans at most 2^32 bytes:
  `mmu.c` has frames for 4 GiB. With it every size that is stored in the u32 of a
  header is exact (`ModIsExact`).
  The kernel's callers ask for far less; the run `kmalloc_wide` shows that the
  theorems are false without it, and `MCKmalloc.cfg` satisfies it. The properties
  speak of headers and blocks, and neither says why merging is safe: the
  inductive invariant adds the shape of the chain (`Chain`: in address order,
  every entry reaches no further than the next, the last is free and marked), that
  the memory of each entry, and up to the next one of the same region, is the
  heap's (`Backed`), that ksbrk's memory lies below `brk`, where the cursor of
  `find_free_entry` is, which request is under way and which old block
  `krealloc` still holds. `Below` says that the heap lies below 2^32, and
  `LargeEnough` that after `add_heap_memory` the last
  entry has room for the request and a header. From it `BlocksAreDisjoint`,
  `HeapIsMapped`, `OwnershipIsExact`, `RetryFindsEntry`, `ChainIsOrdered`.
* **MmuProofs.** From `SizesAssumption`. `RegionsAreOwned` needs what a call under
  way has found and mapped (`Searching`, `Mapping`), that a page table is added
  together with its page (`Counted`), and that searches only ever give pages that
  are free. It holds whether or not an assertion fails. `AssertionsHold` and
  `SlackIsKept` are under the hypothesis `Budget < P`: callers ask for fewer pages
  between two extensions than one table maps. The runs `mmu` and `mmu_large` stand
  on its two sides. `Slack` by itself does not survive a step, since it speaks of
  `heap_end` between calls. The invariant `Safe` says that the tables are the first
  m, that from `heap_end` on the used pages are those below some f (`Laid`), that
  from f to the end of the last table there is still a whole table's room less what
  was asked for since (`Room`), where a search or a mapping under way stands to f
  (`Place`), and that the windows of `copy_frame` are the last pages below f.
* **InterruptsProofs.** From `LinesAssumption`. `Service` describes the service
  bits at every place of the CPU: those of the interrupts that nobody ended and
  of the one that runs. A non-specific end of interrupt names no line, so the
  proof that it ends the right one (`EndOfHighest`) rests on priorities: what was
  delivered is above everything in service, on both controllers when the line is
  the slave's. From it `ServicesEnd`; `GateFirst` and `ClearIsInstalled`, which
  follow `handler_install` step by step, give `UnmaskedReady`, and
  `RequestsAreKept` is inductive with them. Keyboard, from `KeyboardAssumption`:
  `EventsAreTyped` compares events with the modifiers held when their keys were
  typed, and up to two codes are on their way, one in the data port and one that
  the handler has read. `KeyboardIInv` says that the flags are those of the
  modifiers with these codes undone (`Flags`, `CodesExact`), that the keys on their
  way are the last ones typed (`LastTyped`) and that the others are in the ring,
  three bytes each (`Events`), as long as no event was torn.
* **TasksProofs.** From `TasksAssumption`. The stacks of all tasks lie at the same
  addresses, so the invariant says which directory each word is in: `Directories`
  (each task has its own), `Saved` and `Kept` (what lies there for a waiting task
  is what it left), and `Place`, what holds between the instructions of a fork
  and of a switch, where `rsp` and `cr3` are of different tasks. The theorems are
  about runs in which no interrupt struck there (`struck`), as the properties are.
* **DevicesProofs.** From `AhciAssumption`. `TableIsWanted` and `Outcome` follow one
  command from its slot to its verdict; `SlotsApart` is inductive because a slot
  is chosen among those that are not issued, and one whose command was given up
  still is. `TransfersBuffer` rests on lemmas about the command table: what the
  driver lets through has one PRDT entry, and a buffer that starts a page or lies
  in one is contiguous in its frame.

  Serial: `PrintedGoesOut` holds for every transmitter with room for two characters
  or more (`Depth >= 2`). An interrupt may print between the kernel's look at the
  line status and its write, but the handler waits for an empty transmitter before
  each character, so that the kernel finds at most one there (`RoomToWrite`).

  Pci, from `PciAssumption`: `SearchesAreComplete` rests on `Scanned` (no address
  passed so far matches) and on the arithmetic of addresses, by which every bus and
  device is reached from some bus and slot of the loops. `RegistersAreKept` rests
  on `Registers`: all hold what the firmware left but the one being sized, of which
  the driver has the old value. A module with theorems cannot use Bitwise, so
  `BitOr` is a constant operator of Pci, of which the assumption says what it does
  to bus numbers with 0 and 1; the run gives it the operator of Bitwise.

Only model-checked: liveness (`CallsReturn`, `KeyTaken`, `RunsAgain`,
`DriversReturn`), which is out of the prover's reach, and the properties that the
code does not keep (see Violations).

## Not modelled

Contents of heap blocks; frame numbers and the other PML4 slots in Mmu; the
failure path of `ksbrk`, which returns no NULL at this commit; the debug code of
`kmalloc.c`; two writers, two readers or freeing a ring in use, which nothing in
the code prevents and nothing does; scan code prefixes, which the driver treats
as unknown keys; faults of the memory or of the controllers. The rounds of SHA1
and ChaCha20 and the generators of `prng.c` are bit arithmetic whose results no
property could state but by repeating it. The GDT, single-instruction helpers
and entering long mode have no state worth a model; `log.c` puts a word before
a `kprintf` and otherwise uses headers that are not in the repository.

Known and left out: `capacity` and `unused` of a ring without a buffer;
`active_directory`, which a switch does not follow, and which only matters for the
part of the address space that all directories share; the cascade line, which
stays masked while no driver uses the slave; AHCI requests for no sectors, and
64-bit addresses cut to 32 bits in `ahci_sata_setup`; functions other than the
first of a PCI device; in `kprintf`, zeros padded before a minus sign, the width
that a precision replaces, `x` reading 64 bits for an `int`, `o` without a `long
long`, and the `l` of a conversion other than `d` and `i` that stays in effect for
the next; the assertion on the reserved field of a memory map entry, which the
loader leaves zero; `rbx`, which `weird_switch2` changes for the caller of
`task_fork`.

## Plan

Csprng composed with Sha1's context, to say which bytes of the key the pool's
hash reaches.
