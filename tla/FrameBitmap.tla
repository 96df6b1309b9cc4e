---------------------------- MODULE FrameBitmap ----------------------------
(***************************************************************************)
(* The physical frame allocator of kernel/arch/amd64/mmu.c: the bitmap     *)
(* `frames', set_frame, get_frame and the part of mmu_init that fills it.  *)
(*                                                                         *)
(* A word of the bitmap stands for Word frames, but the masks are computed *)
(* as (1 << offset) on an int.  On this machine the count is taken modulo  *)
(* 32 and the result is sign-extended, so the frames j and j + 32 of a     *)
(* word share a mask, and the mask of 31 is the bits 31..63, which change  *)
(* together.  A word therefore holds Half = Word / 2 independent cells.    *)
(* Addresses are counted in units, PageUnits of them to a page, so that a  *)
(* memory map entry may begin or end inside a page.                        *)
(***************************************************************************)
EXTENDS Integers, FiniteSets

CONSTANTS
  Words,       \* NUM_OF_FRAMES
  Half,        \* 32: the masks an int shift can produce
  PageUnits,   \* units of address in a page
  AddrMod,     \* 2^32: what a uint32_t keeps of an entry's address
  Entries,     \* the memory map entries the loader may report
  BootFrames,  \* frames the boot page tables name, mapped or as an empty entry
  MaxCount,    \* the longest run a caller asks for
  MaxEntries   \* entries in a memory map (bound)

Word == 2 * Half
Frames == 0..Words * Word - 1
Cells == (0..Words - 1) \X (0..Half - 1)

ASSUME SizesAssumption ==
  /\ Words \in Nat \ {0} /\ Half \in Nat \ {0}
  /\ PageUnits \in Nat \ {0} /\ AddrMod \in Nat \ {0}
  /\ MaxCount \in Nat \ {0} /\ MaxEntries \in Nat
ASSUME EntriesAssumption ==
  Entries \subseteq [addr : Nat, len : Nat, available : BOOLEAN]
\* The tables have empty entries, whose physical address is 0.
ASSUME BootAssumption == BootFrames \subseteq Nat /\ 0 \in BootFrames

VARIABLES
  phase,  \* "mmap" while the memory map is read, "run", "panic" after assert(0)
  taken,  \* the cells of `frames' whose bits are set
  freed,  \* history: the frames the memory map released
  given,  \* history: the frames handed out before the last call
  last,   \* the frames the last call of get_frame handed out
  seen    \* how many entries were read

vars == <<phase, taken, freed, given, last, seen>>

-----------------------------------------------------------------------------
(* set_frame: the cell a frame's mask stands for.                          *)

Cell(f) == <<f \div Word, f % Half>>

\* Mutated: only the first frame of a run is marked.
set_frame_first(S) ==
  taken \cup {Cell(f) : f \in {g \in S \cap Frames : \A h \in S : g <= h}}

set_frame_taken(S) == taken \cup {Cell(f) : f \in S \cap Frames}

set_frame_free(S) == taken \ {Cell(f) : f \in S \cap Frames}

\* The frames the loop over one entry releases.  The cursor is a uint32_t, the
\* end of the entry is not; the loop breaks at the first frame past the bitmap.
EntryFrames(e) ==
  {f \in Frames :
     LET p == (e.addr % AddrMod) \div PageUnits
         off == (e.addr % AddrMod) % PageUnits
     IN f >= p /\ f * PageUnits + off < e.addr + e.len}

-----------------------------------------------------------------------------
(* mmu_init.                                                               *)

\* Mutated: the bitmap starts out empty.
InitCleared ==
  /\ phase = "mmap"
  /\ taken = {}
  /\ freed = {} /\ given = {} /\ last = {} /\ seen = 0

\* memset(frames, 0xFF): every cell is taken.
Init ==
  /\ phase = "mmap"
  /\ taken = Cells
  /\ freed = {} /\ given = {} /\ last = {} /\ seen = 0

\* An entry the loader marks available releases its frames.  The assertion on its
\* reserved field, which the loader leaves zero, is left out: it changes nothing.
ReadEntry ==
  /\ phase = "mmap"
  /\ seen < MaxEntries
  /\ \E e \in Entries :
       LET S == IF e.available THEN EntryFrames(e) ELSE {}
       IN /\ taken' = set_frame_free(S)
          /\ freed' = freed \cup S
  /\ seen' = seen + 1
  /\ UNCHANGED <<phase, given, last>>

\* Mutated: the frames of the boot tables are not marked.
MarkNothing ==
  /\ phase = "mmap"
  /\ phase' = "run"
  /\ UNCHANGED <<taken, freed, given, last, seen>>

\* The walk over the boot page tables, and PML4T itself.
MarkBoot ==
  /\ phase = "mmap"
  /\ taken' = set_frame_taken(BootFrames)
  /\ phase' = "run"
  /\ UNCHANGED <<freed, given, last, seen>>

-----------------------------------------------------------------------------
(* get_frame(true, count); no caller passes false.                         *)

Run(rc, count) == rc..rc + count - 1

FreeRun(rc, count) ==
  /\ Run(rc, count) \subseteq Frames
  /\ \A f \in Run(rc, count) : Cell(f) \notin taken

\* The scan keeps the first run that is long enough.
FirstRun(rc, count) ==
  /\ FreeRun(rc, count)
  /\ \A x \in Frames : FreeRun(x, count) => rc <= x

get_frame(count) ==
  /\ phase = "run"
  /\ \E rc \in Frames :
       /\ FirstRun(rc, count)
       /\ taken' = set_frame_taken(Run(rc, count))
       /\ given' = given \cup last
       /\ last' = Run(rc, count)
  /\ UNCHANGED <<phase, freed, seen>>

\* assert(0): the kernel prints and stops.
GetFramePanic(count) ==
  /\ phase = "run"
  /\ \A rc \in Frames : ~FreeRun(rc, count)
  /\ phase' = "panic"
  /\ UNCHANGED <<taken, freed, given, last, seen>>

Next ==
  \/ ReadEntry
  \/ MarkBoot
  \/ \E count \in 1..MaxCount : get_frame(count) \/ GetFramePanic(count)

Spec == Init /\ [][Next]_vars

-----------------------------------------------------------------------------
(* Properties.                                                             *)

\* The type of every variable.
TypeOK ==
  /\ phase \in {"mmap", "run", "panic"}
  /\ taken \subseteq Cells
  /\ freed \subseteq Frames
  /\ given \subseteq Frames
  /\ last \subseteq Frames
  /\ seen \in 0..MaxEntries

\* get_frame never hands out a frame twice, although two frames share every
\* cell: a frame in use keeps the bits that another frame's test would need.
NoDoubleAllocation == last \cap given = {}

\* No frame of the boot page tables, of the pages they map, or at address 0
\* is ever handed out, so NULL is never a frame's address, and the callers of
\* get_frame need no test for it.
BootFramesKept == (last \cup given) \cap BootFrames = {}

\* Every frame handed out shares its cell with a frame the memory map
\* released: nothing of a word half that was never released is handed out
\* unless its other half was.
OnlyReleasedCells ==
  \A f \in last \cup given : \E g \in freed : Cell(g) = Cell(f)
=============================================================================
