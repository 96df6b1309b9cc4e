-------------------------------- MODULE Mmu --------------------------------
(***************************************************************************)
(* Kernel address space management of kernel/arch/amd64/mmu.c: which pages *)
(* of the heap's part of the address space are mapped, and which of its    *)
(* page tables exist.  A page table is stored in a page of the very space  *)
(* it describes, so looking whether a page is free may take a page: probes *)
(* call allocate_pt, which finds the table's page with probes of its own.  *)
(*                                                                         *)
(* Pages are numbered from the start of the kernel's PML4 slot; a table    *)
(* maps P of them.  The calls are step machines, one step per iteration of *)
(* a loop; a call that consists of several is a list of what remains to    *)
(* do.  The frames come from FrameBitmap, which never gives one twice.     *)
(***************************************************************************)
EXTENDS Integers, Sequences, FiniteSets

CONSTANTS
  P,           \* 512: pages mapped by one page table
  NPT,         \* page tables the model has room for (bound)
  KernelEnd,   \* the first heap_end: the page after the one after the kernel
  BrkSizes,    \* lengths in pages that callers give ksbrk
  MapSizes,    \* lengths in pages that callers give mmu_map_frames
  StackPages,  \* 7: pages mmu_update_stack maps and a clone copies
  Budget,      \* pages asked for since the last ksbrk, its own included
  MaxCalls     \* calls of the kernel (bound)

ASSUME SizesAssumption ==
  /\ P \in Nat \ {0} /\ NPT \in Nat \ {0}
  /\ KernelEnd \in 0..P - 1
  /\ BrkSizes \subseteq Nat \ {0} /\ MapSizes \subseteq Nat \ {0}
  /\ StackPages \in Nat /\ Budget \in Nat /\ MaxCalls \in Nat

Pages == 0..P * NPT - 1
Table(a) == a \div P
Uses == {"none", "boot", "table", "brk", "safe", "window", "copy"}

VARIABLES
  present,   \* the page tables that exist
  use,       \* what each page is mapped for, "none" if its entry is empty
  heap_end,
  regions,   \* what the calls returned and is still mapped
  todo,      \* the calls still to make: [kind, len]
  pc,        \* "idle", "find", "tables", "map" or "panic"
  round,     \* which of ksbrk's two searches runs
  offset, i, \* the loop variables of the search, or of the mapping
  base,      \* the region found
  charge,    \* pages asked for since the last ksbrk, its own included
  calls,     \* calls made
  why        \* the assertion that failed

space == <<present, use, heap_end>>
loop == <<round, offset, i, base>>
vars == <<space, regions, todo, pc, loop, charge, calls, why>>

Call(kind, len) == [kind |-> kind, len |-> len]

-----------------------------------------------------------------------------
(* Page tables.                                                            *)

\* The first page from heap_end on that is free or has no table yet: where a
\* search for one page stops.
ProbeStops(s, a) == Table(a) \notin s.present \/ s.use[a] = "none"

FirstProbe(s) ==
  CHOOSE a \in Pages \cup {P * NPT} :
    /\ a >= heap_end
    /\ a \in Pages => ProbeStops(s, a)
    /\ \A b \in Pages : heap_end <= b /\ b < a => ~ProbeStops(s, b)

\* allocate_pt: the new table is stored in the first free page.  If the search
\* meets a page without a table first, allocate_pt calls itself for that
\* table and searches from the same heap_end again, without end.
allocate_pt(s, k) ==
  IF k \in s.present \/ ~s.ok THEN s
  ELSE LET a == FirstProbe(s)
       IN IF Table(a) \in s.present
          THEN [present |-> s.present \cup {k},
                use |-> [s.use EXCEPT ![a] = "table"], ok |-> TRUE]
          ELSE [s EXCEPT !.ok = FALSE]

Space == [present |-> present, use |-> use, ok |-> TRUE]

Panic(reason) ==
  /\ pc' = "panic"
  /\ why' = reason
  /\ UNCHANGED <<space, regions, todo, loop, charge, calls>>

-----------------------------------------------------------------------------
(* Boot and the calls of the rest of the kernel.                           *)

\* mmu_update_stack: the PDPT and the PDT (two pages each) and the page table
\* of the stack's own PML4 slot; the stack's pages lie outside the heap.
mmu_update_stack == <<Call("safe", 2), Call("safe", 2), Call("safe", 1)>>

\* copy_frame: two windows, closed again.
copy_frame == <<Call("copy", 1), Call("copy", 1), Call("unmap", 2)>>

\* clone_pt of the stack's page table: one frame and one copy for each page.
clone_pt ==
  <<Call("safe", 1)>>
    \o [n \in 1..StackPages * 3 |-> copy_frame[((n - 1) % 3) + 1]]

\* mmu_clone_directory, clone_pdpt, clone_pdt, clone_pt: the stack's slot is
\* the only one below 511 that is present.
mmu_clone_directory ==
  <<Call("brk", 1), Call("safe", 2), Call("safe", 2), Call("safe", 2)>> \o clone_pt

\* boot.s fills all of the first page table but its last entry.  mmu_init ends
\* with ksbrk(0), then kmain moves the stack.
Init ==
  /\ present = {0}
  /\ use = [a \in Pages |-> IF a < P - 1 THEN "boot" ELSE "none"]
  /\ heap_end = KernelEnd
  /\ regions = {}
  /\ todo = <<Call("brk", 0)>> \o mmu_update_stack
  /\ pc = "idle" /\ round = 1 /\ offset = 0 /\ i = 0 /\ base = 0
  /\ charge = 0 /\ calls = 0 /\ why = "none"

Scripts ==
  {<<Call("brk", n)>> : n \in BrkSizes}
    \cup {<<Call("window", n)>> : n \in MapSizes}
    \cup {mmu_clone_directory}

KernelCall ==
  /\ pc = "idle"
  /\ todo = << >>
  /\ calls < MaxCalls /\ calls' = calls + 1
  /\ todo' \in Scripts
  /\ UNCHANGED <<space, regions, pc, loop, charge, why>>

\* A call begins with its search; mmu_find_free_virtual_region starts at
\* heap_end.
Begin ==
  /\ pc = "idle"
  /\ todo # << >>
  /\ LET c == Head(todo)
     IN /\ c.kind # "unmap"
        /\ charge' = IF c.kind = "brk" THEN c.len ELSE charge + c.len
        /\ charge' <= Budget
  /\ pc' = "find"
  /\ round' = 1 /\ offset' = 0 /\ i' = 0
  /\ UNCHANGED <<space, regions, todo, base, calls, why>>

\* Mutated: unmaps one page too many, below the window.
UnmapTooMuch ==
  /\ pc = "idle"
  /\ todo # << >> /\ Head(todo).kind = "unmap"
  /\ use' = [a \in Pages |->
               IF use[a] = "copy" \/ (a + 1 \in Pages /\ use[a + 1] = "copy")
               THEN "none" ELSE use[a]]
  /\ regions' = {r \in regions : r.kind # "copy"}
  /\ charge' = charge - Head(todo).len
  /\ todo' = Tail(todo)
  /\ UNCHANGED <<present, heap_end, pc, loop, calls, why>>

\* mmu_unmap_frames of the windows of copy_frame.
mmu_unmap_frames ==
  /\ pc = "idle"
  /\ todo # << >> /\ Head(todo).kind = "unmap"
  /\ use' = [a \in Pages |-> IF use[a] = "copy" THEN "none" ELSE use[a]]
  /\ regions' = {r \in regions : r.kind # "copy"}
  /\ charge' = charge - Head(todo).len
  /\ todo' = Tail(todo)
  /\ UNCHANGED <<present, heap_end, pc, loop, calls, why>>

-----------------------------------------------------------------------------
(* mmu_find_free_virtual_region.                                           *)

Len_ == Head(todo).len
Kind == Head(todo).kind

\* One check_virtual_region_is_free(address, NULL, false, ...).
FindProbe ==
  /\ pc = "find" /\ i < Len_
  /\ LET a == heap_end + offset + i
         s == allocate_pt(Space, Table(a))
     IN /\ a \in Pages
        /\ \/ ~s.ok /\ Panic("recursion")
           \/ /\ s.ok
              /\ present' = s.present /\ use' = s.use
              /\ \/ s.use[a] = "none" /\ i' = i + 1 /\ offset' = offset
                 \/ s.use[a] # "none" /\ i' = 0 /\ offset' = offset + 1
              /\ UNCHANGED <<heap_end, regions, todo, pc, round, base, charge, calls, why>>

\* ksbrk after its first search: heap_end moves, the table of heap_end and the
\* next one are made sure of, and the search is repeated.
FoundFirst ==
  /\ pc = "find" /\ i = Len_ /\ Kind = "brk" /\ round = 1
  /\ heap_end' = heap_end + offset
  /\ Table(heap_end') + 1 < NPT
  /\ round' = 2 /\ offset' = 0 /\ i' = 0
  /\ pc' = "tables"
  /\ UNCHANGED <<present, use, regions, todo, base, charge, calls, why>>

\* Mutated: the table after heap_end's is not made sure of.
allocate_this_pt ==
  /\ pc = "tables"
  /\ LET s == allocate_pt(Space, Table(heap_end))
     IN \/ ~s.ok /\ Panic("recursion")
        \/ /\ s.ok
           /\ present' = s.present /\ use' = s.use
           /\ \/ Len_ = 0 /\ pc' = "idle" /\ todo' = Tail(todo)
              \/ Len_ > 0 /\ pc' = "find" /\ todo' = todo
           /\ UNCHANGED <<heap_end, regions, loop, charge, calls, why>>

\* Mutated: the next table is made sure of at boot only.
allocate_next_pt_once ==
  /\ pc = "tables"
  /\ LET k == Table(heap_end)
         s == IF Len_ = 0 THEN allocate_pt(allocate_pt(Space, k), k + 1) ELSE Space
     IN \/ ~s.ok /\ Panic("recursion")
        \/ /\ s.ok
           /\ present' = s.present /\ use' = s.use
           /\ \/ Len_ = 0 /\ pc' = "idle" /\ todo' = Tail(todo)
              \/ Len_ > 0 /\ pc' = "find" /\ todo' = todo
           /\ UNCHANGED <<heap_end, regions, loop, charge, calls, why>>

allocate_next_pt ==
  /\ pc = "tables"
  /\ LET k == Table(heap_end)
         s == allocate_pt(allocate_pt(Space, k), k + 1)
     IN \/ ~s.ok /\ Panic("recursion")
        \/ /\ s.ok
           /\ present' = s.present /\ use' = s.use
           /\ \/ Len_ = 0 /\ pc' = "idle" /\ todo' = Tail(todo)
              \/ Len_ > 0 /\ pc' = "find" /\ todo' = todo
           /\ UNCHANGED <<heap_end, regions, loop, charge, calls, why>>

\* The search of mmu_map_frames or safe_allocation, or ksbrk's second one.
Found ==
  /\ pc = "find" /\ i = Len_ /\ (Kind = "brk" => round = 2)
  /\ base' = heap_end + offset
  /\ heap_end' = IF Kind = "brk" THEN base' ELSE heap_end
  /\ i' = 0
  /\ pc' = "map"
  /\ UNCHANGED <<present, use, regions, todo, round, offset, charge, calls, why>>

-----------------------------------------------------------------------------
(* The mapping loops: check_virtual_region_is_free(..., true, ...).        *)

MapPage ==
  /\ pc = "map" /\ i < Len_
  /\ LET a == base + i
         s == allocate_pt(Space, Table(a))
     IN /\ a \in Pages
        /\ \/ ~s.ok /\ Panic("recursion")
           \/ s.ok /\ s.use[a] # "none" /\ Panic(Kind)
           \/ /\ s.ok /\ s.use[a] = "none"
              /\ present' = s.present
              /\ use' = [s.use EXCEPT ![a] = Kind]
              /\ heap_end' = IF Kind = "brk" THEN heap_end + 1 ELSE heap_end
              /\ i' = i + 1
              /\ UNCHANGED <<regions, todo, pc, round, offset, base, charge, calls, why>>

Mapped ==
  /\ pc = "map" /\ i = Len_
  /\ regions' = regions \cup {[base |-> base, len |-> Len_, kind |-> Kind]}
  /\ todo' = Tail(todo)
  /\ pc' = "idle"
  /\ UNCHANGED <<space, loop, charge, calls, why>>

Next ==
  \/ KernelCall \/ Begin \/ mmu_unmap_frames
  \/ FindProbe \/ FoundFirst \/ allocate_next_pt \/ Found
  \/ MapPage \/ Mapped

Spec == Init /\ [][Next]_vars

-----------------------------------------------------------------------------
(* Properties.                                                             *)

\* The type of every variable.
TypeOK ==
  /\ present \subseteq 0..NPT - 1
  /\ use \in [Pages -> Uses]
  /\ heap_end \in 0..P * NPT
  /\ \A r \in regions : r.base \in Pages /\ r.len \in Nat /\ r.kind \in Uses
  /\ \A n \in 1..Len(todo) : todo[n].len \in Nat
  /\ pc \in {"idle", "find", "tables", "map", "panic"}
  /\ round \in {1, 2}
  /\ offset \in Nat /\ i \in Nat /\ base \in Nat /\ charge \in Nat
  /\ calls \in 0..MaxCalls

\* No assertion of mmu.c fails and allocate_pt never recurses without end,
\* as long as callers keep within the budget between two extensions.
AssertsHold == pc # "panic"

\* The page a table would be stored in always has a table itself: what keeps
\* allocate_pt from calling itself for ever.
Slack == Table(FirstProbe(Space)) \in present

PagesOf(r) == r.base..r.base + r.len - 1

\* Every page of a region that was returned is still mapped for that region
\* alone, and every table has a page of its own that no search gave away.
\* heap_end is above everything ksbrk returned, so that the next extension lies
\* above all earlier ones, as kmalloc.c, whose chain is in address order, takes
\* for granted.
RegionsOwned ==
  /\ \A r \in regions : \A a \in PagesOf(r) : use[a] = r.kind
  /\ \A r, q \in regions : r # q => PagesOf(r) \cap PagesOf(q) = {}
  /\ Cardinality({a \in Pages : use[a] = "table"}) = Cardinality(present) - 1
  /\ \A r \in regions : r.kind = "brk" => r.base + r.len <= heap_end

\* assert(was_free) of ksbrk_physical: the region found a moment ago is free.
WasFree == pc = "panic" => why # "brk"
=============================================================================
