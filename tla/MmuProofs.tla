------------------------------ MODULE MmuProofs ------------------------------
(***************************************************************************)
(* Who owns which page of the kernel's address space, for every size of    *)
(* table, number of tables, kernel and request, whether or not an          *)
(* assertion fails; and that none fails as long as callers ask for less    *)
(* than a table's pages between two extensions of the heap.                *)
(***************************************************************************)
EXTENDS Mmu, FiniteSetTheorems, SequenceTheorems, WellFoundedInduction, TLAPS

-----------------------------------------------------------------------------
(* The inductive invariant.                                                *)

MapKinds == {"brk", "safe", "window", "copy"}
Calls == [kind : MapKinds \cup {"unmap"}, len : Nat]
Top == P * NPT

Types ==
  /\ present \subseteq 0..NPT - 1 /\ use \in [Pages -> Uses]
  /\ heap_end \in 0..Top /\ todo \in Seq(Calls)
  /\ pc \in {"idle", "find", "tables", "map", "panic"}
  /\ offset \in Nat /\ i \in Nat /\ base \in Nat

TablesOf(u) == {a \in Pages : u[a] = "table"}

\* Every table but the first, which boot.s made, has a page.
Counted(pr, u) == Cardinality(TablesOf(u)) = Cardinality(pr) - 1

\* A call that is under way is the first of todo, and not an unmapping.
Busy == pc \in {"find", "tables", "map"} => todo # << >> /\ Head(todo).kind \in MapKinds

\* A search has not left the model's part of the address space.
Searching ==
  /\ pc = "find" => heap_end + offset + i <= Top
  /\ pc = "tables" => offset = 0 /\ i = 0 /\ Table(heap_end) + 1 < NPT

\* The pages mapped so far are the call's own, and heap_end follows ksbrk's.
Mapping ==
  pc = "map" =>
    /\ i <= Len_
    /\ \A a \in Nat : base <= a /\ a < base + i => a \in Pages /\ use[a] = Kind
    /\ \A r \in regions : \A a \in PagesOf(r) : ~(base <= a /\ a < base + i)
    /\ Kind = "brk" => heap_end = base + i

\* What was returned is mapped as it was, lies apart, and below heap_end if it
\* is the heap's.
Returned ==
  /\ \A r \in regions : r.base \in Nat /\ r.len \in Nat /\ r.kind \in MapKinds
  /\ \A r \in regions : \A a \in PagesOf(r) : a \in Pages /\ use[a] = r.kind
  /\ \A r, q \in regions : r # q => PagesOf(r) \cap PagesOf(q) = {}
  /\ \A r \in regions : r.kind = "brk" => r.base + r.len <= heap_end

IInv ==
  /\ Types /\ Counted(present, use) /\ Busy /\ Searching /\ Mapping /\ Returned

-----------------------------------------------------------------------------
(* Numbers of pages and tables.                                            *)

\* What the assumptions say of the sizes of the model.
LEMMA Sizes ==
  /\ Top \in Nat /\ Top > 0 /\ Pages = 0..Top - 1 /\ P \in Nat \ {0} /\ NPT \in Nat \ {0}
  /\ P <= Top
  <1>1. P \in Nat \ {0} /\ NPT \in Nat \ {0}
    BY SizesAssumption
  <1>2. \A a, b \in Nat \ {0} : a * b \in Nat /\ a * b > 0 /\ a <= a * b
    BY SMT
  <1> QED BY <1>1, <1>2 DEF Top, Pages

\* Multiplication keeps the order of naturals.
LEMMA MulMonotone ==
  ASSUME NEW a \in Nat, NEW b \in Nat, NEW k \in Nat, a <= b
  PROVE  k * a <= k * b
  BY SMT

\* Rounding down by division.
LEMMA DivBounds ==
  ASSUME NEW x \in Nat, NEW d \in Nat \ {0}
  PROVE  x \div d \in Nat /\ d * (x \div d) <= x /\ x < d * (x \div d) + d
  BY SMT

\* A page of the model has a table of the model, and what follows has none.
LEMMA TablesOfPages ==
  /\ \A a \in Pages : Table(a) \in 0..NPT - 1
  /\ Table(Top) \notin 0..NPT - 1
  /\ \A a \in 0..Top : Table(a) \in Nat
  <1>1. ASSUME NEW a \in Pages PROVE Table(a) \in 0..NPT - 1
    <2> DEFINE q == a \div P
    <2>1. a \in Nat /\ a < Top
      BY Sizes
    <2>2. q \in Nat /\ P * q <= a
      BY <2>1, Sizes, DivBounds
    <2> HIDE DEF q
    <2>3. NPT <= q => P * NPT <= P * q
      BY <2>2, Sizes, MulMonotone
    <2>4. q < NPT
      BY <2>1, <2>2, <2>3, Sizes DEF Top
    <2> QED BY <2>2, <2>4, Sizes DEF Table, q
  <1>2. Table(Top) \notin 0..NPT - 1
    <2> DEFINE q == Top \div P
    <2>1. q \in Nat /\ Top < P * q + P
      BY Sizes, DivBounds
    <2> HIDE DEF q
    <2>2. q <= NPT - 1 => P * q <= P * (NPT - 1)
      BY <2>1, Sizes, MulMonotone
    <2>3. P * (NPT - 1) = Top - P
      BY Sizes DEF Top
    <2>4. ~(q <= NPT - 1)
      BY <2>1, <2>2, <2>3, Sizes
    <2> QED BY <2>1, <2>4, Sizes DEF Table, q
  <1>3. ASSUME NEW a \in 0..Top PROVE Table(a) \in Nat
    BY Sizes, DivBounds DEF Table
  <1> QED BY <1>1, <1>2, <1>3

\* Some number of a set is its first.
LEMMA LeastOf ==
  ASSUME NEW S \in SUBSET Nat, S # {}
  PROVE  \E s \in S : \A t \in S : s <= t
  <1> DEFINE Less == OpToRel(<, Nat)
  <1>1. IsWellFoundedOn(Less, Nat)
    BY NatLessThanWellFounded, Zenon
  <1>2. \A t, s \in Nat : t < s => <<t, s>> \in Less
    BY DEF OpToRel
  <1> HIDE DEF Less
  <1>3. PICK s \in S : \A t \in S : ~(<<t, s>> \in Less)
    BY <1>1, WFMin, Zenon
  <1>4. \A t \in S : ~(t < s)
    BY <1>2, <1>3
  <1> QED BY <1>4

-----------------------------------------------------------------------------
(* allocate_pt.                                                            *)

\* A search for one page ends at a page that is free or has no table, or
\* leaves the model.
LEMMA FirstProbeIs ==
  ASSUME NEW s, heap_end \in 0..Top
  PROVE  /\ FirstProbe(s) \in 0..Top
         /\ FirstProbe(s) \in Pages => ProbeStops(s, FirstProbe(s))
         /\ FirstProbe(s) >= heap_end
         /\ \A b \in Pages : heap_end <= b /\ b < FirstProbe(s) => ~ProbeStops(s, b)
  <1> DEFINE Q(a) == /\ a >= heap_end
                     /\ a \in Pages => ProbeStops(s, a)
                     /\ \A b \in Pages : heap_end <= b /\ b < a => ~ProbeStops(s, b)
             S == {a \in 0..Top : a >= heap_end /\ (a \in Pages => ProbeStops(s, a))}
  <1>1. Top \in S
    BY Sizes
  <1>2. S \in SUBSET Nat /\ S # {}
    <2>1. \A a \in S : a \in Nat
      BY Sizes
    <2> HIDE DEF S
    <2> QED BY <1>1, <2>1
  <1>3. PICK m \in S : \A t \in S : m <= t
    BY <1>2, LeastOf
  <1>4. m \in 0..Top /\ Q(m)
    <2>1. ASSUME NEW b \in Pages, heap_end <= b, b < m PROVE ~ProbeStops(s, b)
      <3>1. b \in 0..Top /\ b >= heap_end /\ m \in Nat /\ b \in Nat
        BY <1>2, <2>1, Sizes
      <3>2. b \notin S
        BY <1>3, <2>1, <3>1
      <3> QED BY <2>1, <3>1, <3>2
    <2> QED BY <1>3, <2>1
  <1>5. Pages \cup {P * NPT} = 0..Top
    BY Sizes DEF Top
  <1>6. FirstProbe(s) = CHOOSE a \in Pages \cup {P * NPT} : Q(a)
    BY DEF FirstProbe
  <1> HIDE DEF Q, S
  <1>7. FirstProbe(s) \in 0..Top /\ Q(FirstProbe(s))
    BY <1>4, <1>5, <1>6
  <1> QED BY <1>7 DEF Q

Spaces == [present : SUBSET (0..NPT - 1), use : [Pages -> Uses], ok : BOOLEAN]

\* From s to r tables may be added, each with a page that was free; whatever is
\* mapped stays.
Grows(s, r) ==
  /\ \A a \in Pages : s.use[a] # "none" => r.use[a] = s.use[a]
  /\ Counted(s.present, s.use) => Counted(r.present, r.use)

\* A new table adds its own page to what is mapped and takes nothing away.
LEMMA allocate_ptGrows ==
  ASSUME heap_end \in 0..Top, NEW s \in Spaces, NEW k \in 0..NPT - 1,
         NEW r, r = allocate_pt(s, k)
  PROVE  r \in Spaces /\ (r.ok => s.ok /\ Grows(s, r))
  <1> DEFINE a == FirstProbe(s)
  <1>1. CASE k \in s.present \/ ~s.ok
    <2>1. r = s
      BY <1>1 DEF allocate_pt
    <2> QED BY <2>1 DEF Grows
  <1>2. CASE k \notin s.present /\ s.ok /\ Table(a) \notin s.present
    <2>1. r = [s EXCEPT !.ok = FALSE]
      BY <1>2 DEF allocate_pt
    <2> QED BY <2>1 DEF Spaces
  <1>3. CASE k \notin s.present /\ s.ok /\ Table(a) \in s.present
    <2> DEFINE u == [s.use EXCEPT ![a] = "table"]
               pr == s.present \cup {k}
    <2>1. r = [present |-> pr, use |-> u, ok |-> TRUE]
      BY <1>3 DEF allocate_pt
    <2>2. s.present \subseteq 0..NPT - 1 /\ s.use \in [Pages -> Uses]
      BY DEF Spaces
    <2>3. a \in 0..Top /\ (a \in Pages => ProbeStops(s, a))
      BY FirstProbeIs
    <2> HIDE DEF a
    <2>4. a # Top
      BY <1>3, <2>2, TablesOfPages
    <2>5. a \in Pages
      BY <2>3, <2>4, Sizes
    <2>6. s.use[a] = "none"
      BY <1>3, <2>3, <2>5 DEF ProbeStops
    <2>7. u \in [Pages -> Uses] /\ u[a] = "table" /\ \A b \in Pages : b # a => u[b] = s.use[b]
      BY <2>2, <2>5 DEF Uses
    <2> HIDE DEF u
    <2>8. TablesOf(u) = TablesOf(s.use) \cup {a} /\ a \notin TablesOf(s.use)
      BY <2>5, <2>6, <2>7 DEF TablesOf
    <2>9. IsFiniteSet(TablesOf(s.use)) /\ IsFiniteSet(s.present)
      <3>1. IsFiniteSet(Pages) /\ IsFiniteSet(0..NPT - 1)
        BY Sizes, FS_Interval
      <3>2. TablesOf(s.use) \in SUBSET Pages /\ s.present \in SUBSET (0..NPT - 1)
        BY <2>2 DEF TablesOf
      <3> QED BY <3>1, <3>2, FS_Subset
    <2>10. /\ Cardinality(TablesOf(u)) = Cardinality(TablesOf(s.use)) + 1
           /\ Cardinality(pr) = Cardinality(s.present) + 1
      BY <1>3, <2>8, <2>9, FS_AddElement
    <2>11. Cardinality(TablesOf(s.use)) \in Nat /\ Cardinality(s.present) \in Nat
      BY <2>9, FS_CardinalityType
    <2>12. Counted(s.present, s.use) => Counted(pr, u)
      BY <2>10, <2>11 DEF Counted
    <2>13. pr \in SUBSET (0..NPT - 1)
      BY <2>2
    <2> HIDE DEF pr
    <2>14. r.present = pr /\ r.use = u /\ r.ok = TRUE /\ r \in Spaces
      BY <2>1, <2>7, <2>13 DEF Spaces
    <2>15. Grows(s, r)
      BY <2>6, <2>7, <2>12, <2>14 DEF Grows
    <2> QED BY <1>3, <2>14, <2>15
  <1> QED BY <1>1, <1>2, <1>3

\* The variables of the address space as one record.
LEMMA SpaceIs ==
  ASSUME Types
  PROVE  Space \in Spaces /\ Space.present = present /\ Space.use = use
  BY DEF Types, Space, Spaces

-----------------------------------------------------------------------------
(* What a step leaves alone.                                               *)

\* While pages are only added, what was returned stays.
LEMMA ReturnedStays ==
  ASSUME Returned, regions' = regions, heap_end \in Nat, heap_end' \in Nat,
         heap_end <= heap_end',
         \A a \in Pages : use[a] # "none" => use'[a] = use[a]
  PROVE  Returned'
  <1>1. \A r \in regions : r.base \in Nat /\ r.len \in Nat /\ r.kind \in MapKinds
    BY DEF Returned
  <1>2. \A r \in regions : PagesOf(r)' = PagesOf(r)
    BY DEF PagesOf
  <1>3. \A r \in regions : \A a \in PagesOf(r) : a \in Pages /\ use'[a] = r.kind
    BY <1>1 DEF Returned, MapKinds
  <1>4. \A r \in regions : r.kind = "brk" => r.base + r.len <= heap_end'
    BY <1>1 DEF Returned
  <1> QED BY <1>1, <1>3, <1>4 DEF Returned, PagesOf

\* An assertion that fails stops the kernel where it is.
LEMMA PanicIInv ==
  ASSUME IInv, NEW reason, Panic(reason)
  PROVE  IInv'
  <1>1. pc' = "panic" /\ UNCHANGED <<present, use, heap_end, regions, todo, round, offset, i, base>>
    BY DEF Panic, space, loop
  <1>2. Types' /\ Counted(present, use)' /\ Busy' /\ Searching' /\ Mapping'
    BY <1>1 DEF IInv, Types, Counted, Busy, Searching, Mapping
  <1>3. Returned'
    BY <1>1 DEF IInv, Returned
  <1> QED BY <1>2, <1>3 DEF IInv

-----------------------------------------------------------------------------
(* Boot and the calls.                                                     *)

\* What the kernel asks for are calls of mmu.c.
LEMMA ScriptsAreCalls ==
  /\ \A c \in Scripts : c \in Seq(Calls)
  /\ <<Call("brk", 0)>> \o mmu_update_stack \in Seq(Calls)
  <1>1. \A k \in MapKinds \cup {"unmap"}, n \in Nat : Call(k, n) \in Calls
    BY DEF Call, Calls
  <1>2. ASSUME NEW k \in MapKinds \cup {"unmap"}, NEW n \in Nat
        PROVE  <<Call(k, n)>> \in Seq(Calls)
    <2>1. Call(k, n) \in Calls
      BY <1>1
    <2> QED BY <2>1
  <1>3. copy_frame \in [1..3 -> Calls]
    BY <1>1 DEF copy_frame, MapKinds
  <1>4. clone_pt \in Seq(Calls)
    <2> DEFINE N == StackPages * 3
               f == [n \in 1..N |-> copy_frame[((n - 1) % 3) + 1]]
    <2>1. N \in Nat
      BY SizesAssumption
    <2>2. \A n \in Nat : n >= 1 => ((n - 1) % 3) + 1 \in 1..3
      OBVIOUS
    <2> HIDE DEF N
    <2>3. \A n \in 1..N : copy_frame[((n - 1) % 3) + 1] \in Calls
      BY <1>3, <2>1, <2>2
    <2>4. f \in [1..N -> Calls]
      BY <2>3
    <2> HIDE DEF f
    <2>5. f \in Seq(Calls)
      BY <2>1, <2>4
    <2>6. <<Call("safe", 1)>> \in Seq(Calls)
      BY <1>2 DEF MapKinds
    <2>7. clone_pt = <<Call("safe", 1)>> \o f
      BY DEF clone_pt, f, N
    <2> QED BY <2>5, <2>6, <2>7, ConcatProperties
  <1>5. mmu_clone_directory \in Seq(Calls)
    <2>1. <<Call("brk", 1), Call("safe", 2), Call("safe", 2), Call("safe", 2)>> \in Seq(Calls)
      BY <1>1 DEF MapKinds
    <2> QED BY <1>4, <2>1, ConcatProperties DEF mmu_clone_directory
  <1>6. <<Call("brk", 0)>> \o mmu_update_stack \in Seq(Calls)
    <2>1. mmu_update_stack \in Seq(Calls)
      BY <1>1 DEF MapKinds, mmu_update_stack
    <2>2. <<Call("brk", 0)>> \in Seq(Calls)
      BY <1>2 DEF MapKinds
    <2> QED BY <2>1, <2>2, ConcatProperties
  <1>7. \A n \in BrkSizes \cup MapSizes : n \in Nat
    BY SizesAssumption
  <1>8. \A c \in Scripts : c \in Seq(Calls)
    <2> SUFFICES ASSUME NEW c \in Scripts PROVE c \in Seq(Calls)
      OBVIOUS
    <2>1. CASE \E n \in BrkSizes : c = <<Call("brk", n)>>
      BY <1>2, <1>7, <2>1 DEF MapKinds
    <2>2. CASE \E n \in MapSizes : c = <<Call("window", n)>>
      BY <1>2, <1>7, <2>2 DEF MapKinds
    <2>3. CASE c = mmu_clone_directory
      BY <1>5, <2>3
    <2> QED BY <2>1, <2>2, <2>3 DEF Scripts
  <1> QED BY <1>6, <1>8

\* At boot there is one table, which has no page of its own in the heap.
LEMMA InitIInv == Init => IInv
  <1> SUFFICES ASSUME Init PROVE IInv
    OBVIOUS
  <1>1. /\ present = {0} /\ heap_end = KernelEnd /\ regions = {} /\ pc = "idle"
        /\ use = [a \in Pages |-> IF a < P - 1 THEN "boot" ELSE "none"]
        /\ todo = <<Call("brk", 0)>> \o mmu_update_stack
        /\ offset = 0 /\ i = 0 /\ base = 0
    BY DEF Init
  <1>2. Types
    <2>1. use \in [Pages -> Uses] /\ present \subseteq 0..NPT - 1
      BY <1>1, Sizes DEF Uses
    <2>2. heap_end \in 0..Top
      BY <1>1, Sizes, SizesAssumption
    <2> QED BY <1>1, <2>1, <2>2, ScriptsAreCalls DEF Types
  <1>3. Counted(present, use)
    <2>1. TablesOf(use) = {}
      BY <1>1 DEF TablesOf
    <2>2. Cardinality({0}) = 1 /\ Cardinality(TablesOf(use)) = 0
      BY <2>1, FS_Singleton, FS_EmptySet
    <2> QED BY <1>1, <2>2 DEF Counted
  <1>4. Busy /\ Searching /\ Mapping /\ Returned
    BY <1>1 DEF Busy, Searching, Mapping, Returned
  <1> QED BY <1>2, <1>3, <1>4 DEF IInv

\* The kernel's next call of mmu.c.
LEMMA KernelCallIInv == IInv /\ KernelCall => IInv'
  <1> SUFFICES ASSUME IInv, KernelCall PROVE IInv'
    OBVIOUS
  <1>1. /\ pc = "idle" /\ todo' \in Scripts
        /\ UNCHANGED <<present, use, heap_end, regions, pc, offset, i, base>>
    BY DEF KernelCall, space, loop
  <1>2. Types' /\ Counted(present, use)'
    BY <1>1, ScriptsAreCalls DEF IInv, Types, Counted
  <1>3. Busy' /\ Searching' /\ Mapping'
    BY <1>1 DEF Busy, Searching, Mapping
  <1>4. Returned'
    BY <1>1 DEF IInv, Returned
  <1> QED BY <1>2, <1>3, <1>4 DEF IInv

\* A call of mmu.c begins.
LEMMA BeginIInv == IInv /\ Begin => IInv'
  <1> SUFFICES ASSUME IInv, Begin PROVE IInv'
    OBVIOUS
  <1>1. /\ pc = "idle" /\ todo # << >> /\ Head(todo).kind # "unmap"
        /\ pc' = "find" /\ offset' = 0 /\ i' = 0
        /\ UNCHANGED <<present, use, heap_end, regions, todo, base>>
    BY DEF Begin, space
  <1>2. Types' /\ Counted(present, use)'
    BY <1>1 DEF IInv, Types, Counted
  <1>3. Head(todo) \in Calls
    BY <1>1, HeadTailProperties DEF IInv, Types
  <1>4. Busy'
    BY <1>1, <1>3 DEF Busy, Calls
  <1>5. Searching' /\ Mapping'
    BY <1>1, Sizes DEF IInv, Types, Searching, Mapping
  <1>6. Returned'
    BY <1>1 DEF IInv, Returned
  <1> QED BY <1>2, <1>4, <1>5, <1>6 DEF IInv

\* The windows of copy_frame are gone, and nothing else is.
LEMMA mmu_unmap_framesIInv == IInv /\ mmu_unmap_frames => IInv'
  <1> SUFFICES ASSUME IInv, mmu_unmap_frames PROVE IInv'
    OBVIOUS
  <1>1. /\ pc = "idle" /\ todo # << >> /\ todo' = Tail(todo)
        /\ use' = [a \in Pages |-> IF use[a] = "copy" THEN "none" ELSE use[a]]
        /\ regions' = {r \in regions : r.kind # "copy"}
        /\ UNCHANGED <<present, heap_end, pc, offset, i, base>>
    BY DEF mmu_unmap_frames, loop
  <1>2. use' \in [Pages -> Uses] /\ \A a \in Pages : use[a] # "copy" => use'[a] = use[a]
    BY <1>1 DEF IInv, Types, Uses
  <1>3. Types'
    <2>1. todo' \in Seq(Calls)
      BY <1>1, HeadTailProperties DEF IInv, Types
    <2> QED BY <1>1, <1>2, <2>1 DEF IInv, Types
  <1>4. Counted(present, use)'
    <2>1. TablesOf(use') = TablesOf(use)
      BY <1>1 DEF TablesOf
    <2>2. Counted(present', use')
      BY <1>1, <2>1 DEF IInv, Counted
    <2> QED BY <2>2
  <1>5. Busy' /\ Searching' /\ Mapping'
    BY <1>1 DEF Busy, Searching, Mapping
  <1>6. Returned'
    <2>1. \A r \in regions' : r \in regions /\ r.kind # "copy"
      BY <1>1
    <2>2. \A r \in regions' : \A a \in PagesOf(r) : a \in Pages /\ use'[a] = r.kind
      BY <1>2, <2>1 DEF IInv, Returned
    <2>3. \A r \in regions' : r.kind = "brk" => r.base + r.len <= heap_end'
      BY <1>1, <2>1 DEF IInv, Returned
    <2>4. \A r \in regions' : r.base \in Nat /\ r.len \in Nat /\ r.kind \in MapKinds
      BY <2>1 DEF IInv, Returned
    <2>5. \A r, q \in regions' : r # q => PagesOf(r) \cap PagesOf(q) = {}
      BY <2>1 DEF IInv, Returned
    <2> QED BY <2>2, <2>3, <2>4, <2>5 DEF Returned, PagesOf
  <1> QED BY <1>3, <1>4, <1>5, <1>6 DEF IInv

-----------------------------------------------------------------------------
(* The searches.                                                           *)

\* A step that may add tables keeps all that was mapped.
LEMMA TablesAdded ==
  ASSUME IInv, NEW s \in Spaces, Grows(Space, s), present' = s.present, use' = s.use
  PROVE  /\ present' \subseteq 0..NPT - 1 /\ use' \in [Pages -> Uses]
         /\ Counted(present, use)'
         /\ \A a \in Pages : use[a] # "none" => use'[a] = use[a]
  <1>1. Space.present = present /\ Space.use = use
    BY SpaceIs DEF IInv
  <1>2. s.present \subseteq 0..NPT - 1 /\ s.use \in [Pages -> Uses]
    BY DEF Spaces
  <1>3. Counted(present', use')
    BY <1>1 DEF IInv, Grows
  <1>4. \A a \in Pages : use[a] # "none" => use'[a] = use[a]
    BY <1>1 DEF Grows
  <1> QED BY <1>2, <1>3, <1>4

\* A probe may add a table; the search stays in the model.
LEMMA FindProbeIInv == IInv /\ FindProbe => IInv'
  <1> SUFFICES ASSUME IInv, FindProbe PROVE IInv'
    OBVIOUS
  <1> DEFINE a == heap_end + offset + i
             s == allocate_pt(Space, Table(a))
  <1>1. pc = "find" /\ a \in Pages
    BY DEF FindProbe
  <1>2. s \in Spaces /\ (s.ok => Grows(Space, s))
    <2>1. Table(a) \in 0..NPT - 1
      BY <1>1, TablesOfPages
    <2>2. heap_end \in 0..Top /\ Space \in Spaces
      BY SpaceIs DEF IInv, Types
    <2> QED BY <2>1, <2>2, allocate_ptGrows
  <1>3. CASE ~s.ok /\ Panic("recursion")
    BY <1>3, PanicIInv
  <1>4. CASE /\ s.ok /\ present' = s.present /\ use' = s.use
             /\ \/ i' = i + 1 /\ offset' = offset
                \/ i' = 0 /\ offset' = offset + 1
             /\ UNCHANGED <<heap_end, regions, todo, pc, round, base, charge, calls, why>>
    <2> HIDE DEF s
    <2>1. /\ present' \subseteq 0..NPT - 1 /\ use' \in [Pages -> Uses]
          /\ Counted(present, use)'
          /\ \A b \in Pages : use[b] # "none" => use'[b] = use[b]
      BY <1>2, <1>4, TablesAdded
    <2>2. heap_end \in Nat /\ offset \in Nat /\ i \in Nat /\ a < Top
      BY <1>1, Sizes DEF IInv, Types
    <2>3. Types'
      BY <1>4, <2>1, <2>2 DEF IInv, Types
    <2>4. Searching'
      BY <1>1, <1>4, <2>2, Sizes DEF Searching
    <2>5. Busy' /\ Mapping'
      BY <1>1, <1>4 DEF IInv, Busy, Mapping
    <2>6. Returned'
      BY <1>4, <2>1, <2>2, ReturnedStays DEF IInv
    <2> QED BY <2>1, <2>3, <2>4, <2>5, <2>6 DEF IInv
  <1> QED BY <1>3, <1>4 DEF FindProbe

\* The first search of ksbrk ends: heap_end moves to what it found.
LEMMA FoundFirstIInv == IInv /\ FoundFirst => IInv'
  <1> SUFFICES ASSUME IInv, FoundFirst PROVE IInv'
    OBVIOUS
  <1>1. /\ pc = "find" /\ pc' = "tables" /\ heap_end' = heap_end + offset
        /\ Table(heap_end') + 1 < NPT /\ offset' = 0 /\ i' = 0
        /\ UNCHANGED <<present, use, regions, todo, base>>
    BY DEF FoundFirst
  <1>2. /\ heap_end \in Nat /\ offset \in Nat /\ i \in Nat /\ heap_end + offset + i <= Top
    BY <1>1, Sizes DEF IInv, Types, Searching
  <1>3. heap_end' \in 0..Top /\ heap_end <= heap_end' /\ heap_end' \in Nat
    BY <1>1, <1>2, Sizes
  <1>4. Types' /\ Counted(present, use)'
    BY <1>1, <1>3 DEF IInv, Types, Counted
  <1>5. Busy' /\ Searching' /\ Mapping'
    BY <1>1 DEF IInv, Busy, Searching, Mapping
  <1>6. Returned'
    BY <1>1, <1>2, <1>3, ReturnedStays DEF IInv
  <1> QED BY <1>4, <1>5, <1>6 DEF IInv

\* The tables of heap_end and after it are there before the second search.
LEMMA allocate_next_ptIInv == IInv /\ allocate_next_pt => IInv'
  <1> SUFFICES ASSUME IInv, allocate_next_pt PROVE IInv'
    OBVIOUS
  <1> DEFINE k == Table(heap_end)
             s1 == allocate_pt(Space, k)
             s == allocate_pt(s1, k + 1)
  <1>1. pc = "tables"
    BY DEF allocate_next_pt
  <1>2. k \in 0..NPT - 1 /\ k + 1 \in 0..NPT - 1
    <2>1. k \in Nat /\ k + 1 < NPT
      BY <1>1, TablesOfPages DEF IInv, Types, Searching
    <2> HIDE DEF k
    <2> QED BY <2>1, Sizes
  <1>3. s \in Spaces /\ (s.ok => Grows(Space, s))
    <2> HIDE DEF k
    <2>1. heap_end \in 0..Top /\ Space \in Spaces
      BY SpaceIs DEF IInv, Types
    <2>2. s1 \in Spaces /\ (s1.ok => Grows(Space, s1))
      BY <1>2, <2>1, allocate_ptGrows
    <2> HIDE DEF s1
    <2>3. s \in Spaces /\ (s.ok => s1.ok /\ Grows(s1, s))
      BY <1>2, <2>1, <2>2, allocate_ptGrows
    <2> HIDE DEF s
    <2> QED BY <2>2, <2>3 DEF Grows
  <1>4. CASE ~s.ok /\ Panic("recursion")
    BY <1>4, PanicIInv
  <1>5. CASE /\ s.ok /\ present' = s.present /\ use' = s.use
             /\ \/ pc' = "idle" /\ todo' = Tail(todo)
                \/ pc' = "find" /\ todo' = todo
             /\ UNCHANGED <<heap_end, regions, loop, charge, calls, why>>
    <2> HIDE DEF s
    <2>1. /\ present' \subseteq 0..NPT - 1 /\ use' \in [Pages -> Uses]
          /\ Counted(present, use)'
          /\ \A b \in Pages : use[b] # "none" => use'[b] = use[b]
      BY <1>3, <1>5, TablesAdded
    <2>2. UNCHANGED <<heap_end, regions, offset, i, base>> /\ heap_end \in Nat /\ heap_end <= Top
      BY <1>5, Sizes DEF loop, IInv, Types
    <2>3. todo # << >> /\ Tail(todo) \in Seq(Calls) /\ offset = 0 /\ i = 0
      BY <1>1, HeadTailProperties DEF IInv, Busy, Types, Searching
    <2>4. Types'
      BY <1>5, <2>1, <2>2, <2>3 DEF IInv, Types
    <2>5. Busy' /\ Searching' /\ Mapping'
      BY <1>1, <1>5, <2>2, <2>3 DEF IInv, Busy, Searching, Mapping
    <2>6. Returned'
      BY <2>1, <2>2, ReturnedStays DEF IInv
    <2> QED BY <2>1, <2>4, <2>5, <2>6 DEF IInv
  <1> QED BY <1>4, <1>5 DEF allocate_next_pt

\* The search ends: the pages it found are free.
LEMMA FoundIInv == IInv /\ Found => IInv'
  <1> SUFFICES ASSUME IInv, Found PROVE IInv'
    OBVIOUS
  <1>1. /\ pc = "find" /\ pc' = "map" /\ base' = heap_end + offset /\ i' = 0
        /\ heap_end' = IF Kind = "brk" THEN base' ELSE heap_end
        /\ UNCHANGED <<present, use, regions, todo, offset>>
    BY DEF Found
  <1>2. /\ heap_end \in Nat /\ offset \in Nat /\ i \in Nat /\ heap_end + offset + i <= Top
    BY <1>1, Sizes DEF IInv, Types, Searching
  <1>3. heap_end' \in 0..Top /\ heap_end <= heap_end' /\ heap_end' \in Nat /\ base' \in Nat
    BY <1>1, <1>2, Sizes
  <1>4. Types' /\ Counted(present, use)'
    BY <1>1, <1>3 DEF IInv, Types, Counted
  <1>5. todo # << >> /\ Head(todo) \in Calls /\ Head(todo).kind \in MapKinds
    BY <1>1, HeadTailProperties DEF IInv, Busy, Types
  <1>6. Busy' /\ Searching'
    BY <1>1, <1>5 DEF Busy, Searching
  <1>7. Mapping'
    <2>1. Len_' = Len_ /\ Kind' = Kind /\ Len_ \in Nat
      BY <1>1, <1>5 DEF Len_, Kind, Calls
    <2>2. \A a \in Nat : ~(base' <= a /\ a < base' + i')
      BY <1>1, <1>3
    <2>3. \A r \in regions' : \A a \in PagesOf(r) : a \in Nat
      BY <1>1, Sizes DEF IInv, Returned
    <2>4. 0 <= Len_ /\ (Kind = "brk" => heap_end' = base' + 0)
      BY <1>1, <1>3, <2>1
    <2> QED BY <1>1, <2>1, <2>2, <2>3, <2>4 DEF Mapping, PagesOf
  <1>8. Returned'
    BY <1>1, <1>2, <1>3, ReturnedStays DEF IInv
  <1> QED BY <1>4, <1>6, <1>7, <1>8 DEF IInv

-----------------------------------------------------------------------------
(* The mapping loops.                                                      *)

\* A page that was free becomes the call's.
LEMMA MapPageIInv == IInv /\ MapPage => IInv'
  <1> SUFFICES ASSUME IInv, MapPage PROVE IInv'
    OBVIOUS
  <1> DEFINE a == base + i
             s == allocate_pt(Space, Table(a))
  <1>1. pc = "map" /\ i < Len_ /\ a \in Pages
    BY DEF MapPage
  <1>2. s \in Spaces /\ (s.ok => Grows(Space, s))
    <2>1. Table(a) \in 0..NPT - 1
      BY <1>1, TablesOfPages
    <2>2. heap_end \in 0..Top /\ Space \in Spaces
      BY SpaceIs DEF IInv, Types
    <2> QED BY <2>1, <2>2, allocate_ptGrows
  <1>3. CASE ~s.ok /\ Panic("recursion")
    BY <1>3, PanicIInv
  <1>4. CASE s.use[a] # "none" /\ Panic(Kind)
    BY <1>4, PanicIInv
  <1>5. CASE /\ s.ok /\ s.use[a] = "none" /\ present' = s.present
             /\ use' = [s.use EXCEPT ![a] = Kind]
             /\ heap_end' = IF Kind = "brk" THEN heap_end + 1 ELSE heap_end
             /\ i' = i + 1
             /\ UNCHANGED <<regions, todo, pc, round, offset, base, charge, calls, why>>
    <2> HIDE DEF s
    <2>1. /\ s.present \subseteq 0..NPT - 1 /\ s.use \in [Pages -> Uses]
          /\ Counted(s.present, s.use)
          /\ \A b \in Pages : use[b] # "none" => s.use[b] = use[b]
      BY <1>2, <1>5, SpaceIs DEF IInv, Spaces, Grows
    <2>2. /\ heap_end \in Nat /\ base \in Nat /\ i \in Nat /\ a \in Nat /\ a < Top
          /\ a + 1 = base + (i + 1)
      BY <1>1, Sizes DEF IInv, Types
    <2>3. todo # << >> /\ Kind \in MapKinds /\ Len_ \in Nat /\ Kind' = Kind /\ Len_' = Len_
      <3>1. todo # << >> /\ Head(todo).kind \in MapKinds /\ Head(todo) \in Calls
        BY <1>1, HeadTailProperties DEF IInv, Busy, Types
      <3>2. Kind' = Kind /\ Len_' = Len_
        BY <1>5 DEF Kind, Len_
      <3> QED BY <3>1, <3>2 DEF Calls, Kind, Len_
    <2>4. /\ use' \in [Pages -> Uses] /\ use'[a] = Kind
          /\ \A b \in Pages : b # a => use'[b] = s.use[b]
      BY <1>1, <1>5, <2>1, <2>3 DEF MapKinds, Uses
    <2>5. \A b \in Pages : use[b] # "none" => b # a /\ use'[b] = use[b]
      BY <1>5, <2>1, <2>4
    <2>6. Kind = "brk" => heap_end = a
      BY <1>1 DEF IInv, Mapping
    <2> HIDE DEF a
    <2>7. heap_end' \in 0..Top /\ heap_end <= heap_end' /\ heap_end' \in Nat
      BY <1>5, <2>2, <2>6, Sizes DEF IInv, Types
    <2>8. Types'
      BY <1>5, <2>1, <2>2, <2>4, <2>7 DEF IInv, Types
    <2>9. Counted(present, use)'
      <3>1. TablesOf(use') = TablesOf(s.use)
        BY <1>1, <1>5, <2>3, <2>4 DEF TablesOf, MapKinds
      <3>2. Counted(present', use')
        BY <1>5, <2>1, <3>1 DEF Counted
      <3> QED BY <3>2
    <2>10. Busy' /\ Searching'
      BY <1>1, <1>5 DEF IInv, Busy, Searching
    <2>11. Mapping'
      <3>1. i' <= Len_'
        BY <1>1, <1>5, <2>2, <2>3
      <3>2. ASSUME NEW b \in Nat, base <= b, b < base + (i + 1)
            PROVE  b \in Pages /\ use'[b] = Kind
        <4>1. CASE b = a
          BY <1>1, <2>4, <4>1
        <4>2. CASE b # a
          <5>1. b < base + i
            BY <2>2, <3>2, <4>2 DEF a
          <5>2. b \in Pages /\ use[b] = Kind
            BY <1>1, <3>2, <5>1 DEF IInv, Mapping
          <5> QED BY <2>3, <2>5, <5>2 DEF MapKinds
        <4> QED BY <4>1, <4>2
      <3>3. ASSUME NEW r \in regions, NEW b \in PagesOf(r)
            PROVE  ~(base <= b /\ b < base + (i + 1))
        <4>1. b \in Pages /\ use[b] = r.kind /\ r.kind # "none" /\ b \in Nat
          BY Sizes DEF IInv, Returned, MapKinds
        <4>2. b # a
          BY <2>5, <4>1
        <4>3. ~(base <= b /\ b < base + i)
          BY <1>1 DEF IInv, Mapping
        <4> QED BY <2>2, <4>1, <4>2, <4>3 DEF a
      <3>4. Kind = "brk" => heap_end' = base + (i + 1)
        BY <1>5, <2>2, <2>6
      <3>5. base' = base /\ i' = i + 1 /\ regions' = regions
        BY <1>5
      <3> QED BY <2>3, <3>1, <3>2, <3>3, <3>4, <3>5 DEF Mapping, PagesOf
    <2>12. Returned'
      BY <1>5, <2>2, <2>5, <2>7, ReturnedStays DEF IInv
    <2> QED BY <2>8, <2>9, <2>10, <2>11, <2>12 DEF IInv
  <1> QED BY <1>3, <1>4, <1>5 DEF MapPage

\* The region is returned.
LEMMA MappedIInv == IInv /\ Mapped => IInv'
  <1> SUFFICES ASSUME IInv, Mapped PROVE IInv'
    OBVIOUS
  <1> DEFINE new == [base |-> base, len |-> Len_, kind |-> Kind]
  <1>1. /\ pc = "map" /\ i = Len_ /\ regions' = regions \cup {new}
        /\ todo' = Tail(todo) /\ pc' = "idle"
        /\ UNCHANGED <<present, use, heap_end, offset, i, base>>
    BY DEF Mapped, space, loop
  <1>2. /\ todo # << >> /\ Kind \in MapKinds /\ Len_ \in Nat /\ Tail(todo) \in Seq(Calls)
        /\ base \in Nat
    BY <1>1, HeadTailProperties DEF IInv, Busy, Types, Calls, Kind, Len_
  <1>3. Types' /\ Counted(present, use)'
    BY <1>1, <1>2 DEF IInv, Types, Counted
  <1>4. Busy' /\ Searching' /\ Mapping'
    BY <1>1 DEF Busy, Searching, Mapping
  <1>5. new.base = base /\ new.len = i /\ new.kind = Kind /\ PagesOf(new) = base..base + i - 1
    BY <1>1 DEF PagesOf
  <1> HIDE DEF new
  <1>6. \A a \in PagesOf(new) : a \in Nat /\ base <= a /\ a < base + i
    BY <1>1, <1>2, <1>5
  <1>7. \A a \in PagesOf(new) : a \in Pages /\ use[a] = Kind
    BY <1>1, <1>6 DEF IInv, Mapping
  <1>8. \A r \in regions : PagesOf(r) \cap PagesOf(new) = {}
    BY <1>1, <1>6 DEF IInv, Mapping
  <1>9. Kind = "brk" => heap_end = base + i
    BY <1>1 DEF IInv, Mapping
  <1>10. Returned'
    <2>1. \A r \in regions' : r \in regions \/ r = new
      BY <1>1
    <2>2. \A r \in regions' : r.base \in Nat /\ r.len \in Nat /\ r.kind \in MapKinds
      BY <1>1, <1>2, <1>5, <2>1 DEF IInv, Returned
    <2>3. \A r \in regions' : \A a \in PagesOf(r) : a \in Pages /\ use'[a] = r.kind
      BY <1>1, <1>5, <1>7, <2>1 DEF IInv, Returned
    <2>4. \A r, q \in regions' : r # q => PagesOf(r) \cap PagesOf(q) = {}
      BY <1>8, <2>1 DEF IInv, Returned
    <2>5. \A r \in regions' : r.kind = "brk" => r.base + r.len <= heap_end'
      <3>1. heap_end \in Nat
        BY Sizes DEF IInv, Types
      <3> QED BY <1>1, <1>2, <1>5, <1>9, <2>1, <3>1 DEF IInv, Returned
    <2> QED BY <2>2, <2>3, <2>4, <2>5 DEF Returned, PagesOf
  <1> QED BY <1>3, <1>4, <1>10 DEF IInv

-----------------------------------------------------------------------------
(* The theorems.                                                           *)

\* A step that changes nothing.
LEMMA StutterIInv == IInv /\ UNCHANGED vars => IInv'
  <1> SUFFICES ASSUME IInv, UNCHANGED vars PROVE IInv'
    OBVIOUS
  <1>1. UNCHANGED <<present, use, heap_end, regions, todo, pc, offset, i, base>>
    BY DEF vars, space, loop
  <1>2. Types' /\ Counted(present, use)'
    BY <1>1 DEF IInv, Types, Counted
  <1>3. Busy' /\ Searching'
    BY <1>1 DEF IInv, Busy, Searching
  <1>4. Mapping'
    BY <1>1 DEF IInv, Mapping, Len_, Kind
  <1>5. Returned'
    BY <1>1 DEF IInv, Returned
  <1> QED BY <1>2, <1>3, <1>4, <1>5 DEF IInv

\* The inductive invariant holds of every sequence of calls.
THEOREM Invariance == Spec => []IInv
  <1>1. Init => IInv
    BY InitIInv
  <1>2. IInv /\ [Next]_vars => IInv'
    BY KernelCallIInv, BeginIInv, mmu_unmap_framesIInv, FindProbeIInv, FoundFirstIInv,
       allocate_next_ptIInv, FoundIInv, MapPageIInv, MappedIInv, StutterIInv DEF Next
  <1> QED BY <1>1, <1>2, PTL DEF Spec

\* What ksbrk, mmu_map_frames and the clones returned stays mapped for its
\* caller alone, tables included, and ksbrk's regions lie below heap_end.
THEOREM RegionsAreOwned == Spec => []RegionsOwned
  <1>1. IInv => RegionsOwned
    <2> SUFFICES ASSUME IInv PROVE RegionsOwned
      OBVIOUS
    <2>1. Cardinality({a \in Pages : use[a] = "table"}) = Cardinality(present) - 1
      BY DEF IInv, Counted, TablesOf
    <2> QED BY <2>1 DEF IInv, Returned, RegionsOwned
  <1> QED BY <1>1, Invariance, PTL

-----------------------------------------------------------------------------
(* Why no assertion fails: the invariant.                                  *)

\* The pages that the first m tables map.
Reach(m) == P * m

\* The tables are the first m, and from heap_end h on the pages below f are
\* used, the others free: f is the page the next table would be stored in.
Laid(pr, u, h, f, m) ==
  /\ m \in 1..NPT /\ f \in Nat /\ h <= f /\ f < Reach(m)
  /\ pr = 0..m - 1
  /\ \A a \in Pages : h <= a => (u[a] = "none" <=> f <= a)

\* o[n] windows of copy_frame are open when the n-th of the calls t is made.
\* Only the first call may ask for no page.
Opens(t, o) ==
  /\ o[Len(t) + 1] = 0
  /\ \A n \in 1..Len(t) :
       \/ t[n].kind = "copy" /\ t[n].len = 1 /\ o[n] \in {0, 1} /\ o[n + 1] = o[n] + 1
       \/ t[n].kind = "unmap" /\ t[n].len = 2 /\ o[n] = 2 /\ o[n + 1] = 0
       \/ t[n].kind \in {"brk", "safe", "window"} /\ o[n] = 0 /\ o[n + 1] = 0
  /\ \A n \in 2..Len(t) : t[n].len >= 1

\* ksbrk has yet to make sure of the next table.
Extending ==
  /\ todo # << >> /\ Kind = "brk"
  /\ pc \in {"idle", "tables"} \/ (pc = "find" /\ round = 1)

\* What the call under way has still to map.
Owed == IF pc = "find" THEN Len_ ELSE IF pc = "map" THEN Len_ - i ELSE 0

\* What ksbrk left free, a whole table's pages, less what was asked for since.
Room(f, m) ==
  /\ charge \in Int /\ charge <= Budget
  /\ pc \in {"find", "tables"} /\ Kind = "brk" => charge = Len_
  /\ ~Extending => Reach(m) - f >= P - charge + Owed

\* The search is at the first free page or below it, but for the first search
\* of ksbrk, which may have put a table into the first page of its own run;
\* the mapping is at the first free page.  ksbrk(0) is the one at boot, with
\* heap_end in the last table.
Place(f, m) ==
  /\ pc = "find" =>
       /\ i <= Len_ /\ heap_end + offset <= f
       /\ i > 0 => \/ heap_end + offset = f /\ f + i <= Reach(m)
                   \/ /\ Kind = "brk" /\ round = 1
                      /\ heap_end + offset = f - 1 /\ Reach(m) - f >= P
  /\ pc = "tables" => Kind = "brk" /\ (Reach(m) - f >= P \/ Table(heap_end) + 1 >= m)
  /\ pc = "map" => base + i = f
  /\ (todo # << >> /\ Len_ = 0) =>
       /\ Kind = "brk" /\ pc \in {"idle", "find", "tables"}
       /\ pc = "find" => round = 1 /\ offset = 0
       /\ Table(heap_end) + 1 >= m

\* The windows of copy_frame are the last pages below f.
Open(o) == o[1] + (IF pc = "map" /\ Kind = "copy" THEN i ELSE 0)

Windows(f, c) ==
  /\ heap_end <= f - c
  /\ \A a \in Pages : use[a] = "copy" <=> f - c <= a /\ a < f

SInv(f, m, o) ==
  /\ Laid(present, use, heap_end, f, m) /\ Opens(todo, o)
  /\ Room(f, m) /\ Place(f, m) /\ Windows(f, Open(o)) /\ pc # "panic"

Safe == \E f, m, o : SInv(f, m, o)

-----------------------------------------------------------------------------
(* Tables and the first free page.                                         *)

\* One more table maps P pages more.
LEMMA ReachIs ==
  ASSUME NEW m \in Nat
  PROVE  /\ Reach(m) \in Nat /\ Reach(m + 1) = Reach(m) + P /\ Reach(NPT) = Top
         /\ \A k \in Nat : m <= k => Reach(m) <= Reach(k)
  <1>1. P \in Nat
    BY Sizes
  <1>2. P * m \in Nat /\ P * (m + 1) = P * m + P
    BY <1>1, SMT
  <1>3. \A k \in Nat : m <= k => P * m <= P * k
    BY <1>1, MulMonotone
  <1> QED BY <1>2, <1>3 DEF Reach, Top

\* The pages of the first m tables.
LEMMA TableBelow ==
  ASSUME NEW a \in Nat, NEW m \in Nat
  PROVE  Table(a) \in Nat /\ (Table(a) < m <=> a < Reach(m))
  <1> DEFINE q == a \div P
  <1>1. q \in Nat /\ P * q <= a /\ a < P * q + P
    BY Sizes, DivBounds
  <1> HIDE DEF q
  <1>2. Reach(q) <= a /\ a < Reach(q + 1)
    BY <1>1, ReachIs DEF Reach
  <1>3. q < m => Reach(q + 1) <= Reach(m)
    BY <1>1, ReachIs
  <1>4. m <= q => Reach(m) <= Reach(q)
    BY <1>1, ReachIs
  <1>5. Reach(q) \in Nat /\ Reach(q + 1) \in Nat /\ Reach(m) \in Nat
    BY <1>1, ReachIs
  <1> QED BY <1>1, <1>2, <1>3, <1>4, <1>5 DEF q, Table

\* The first free page is where a search for one page stops, and it has a table.
LEMMA FirstFree ==
  ASSUME NEW s, NEW f, NEW m, heap_end \in 0..Top,
         Laid(s.present, s.use, heap_end, f, m)
  PROVE  f \in Pages /\ FirstProbe(s) = f /\ Table(f) \in s.present /\ s.use[f] = "none"
  <1>1. /\ m \in Nat /\ m <= NPT /\ f \in Nat /\ f < Reach(m) /\ heap_end <= f /\ heap_end \in Nat
        /\ \A a \in Pages : heap_end <= a => (s.use[a] = "none" <=> f <= a)
    BY Sizes DEF Laid
  <1>2. Reach(m) <= Top /\ Reach(m) \in Nat /\ Reach(NPT) = Top
    BY <1>1, Sizes, ReachIs
  <1>3. f \in Pages
    BY <1>1, <1>2, Sizes
  <1>4. ASSUME NEW a \in Nat, a <= f PROVE Table(a) \in s.present
    <2>1. Table(a) \in Nat /\ Table(a) < m
      BY <1>1, <1>2, <1>4, TableBelow
    <2> QED BY <1>1, <2>1 DEF Laid
  <1> DEFINE g == FirstProbe(s)
  <1>5. /\ g \in 0..Top /\ (g \in Pages => ProbeStops(s, g)) /\ g >= heap_end
        /\ \A b \in Pages : heap_end <= b /\ b < g => ~ProbeStops(s, b)
    BY FirstProbeIs
  <1> HIDE DEF g
  <1>6. ~(f < g)
    BY <1>1, <1>3, <1>5 DEF ProbeStops
  <1>7. ~(g < f)
    <2> SUFFICES ASSUME g < f PROVE FALSE
      OBVIOUS
    <2>1. g \in Pages /\ g \in Nat
      BY <1>1, <1>3, <1>5, Sizes
    <2> QED BY <1>1, <1>4, <1>5, <2>1 DEF ProbeStops
  <1>8. g = f
    BY <1>1, <1>5, <1>6, <1>7, Sizes
  <1> QED BY <1>1, <1>3, <1>4, <1>8 DEF g

\* allocate_pt stores the next table in the first free page; a table that
\* exists stays as it is.
LEMMA NextTable ==
  ASSUME NEW s \in Spaces, s.ok, NEW f, NEW m, heap_end \in 0..Top,
         Laid(s.present, s.use, heap_end, f, m), NEW k \in Nat, NEW r, r = allocate_pt(s, k)
  PROVE  /\ k < m => r = s
         /\ k = m /\ m < NPT =>
              /\ r.ok /\ Laid(r.present, r.use, heap_end, f + 1, m + 1)
              /\ r.use = [s.use EXCEPT ![f] = "table"]
              /\ Reach(m + 1) = Reach(m) + P
  <1>1. /\ m \in 1..NPT /\ f \in Nat /\ f < Reach(m) /\ heap_end <= f /\ heap_end \in Nat
        /\ s.present = 0..m - 1
        /\ \A a \in Pages : heap_end <= a => (s.use[a] = "none" <=> f <= a)
    BY Sizes DEF Laid
  <1>2. f \in Pages /\ FirstProbe(s) = f /\ Table(f) \in s.present
    BY FirstFree
  <1>3. CASE k < m
    <2>1. k \in s.present
      BY <1>1, <1>3
    <2> QED BY <1>1, <1>3, <2>1 DEF allocate_pt
  <1>4. CASE k = m /\ m < NPT
    <2> DEFINE u == [s.use EXCEPT ![f] = "table"]
    <2>1. k \notin s.present
      BY <1>1, <1>4
    <2>2. r = [present |-> s.present \cup {k}, use |-> u, ok |-> TRUE]
      BY <1>2, <2>1 DEF allocate_pt
    <2>3. \A a \in Pages : u[a] = IF a = f THEN "table" ELSE s.use[a]
      BY <1>2 DEF Spaces
    <2> HIDE DEF u
    <2>4. r.present = s.present \cup {k} /\ r.use = u /\ r.ok = TRUE
      BY <2>2
    <2>5. s.present \cup {k} = 0..(m + 1) - 1
      BY <1>1, <1>4
    <2>6. Reach(m + 1) = Reach(m) + P /\ Reach(m) \in Nat /\ P >= 1 /\ P \in Nat
      BY <1>1, ReachIs, Sizes
    <2>7. m + 1 \in 1..NPT /\ f + 1 \in Nat /\ heap_end <= f + 1 /\ f + 1 < Reach(m + 1)
      BY <1>1, <1>4, <2>6, Sizes
    <2>8. \A a \in Pages : heap_end <= a => (u[a] = "none" <=> f + 1 <= a)
      <3>1. \A a \in Pages : a \in Nat
        BY Sizes
      <3> QED BY <1>1, <2>3, <3>1
    <2>9. Laid(r.present, r.use, heap_end, f + 1, m + 1)
      BY <2>4, <2>5, <2>7, <2>8 DEF Laid
    <2> QED BY <1>4, <2>4, <2>6, <2>9, <1>1 DEF u
  <1> QED BY <1>1, <1>3, <1>4

-----------------------------------------------------------------------------
(* The calls.                                                              *)

\* The call under way and the windows that are open before and after it.
LEMMA HeadOpens ==
  ASSUME todo \in Seq(Calls), todo # << >>, NEW o, Opens(todo, o)
  PROVE  /\ Len_ \in Nat
         /\ Kind = "copy" => Len_ = 1 /\ o[1] \in {0, 1} /\ o[2] = o[1] + 1
         /\ Kind = "unmap" => Len_ = 2 /\ o[1] = 2 /\ o[2] = 0
         /\ Kind \in {"brk", "safe", "window"} => o[1] = 0 /\ o[2] = 0
  <1>1. Len(todo) \in Nat /\ Len(todo) >= 1 /\ Head(todo) = todo[1] /\ Head(todo) \in Calls
    BY HeadTailProperties, EmptySeq
  <1>2. 1 \in 1..Len(todo) /\ 1 + 1 = 2
    BY <1>1
  <1>3. \/ Kind = "copy" /\ Len_ = 1 /\ o[1] \in {0, 1} /\ o[2] = o[1] + 1
        \/ Kind = "unmap" /\ Len_ = 2 /\ o[1] = 2 /\ o[2] = 0
        \/ Kind \in {"brk", "safe", "window"} /\ o[1] = 0 /\ o[2] = 0
    BY <1>1, <1>2 DEF Opens, Kind, Len_
  <1>4. Len_ \in Nat
    BY <1>1 DEF Len_, Calls
  <1> QED BY <1>3, <1>4

\* A call that is done is followed by one that asks for at least one page.
LEMMA TailOpens ==
  ASSUME NEW t \in Seq(Calls), t # << >>, NEW o, Opens(t, o)
  PROVE  /\ \E q : Opens(Tail(t), q) /\ q[1] = o[2]
         /\ Tail(t) # << >> => Head(Tail(t)).len >= 1
  <1> DEFINE u == Tail(t)
             q == [n \in 1..Len(t) |-> o[n + 1]]
  <1>1. Len(t) \in Nat /\ Len(t) >= 1
    BY EmptySeq
  <1>2. /\ u \in Seq(Calls) /\ Len(u) = Len(t) - 1
        /\ \A n \in 1..Len(u) : u[n] = t[n + 1]
    BY HeadTailProperties
  <1>3. u # << >> => Len(u) >= 1 /\ Len(u) \in Nat /\ Head(u) = u[1]
    BY <1>2, HeadTailProperties, EmptySeq
  <1> HIDE DEF u
  <1>4. \A n \in 1..Len(t) : q[n] = o[n + 1]
    OBVIOUS
  <1> HIDE DEF q
  <1>5. q[1] = o[2]
    BY <1>1, <1>4
  <1>6. ASSUME NEW n \in 1..Len(u)
        PROVE  /\ u[n] = t[n + 1] /\ q[n] = o[n + 1] /\ q[n + 1] = o[(n + 1) + 1]
               /\ n + 1 \in 1..Len(t) /\ n + 1 \in 2..Len(t)
    <2>1. n + 1 \in 1..Len(t) /\ n \in 1..Len(t) /\ n + 1 \in 2..Len(t)
      BY <1>1, <1>2
    <2> QED BY <1>2, <1>4, <2>1
  <1>7. q[Len(u) + 1] = 0
    <2>1. Len(u) + 1 = Len(t) /\ Len(t) \in 1..Len(t)
      BY <1>1, <1>2
    <2> QED BY <1>4, <2>1 DEF Opens
  <1>8. \A n \in 1..Len(u) :
          \/ u[n].kind = "copy" /\ u[n].len = 1 /\ q[n] \in {0, 1} /\ q[n + 1] = q[n] + 1
          \/ u[n].kind = "unmap" /\ u[n].len = 2 /\ q[n] = 2 /\ q[n + 1] = 0
          \/ u[n].kind \in {"brk", "safe", "window"} /\ q[n] = 0 /\ q[n + 1] = 0
    BY <1>6 DEF Opens
  <1>9. \A n \in 1..Len(u) : u[n].len >= 1
    BY <1>6 DEF Opens
  <1>10. \A n \in 2..Len(u) : u[n].len >= 1
    <2>1. \A n \in 2..Len(u) : n \in 1..Len(u)
      BY <1>1, <1>2
    <2> QED BY <1>9, <2>1
  <1>11. Opens(u, q)
    BY <1>7, <1>8, <1>10 DEF Opens
  <1>12. u # << >> => Head(u).len >= 1
    BY <1>3, <1>9
  <1> QED BY <1>5, <1>11, <1>12 DEF u

\* c is the a calls s and then the b calls t.
IsJoined(c, s, a, t, b) ==
  /\ c \in Seq(Calls) /\ Len(c) = a + b
  /\ \A n \in 1..(a + b) : c[n] = IF n <= a THEN s[n] ELSE t[n - a]

\* What one list of calls after another consists of.
LEMMA Joined ==
  ASSUME NEW s \in Seq(Calls), NEW t \in Seq(Calls), NEW a, a = Len(s), NEW b, b = Len(t),
         NEW c, c = s \o t
  PROVE  IsJoined(c, s, a, t, b)
  BY ConcatProperties DEF IsJoined

\* The kernel's calls open and close windows in turn, and none asks for no page
\* but ksbrk at boot.
LEMMA ScriptsOpen ==
  /\ \A c \in Scripts : \E o : Opens(c, o) /\ o[1] = 0 /\ c # << >> /\ Head(c).len >= 1
  /\ \E o : /\ Opens(<<Call("brk", 0)>> \o mmu_update_stack, o) /\ o[1] = 0
            /\ <<Call("brk", 0)>> \o mmu_update_stack # << >>
            /\ Head(<<Call("brk", 0)>> \o mmu_update_stack) = Call("brk", 0)
  <1>1. ASSUME NEW k \in {"brk", "window"}, NEW n \in Nat \ {0}, NEW c, c = <<Call(k, n)>>
        PROVE  \E o : Opens(c, o) /\ o[1] = 0 /\ c # << >> /\ Head(c).len >= 1
    <2> DEFINE o == <<0, 0>>
    <2>1. Len(c) = 1 /\ c[1] = Call(k, n) /\ c # << >> /\ Head(c) = Call(k, n)
      BY <1>1
    <2>2. Call(k, n).kind = k /\ Call(k, n).len = n
      BY DEF Call
    <2>3. Opens(c, o)
      BY <2>1, <2>2 DEF Opens
    <2> QED BY <2>1, <2>2, <2>3
  <1>2. ASSUME NEW c, c = mmu_clone_directory
        PROVE  \E o : Opens(c, o) /\ o[1] = 0 /\ c # << >> /\ Head(c).len >= 1
    <2> DEFINE N == StackPages * 3
               d == [n \in 1..N |-> copy_frame[((n - 1) % 3) + 1]]
               o == [n \in 1..(N + 6) |-> IF n <= 5 THEN 0 ELSE (n - 6) % 3]
    <2>1. N \in Nat /\ StackPages \in Nat
      BY SizesAssumption
    <2>2. /\ copy_frame[1] = Call("copy", 1) /\ copy_frame[2] = Call("copy", 1)
          /\ copy_frame[3] = Call("unmap", 2)
      BY DEF copy_frame
    <2> DEFINE A == <<Call("brk", 1), Call("safe", 2), Call("safe", 2), Call("safe", 2)>>
               D == <<Call("safe", 1)>>
    <2>3. clone_pt = D \o d /\ c = A \o clone_pt
      BY <1>2 DEF mmu_clone_directory, clone_pt
    <2>4. A \in Seq(Calls) /\ D \in Seq(Calls) /\ Len(A) = 4 /\ Len(D) = 1
      <3>1. \A k \in MapKinds \cup {"unmap"}, n \in Nat : Call(k, n) \in Calls
        BY DEF Call, Calls
      <3> QED BY <3>1 DEF MapKinds
    <2>5. d \in Seq(Calls) /\ Len(d) = N /\ \A n \in 1..N : d[n] = copy_frame[((n - 1) % 3) + 1]
      <3>1. copy_frame \in [1..3 -> Calls]
        BY DEF Call, Calls, copy_frame, MapKinds
      <3> HIDE DEF N
      <3>2. \A n \in Nat : n >= 1 => ((n - 1) % 3) + 1 \in 1..3
        OBVIOUS
      <3>3. \A n \in 1..N : copy_frame[((n - 1) % 3) + 1] \in Calls
        BY <2>1, <3>1, <3>2
      <3> QED BY <2>1, <3>3
    <2>6. /\ A[1] = Call("brk", 1) /\ A[2] = Call("safe", 2) /\ A[3] = Call("safe", 2)
          /\ A[4] = Call("safe", 2) /\ D[1] = Call("safe", 1)
      OBVIOUS
    <2>7. \A n \in 1..(N + 6) : o[n] = IF n <= 5 THEN 0 ELSE (n - 6) % 3
      OBVIOUS
    <2> HIDE DEF A, D, d, N, o
    <2>8. /\ clone_pt \in Seq(Calls) /\ Len(clone_pt) = N + 1 /\ clone_pt[1] = Call("safe", 1)
          /\ \A n \in 2..(N + 1) : clone_pt[n] = copy_frame[((n - 2) % 3) + 1]
      <3>1. /\ Len(D \o d) = 1 + N
            /\ \A n \in 1..(1 + N) : (D \o d)[n] = IF n <= 1 THEN D[n] ELSE d[n - 1]
        <4>1. D \in Seq(Calls) /\ d \in Seq(Calls) /\ 1 = Len(D) /\ N = Len(d)
          BY <2>4, <2>5
        <4>2. IsJoined(D \o d, D, 1, d, N)
          BY <4>1, Joined
        <4> QED BY <4>2 DEF IsJoined
      <3>2. \A n \in 2..(N + 1) : n - 1 \in 1..N /\ (n - 1) - 1 = n - 2 /\ n \in 1..(1 + N)
        BY <2>1
      <3>3. clone_pt \in Seq(Calls)
        BY <2>3, <2>4, <2>5, ConcatProperties
      <3>4. clone_pt[1] = D[1]
        BY <2>1, <2>3, <3>1
      <3>5. ASSUME NEW n \in 2..(N + 1) PROVE clone_pt[n] = copy_frame[((n - 2) % 3) + 1]
        <4>1. clone_pt[n] = d[n - 1]
          BY <2>1, <2>3, <3>1, <3>2
        <4> QED BY <2>5, <3>2, <4>1
      <3>6. Len(clone_pt) = N + 1
        BY <2>1, <2>3, <3>1
      <3> QED BY <2>6, <3>3, <3>4, <3>5, <3>6
    <2>9. /\ Len(c) = N + 5 /\ c \in Seq(Calls)
          /\ \A n \in 1..(N + 5) : c[n] = IF n <= 4 THEN A[n] ELSE clone_pt[n - 4]
      <3>1. /\ A \o clone_pt \in Seq(Calls) /\ Len(A \o clone_pt) = 4 + (N + 1)
            /\ \A n \in 1..(4 + (N + 1)) :
                 (A \o clone_pt)[n] = IF n <= 4 THEN A[n] ELSE clone_pt[n - 4]
        <4>1. A \in Seq(Calls) /\ clone_pt \in Seq(Calls) /\ 4 = Len(A) /\ N + 1 = Len(clone_pt)
          BY <2>4, <2>8
        <4>2. IsJoined(A \o clone_pt, A, 4, clone_pt, N + 1)
          BY <4>1, Joined
        <4> QED BY <4>2 DEF IsJoined
      <3>2. 4 + (N + 1) = N + 5
        BY <2>1
      <3> QED BY <2>3, <3>1, <3>2
    <2>10. /\ c[1] = Call("brk", 1) /\ c[2] = Call("safe", 2) /\ c[3] = Call("safe", 2)
           /\ c[4] = Call("safe", 2) /\ c[5] = Call("safe", 1)
      BY <2>1, <2>6, <2>8, <2>9
    <2>11. ASSUME NEW n \in 6..(N + 5) PROVE c[n] = copy_frame[((n - 6) % 3) + 1]
      <3>1. n - 4 \in 2..(N + 1) /\ (n - 4) - 2 = n - 6 /\ n \in 1..(N + 5) /\ ~(n <= 4)
        BY <2>1
      <3> QED BY <2>8, <2>9, <3>1
    <2>12. \A k, n : Call(k, n).kind = k /\ Call(k, n).len = n
      BY DEF Call
    <2>13. o[(N + 5) + 1] = 0
      <3>1. N % 3 = 0
        BY <2>1 DEF N
      <3> QED BY <2>1, <2>7, <3>1
    <2>14. ASSUME NEW n \in 1..(N + 5)
           PROVE  /\ c[n].len >= 1
                  /\ \/ c[n].kind = "copy" /\ c[n].len = 1 /\ o[n] \in {0, 1} /\ o[n + 1] = o[n] + 1
                     \/ c[n].kind = "unmap" /\ c[n].len = 2 /\ o[n] = 2 /\ o[n + 1] = 0
                     \/ c[n].kind \in {"brk", "safe", "window"} /\ o[n] = 0 /\ o[n + 1] = 0
      <3>0. o[n] = (IF n <= 5 THEN 0 ELSE (n - 6) % 3) /\ o[n + 1] = (IF n + 1 <= 5 THEN 0 ELSE ((n + 1) - 6) % 3)
        BY <2>1, <2>7
      <3>1. CASE n \in {1, 2, 3, 4, 5}
        <4>1. o[n] = 0 /\ o[n + 1] = 0
          BY <3>0, <3>1
        <4> QED BY <2>10, <2>12, <3>1, <4>1
      <3>2. CASE n \in 6..(N + 5)
        <4> DEFINE j == n - 6
        <4>1. j \in Nat /\ o[n] = j % 3 /\ o[n + 1] = (j + 1) % 3 /\ c[n] = copy_frame[(j % 3) + 1]
          BY <2>1, <2>11, <3>0, <3>2
        <4> HIDE DEF j
        <4>2. \/ j % 3 = 0 /\ (j + 1) % 3 = 1
              \/ j % 3 = 1 /\ (j + 1) % 3 = 2
              \/ j % 3 = 2 /\ (j + 1) % 3 = 0
          BY <4>1
        <4> QED BY <2>2, <2>12, <4>1, <4>2
      <3> QED BY <2>1, <3>1, <3>2
    <2>15. \A n \in 2..Len(c) : c[n].len >= 1
      BY <2>1, <2>9, <2>14
    <2>16. Opens(c, o)
      BY <2>9, <2>13, <2>14, <2>15 DEF Opens
    <2>17. c # << >> /\ Head(c) = c[1] /\ o[1] = 0 /\ c[1].len >= 1
      <3>1. 1 \in 1..(N + 5) /\ 1 \in 1..(N + 6)
        BY <2>1
      <3>2. c # << >>
        BY <2>1, <2>9, EmptySeq
      <3> QED BY <2>7, <2>9, <2>14, <3>1, <3>2, HeadTailProperties
    <2> QED BY <2>16, <2>17
  <1>3. ASSUME NEW c, c = <<Call("brk", 0)>> \o mmu_update_stack
        PROVE  \E o : Opens(c, o) /\ o[1] = 0 /\ c # << >> /\ Head(c) = Call("brk", 0)
    <2> DEFINE o == <<0, 0, 0, 0, 0>>
    <2>1. c = <<Call("brk", 0), Call("safe", 2), Call("safe", 2), Call("safe", 1)>>
      <3> DEFINE A == <<Call("brk", 0)>>
                 D == <<Call("safe", 2), Call("safe", 2), Call("safe", 1)>>
                 E == <<Call("brk", 0), Call("safe", 2), Call("safe", 2), Call("safe", 1)>>
      <3>1. \A k \in MapKinds \cup {"unmap"}, n \in Nat : Call(k, n) \in Calls
        BY DEF Call, Calls
      <3>2. /\ A \in Seq(Calls) /\ D \in Seq(Calls) /\ E \in Seq(Calls) /\ Len(A) = 1
            /\ Len(D) = 3 /\ Len(E) = 4
            /\ \A n \in 1..4 : E[n] = IF n <= 1 THEN A[n] ELSE D[n - 1]
        BY <3>1 DEF MapKinds
      <3>3. c = A \o D
        BY <1>3 DEF mmu_update_stack
      <3> HIDE DEF A, D, E
      <3>4. /\ c \in Seq(Calls) /\ Len(c) = 4
            /\ \A n \in 1..4 : c[n] = IF n <= 1 THEN A[n] ELSE D[n - 1]
        <4>1. /\ A \o D \in Seq(Calls) /\ Len(A \o D) = 1 + 3
              /\ \A n \in 1..(1 + 3) : (A \o D)[n] = IF n <= 1 THEN A[n] ELSE D[n - 1]
          <5>1. A \in Seq(Calls) /\ D \in Seq(Calls) /\ 1 = Len(A) /\ 3 = Len(D)
            BY <3>2
          <5>2. IsJoined(A \o D, A, 1, D, 3)
            BY <5>1, Joined
          <5> QED BY <5>2 DEF IsJoined
        <4> QED BY <3>3, <4>1
      <3>5. c = E
        BY <3>2, <3>4, SeqEqual
      <3> QED BY <3>5 DEF E
    <2>2. /\ Len(c) = 4 /\ c # << >> /\ Head(c) = Call("brk", 0) /\ c[1] = Call("brk", 0)
          /\ c[2] = Call("safe", 2) /\ c[3] = Call("safe", 2) /\ c[4] = Call("safe", 1)
      BY <2>1
    <2>3. \A k, n : Call(k, n).kind = k /\ Call(k, n).len = n
      BY DEF Call
    <2>4. Opens(c, o)
      BY <2>2, <2>3 DEF Opens
    <2> QED BY <2>2, <2>4
  <1>4. \A c \in Scripts : \E o : Opens(c, o) /\ o[1] = 0 /\ c # << >> /\ Head(c).len >= 1
    <2> SUFFICES ASSUME NEW c \in Scripts
                 PROVE  \E o : Opens(c, o) /\ o[1] = 0 /\ c # << >> /\ Head(c).len >= 1
      OBVIOUS
    <2>1. CASE \E n \in BrkSizes : c = <<Call("brk", n)>>
      BY <1>1, <2>1, SizesAssumption
    <2>2. CASE \E n \in MapSizes : c = <<Call("window", n)>>
      BY <1>1, <2>2, SizesAssumption
    <2>3. CASE c = mmu_clone_directory
      BY <1>2, <2>3
    <2> QED BY <2>1, <2>2, <2>3 DEF Scripts
  <1> QED BY <1>3, <1>4

-----------------------------------------------------------------------------
(* The calls keep the room.                                                *)

\* The numbers that the steps below calculate with.
LEMMA Numbers ==
  ASSUME IInv, NEW f, NEW m, NEW o, SInv(f, m, o)
  PROVE  /\ heap_end \in Nat /\ f \in Nat /\ m \in Nat /\ 1 <= m /\ m <= NPT /\ NPT \in Nat
         /\ heap_end <= f /\ f < Reach(m) /\ Reach(m) \in Nat /\ Reach(m) <= Top
         /\ Top \in Nat /\ Pages = 0..Top - 1
         /\ offset \in Nat /\ i \in Nat /\ base \in Nat /\ charge \in Int
         /\ P \in Nat /\ 1 <= P /\ Budget \in Nat
  <1>1. /\ heap_end \in 0..Top /\ f \in Nat /\ m \in 1..NPT /\ heap_end <= f /\ f < Reach(m)
        /\ offset \in Nat /\ i \in Nat /\ base \in Nat /\ charge \in Int
    BY DEF IInv, Types, SInv, Laid, Room
  <1>2. Top \in Nat /\ P \in Nat /\ 1 <= P /\ NPT \in Nat /\ Budget \in Nat /\ Pages = 0..Top - 1
    BY Sizes, SizesAssumption
  <1>3. m \in Nat /\ 1 <= m /\ m <= NPT /\ heap_end \in Nat
    BY <1>1, <1>2
  <1>4. Reach(m) \in Nat /\ Reach(m) <= Top
    BY <1>2, <1>3, ReachIs
  <1> QED BY <1>1, <1>2, <1>3, <1>4

\* At boot one page is left in the only table, and ksbrk(0) comes first.
LEMMA InitSafe == Init => Safe
  <1> SUFFICES ASSUME Init PROVE Safe
    OBVIOUS
  <1>1. /\ present = {0} /\ heap_end = KernelEnd /\ pc = "idle"
        /\ use = [a \in Pages |-> IF a < P - 1 THEN "boot" ELSE "none"]
        /\ todo = <<Call("brk", 0)>> \o mmu_update_stack
        /\ offset = 0 /\ i = 0 /\ base = 0 /\ charge = 0
    BY DEF Init
  <1>2. PICK o : Opens(todo, o) /\ o[1] = 0 /\ todo # << >> /\ Head(todo) = Call("brk", 0)
    BY <1>1, ScriptsOpen
  <1>3. Kind = "brk" /\ Len_ = 0
    BY <1>2 DEF Kind, Len_, Call
  <1>4. /\ P \in Nat /\ 1 <= P /\ NPT \in Nat /\ 1 <= NPT /\ Budget \in Nat /\ Pages = 0..Top - 1
        /\ Top \in Nat /\ heap_end \in 0..P - 1 /\ P - 1 \in Nat
    BY <1>1, Sizes, SizesAssumption
  <1>5. Reach(1) = P
    BY <1>4 DEF Reach
  <1>6. Laid(present, use, heap_end, P - 1, 1)
    <2>1. \A a \in Pages : heap_end <= a => (use[a] = "none" <=> P - 1 <= a)
      BY <1>1, <1>4
    <2>2. 1 \in 1..NPT /\ heap_end <= P - 1 /\ P - 1 < Reach(1) /\ present = 0..1 - 1
      BY <1>1, <1>4, <1>5
    <2> QED BY <1>4, <2>1, <2>2 DEF Laid
  <1>7. Room(P - 1, 1)
    BY <1>1, <1>2, <1>3, <1>4 DEF Room, Extending
  <1>8. Place(P - 1, 1)
    <2>1. Table(heap_end) \in Nat
      BY <1>4, TableBelow
    <2> QED BY <1>1, <1>3, <2>1 DEF Place
  <1>9. Windows(P - 1, Open(o))
    <2>1. Open(o) = 0
      BY <1>1, <1>2 DEF Open
    <2>2. \A a \in Pages : use[a] # "copy" /\ ~(P - 1 - 0 <= a /\ a < P - 1)
      BY <1>1, <1>4
    <2> QED BY <1>4, <2>1, <2>2 DEF Windows
  <1> QED BY <1>1, <1>2, <1>6, <1>7, <1>8, <1>9 DEF Safe, SInv

\* The next call of the kernel finds the windows closed.
LEMMA KernelCallSafe == IInv /\ Safe /\ KernelCall => Safe'
  <1> SUFFICES ASSUME IInv, Safe, KernelCall PROVE Safe'
    OBVIOUS
  <1>1. PICK f, m, o : SInv(f, m, o)
    BY DEF Safe
  <1>2. /\ pc = "idle" /\ todo = << >> /\ todo' \in Scripts
        /\ UNCHANGED <<present, use, heap_end, pc, offset, i, base, round, charge>>
    BY DEF KernelCall, space, loop
  <1>3. PICK q : Opens(todo', q) /\ q[1] = 0 /\ todo' # << >> /\ Head(todo').len >= 1
    BY <1>2, ScriptsOpen
  <1>4. o[1] = 0
    BY <1>1, <1>2 DEF SInv, Opens
  <1>5. Open(o) = 0 /\ Open(q)' = 0
    BY <1>2, <1>3, <1>4 DEF Open
  <1>6. Laid(present, use, heap_end, f, m)' /\ Windows(f, Open(q))'
    BY <1>1, <1>2, <1>5 DEF SInv, Laid, Windows
  <1>7. Room(f, m)'
    <2>1. ~Extending /\ Owed = 0 /\ Owed' = 0
      BY <1>2 DEF Extending, Owed
    <2> QED BY <1>1, <1>2, <2>1 DEF SInv, Room
  <1>8. Place(f, m)'
    <2>1. ~(Len_' = 0)
      BY <1>3 DEF Len_
    <2> QED BY <1>2, <2>1 DEF Place
  <1>9. SInv(f, m, q)'
    BY <1>2, <1>3, <1>6, <1>7, <1>8 DEF SInv
  <1> QED BY <1>9 DEF Safe

\* A call begins its search at heap_end and is charged for its pages.
LEMMA BeginSafe == IInv /\ Safe /\ Begin => Safe'
  <1> SUFFICES ASSUME IInv, Safe, Begin PROVE Safe'
    OBVIOUS
  <1>1. PICK f, m, o : SInv(f, m, o)
    BY DEF Safe
  <1>2. /\ pc = "idle" /\ todo # << >> /\ pc' = "find" /\ round' = 1 /\ offset' = 0 /\ i' = 0
        /\ charge' = (IF Kind = "brk" THEN Len_ ELSE charge + Len_) /\ charge' <= Budget
        /\ UNCHANGED <<present, use, heap_end, todo, base>>
    BY DEF Begin, space, Kind, Len_
  <1>3. /\ heap_end \in Nat /\ f \in Nat /\ heap_end <= f /\ charge \in Int /\ P \in Nat
        /\ Reach(m) \in Nat
    BY <1>1, Numbers
  <1>4. Len_ \in Nat /\ Len_' = Len_ /\ Kind' = Kind
    <2>1. todo \in Seq(Calls) /\ Opens(todo, o)
      BY <1>1 DEF IInv, Types, SInv
    <2>2. Len_ \in Nat
      BY <1>2, <2>1, HeadOpens
    <2> QED BY <1>2, <2>2 DEF Len_, Kind
  <1>5. Open(o)' = Open(o)
    BY <1>2 DEF Open
  <1>6. Laid(present, use, heap_end, f, m)' /\ Windows(f, Open(o))' /\ Opens(todo, o)'
    BY <1>1, <1>2, <1>5 DEF SInv, Laid, Windows, Opens
  <1>7. Room(f, m)'
    <2>1. CASE Kind = "brk"
      BY <1>2, <1>3, <1>4, <2>1 DEF Room, Extending
    <2>2. CASE Kind # "brk"
      <3>1. Reach(m) - f >= P - charge + 0
        BY <1>1, <1>2, <2>2 DEF SInv, Room, Extending, Owed
      <3>2. Owed' = Len_ /\ charge' = charge + Len_
        BY <1>2, <1>4, <2>2 DEF Owed
      <3>3. Reach(m) - f >= P - charge' + Owed'
        BY <1>3, <1>4, <3>1, <3>2
      <3> QED BY <1>2, <1>3, <1>4, <2>2, <3>2, <3>3 DEF Room
    <2> QED BY <2>1, <2>2
  <1>8. Place(f, m)'
    <2>1. 0 <= Len_ /\ heap_end + 0 <= f /\ ~(0 > 0)
      BY <1>3, <1>4
    <2>2. Len_ = 0 => Kind = "brk" /\ Table(heap_end) + 1 >= m
      BY <1>1, <1>2 DEF SInv, Place
    <2> QED BY <1>2, <1>4, <2>1, <2>2 DEF Place
  <1>9. SInv(f, m, o)'
    BY <1>2, <1>6, <1>7, <1>8 DEF SInv
  <1> QED BY <1>9 DEF Safe

\* The windows of copy_frame are closed, and their pages given back.
LEMMA mmu_unmap_framesSafe == IInv /\ Safe /\ mmu_unmap_frames => Safe'
  <1> SUFFICES ASSUME IInv, Safe, mmu_unmap_frames PROVE Safe'
    OBVIOUS
  <1>1. PICK f, m, o : SInv(f, m, o)
    BY DEF Safe
  <1>2. /\ pc = "idle" /\ todo # << >> /\ Kind = "unmap"
        /\ use' = [a \in Pages |-> IF use[a] = "copy" THEN "none" ELSE use[a]]
        /\ charge' = charge - Len_ /\ todo' = Tail(todo)
        /\ UNCHANGED <<present, heap_end, pc, round, offset, i, base>>
    BY DEF mmu_unmap_frames, loop, Kind, Len_
  <1>3. /\ heap_end \in Nat /\ f \in Nat /\ heap_end <= f /\ charge \in Int /\ P \in Nat
        /\ Reach(m) \in Nat /\ f < Reach(m) /\ Pages = 0..Top - 1 /\ Top \in Nat /\ Budget \in Nat
    BY <1>1, Numbers
  <1>4. todo \in Seq(Calls) /\ Opens(todo, o)
    BY <1>1 DEF IInv, Types, SInv
  <1>5. Len_ = 2 /\ o[1] = 2 /\ o[2] = 0
    BY <1>2, <1>4, HeadOpens
  <1>6. /\ \E q : Opens(Tail(todo), q) /\ q[1] = o[2]
        /\ Tail(todo) # << >> => Head(Tail(todo)).len >= 1
    BY <1>2, <1>4, TailOpens
  <1>7. PICK q : Opens(todo', q) /\ q[1] = 0
    BY <1>2, <1>5, <1>6
  <1>8. Open(o) = 2 /\ Open(q)' = 0
    BY <1>2, <1>5, <1>7 DEF Open
  <1>9. heap_end <= f - 2 /\ \A a \in Pages : use[a] = "copy" <=> f - 2 <= a /\ a < f
    BY <1>1, <1>8 DEF SInv, Windows
  <1>10. \A a \in Pages : heap_end <= a => (use[a] = "none" <=> f <= a)
    BY <1>1 DEF SInv, Laid
  <1>11. Laid(present, use, heap_end, f - 2, m)'
    <2>1. \A a \in Pages : heap_end <= a => (use'[a] = "none" <=> f - 2 <= a)
      BY <1>2, <1>3, <1>9, <1>10
    <2>2. f - 2 \in Nat /\ f - 2 < Reach(m)
      BY <1>3, <1>9
    <2> QED BY <1>1, <1>2, <1>9, <2>1, <2>2 DEF SInv, Laid
  <1>12. Windows(f - 2, Open(q))'
    <2>1. \A a \in Pages : use'[a] # "copy" /\ ~(f - 2 - 0 <= a /\ a < f - 2)
      BY <1>2, <1>3
    <2> QED BY <1>2, <1>3, <1>8, <1>9, <2>1 DEF Windows
  <1>13. Room(f - 2, m)'
    <2>1. Reach(m) - f >= P - charge + 0 /\ charge <= Budget
      BY <1>1, <1>2 DEF SInv, Room, Extending, Owed
    <2>2. Owed' = 0
      BY <1>2 DEF Owed
    <2>3. Reach(m) - (f - 2) >= P - charge' + Owed' /\ charge' \in Int /\ charge' <= Budget
      BY <1>2, <1>3, <1>5, <2>1, <2>2
    <2> QED BY <1>2, <2>3 DEF Room
  <1>14. Place(f - 2, m)'
    <2>1. todo' # << >> => ~(Len_' = 0)
      BY <1>2, <1>6 DEF Len_
    <2> QED BY <1>2, <2>1 DEF Place
  <1>15. SInv(f - 2, m, q)'
    BY <1>2, <1>7, <1>11, <1>12, <1>13, <1>14 DEF SInv
  <1> QED BY <1>15 DEF Safe

-----------------------------------------------------------------------------
(* The searches keep the room.                                             *)

\* The address space as allocate_pt finds it.
LEMMA SpaceLaid ==
  ASSUME IInv, NEW f, NEW m, NEW o, SInv(f, m, o)
  PROVE  /\ Space \in Spaces /\ Space.ok /\ Space.present = present /\ Space.use = use
         /\ Laid(Space.present, Space.use, heap_end, f, m) /\ heap_end \in 0..Top
         /\ todo \in Seq(Calls) /\ Opens(todo, o)
  <1>1. Types /\ heap_end \in 0..Top /\ todo \in Seq(Calls)
    BY DEF IInv, Types
  <1>2. Space \in Spaces /\ Space.present = present /\ Space.use = use
    BY <1>1, SpaceIs
  <1>3. Space.ok = TRUE
    BY DEF Space
  <1> QED BY <1>1, <1>2, <1>3 DEF SInv

\* A probe beyond the last table is the first of its table, and is made by the
\* first search of ksbrk only.
LEMMA ProbeBeyond ==
  ASSUME Budget < P, IInv, NEW f, NEW m, NEW o, SInv(f, m, o), pc = "find", i < Len_,
         heap_end + offset + i \in Pages, ~(heap_end + offset + i < Reach(m))
  PROVE  /\ i > 0 /\ heap_end + offset = f /\ heap_end + offset + i = Reach(m)
         /\ Kind = "brk" /\ round = 1 /\ m < NPT /\ Table(heap_end + offset + i) = m
  <1>1. /\ heap_end \in Nat /\ f \in Nat /\ heap_end <= f /\ charge \in Int /\ P \in Nat /\ 1 <= P
        /\ Reach(m) \in Nat /\ f < Reach(m) /\ Pages = 0..Top - 1 /\ Top \in Nat /\ Budget \in Nat
        /\ offset \in Nat /\ i \in Nat /\ m \in Nat /\ m <= NPT /\ NPT \in Nat
    BY Numbers
  <1>2. todo # << >> /\ Len_ \in Nat
    <2>1. todo \in Seq(Calls) /\ Opens(todo, o) /\ todo # << >>
      BY SpaceLaid DEF IInv, Busy
    <2> QED BY <2>1, HeadOpens
  <1>3. /\ heap_end + offset <= f /\ charge <= Budget
        /\ i > 0 => \/ heap_end + offset = f /\ f + i <= Reach(m)
                    \/ /\ Kind = "brk" /\ round = 1
                       /\ heap_end + offset = f - 1 /\ Reach(m) - f >= P
        /\ Kind = "brk" => charge = Len_
        /\ ~(Kind = "brk" /\ round = 1) => Reach(m) - f >= P - charge + Len_
    BY DEF SInv, Place, Room, Extending, Owed
  <1>4. i > 0
    BY <1>1, <1>3
  <1>5. ~(Kind = "brk" /\ heap_end + offset = f - 1 /\ Reach(m) - f >= P)
    BY <1>1, <1>2, <1>3
  <1>6. heap_end + offset = f /\ f + i <= Reach(m)
    BY <1>3, <1>4, <1>5
  <1>7. heap_end + offset + i = Reach(m)
    BY <1>1, <1>6
  <1>8. Kind = "brk" /\ round = 1
    <2> SUFFICES ASSUME ~(Kind = "brk" /\ round = 1) PROVE FALSE
      OBVIOUS
    <2>1. Reach(m) - f > Len_
      BY <1>1, <1>2, <1>3
    <2> QED BY <1>1, <1>2, <1>6, <1>7, <2>1
  <1>9. m < NPT
    <2>1. Reach(NPT) = Top
      BY <1>1, ReachIs
    <2>2. Reach(m) < Top
      BY <1>1, <1>7
    <2>3. m # NPT
      BY <1>1, <2>1, <2>2
    <2> QED BY <1>1, <2>3
  <1>10. Table(heap_end + offset + i) = m
    <2> DEFINE a == heap_end + offset + i
    <2>1. a \in Nat /\ a = Reach(m) /\ Reach(m + 1) = Reach(m) + P /\ m + 1 \in Nat
      BY <1>1, <1>7, ReachIs
    <2> HIDE DEF a
    <2>2. a < Reach(m + 1)
      BY <1>1, <2>1
    <2>3. Table(a) \in Nat /\ ~(Table(a) < m) /\ Table(a) < m + 1
      BY <1>1, <2>1, <2>2, TableBelow
    <2>4. Table(a) = m
      BY <1>1, <2>3
    <2> QED BY <2>4 DEF a
  <1> QED BY <1>4, <1>6, <1>7, <1>8, <1>9, <1>10

\* A probe finds a table, or makes the next one, never without a page for it.
LEMMA FindProbeSafe == Budget < P /\ IInv /\ Safe /\ FindProbe => Safe'
  <1> SUFFICES ASSUME Budget < P, IInv, Safe, FindProbe PROVE Safe'
    OBVIOUS
  <1>1. PICK f, m, o : SInv(f, m, o)
    BY DEF Safe
  <1> DEFINE a == heap_end + offset + i
             s == allocate_pt(Space, Table(a))
  <1>2. /\ pc = "find" /\ i < Len_ /\ a \in Pages
        /\ \/ ~s.ok
           \/ /\ s.ok /\ present' = s.present /\ use' = s.use
              /\ \/ s.use[a] = "none" /\ i' = i + 1 /\ offset' = offset
                 \/ s.use[a] # "none" /\ i' = 0 /\ offset' = offset + 1
              /\ UNCHANGED <<heap_end, todo, pc, round, base, charge>>
    BY DEF FindProbe
  <1>3. /\ heap_end \in Nat /\ f \in Nat /\ heap_end <= f /\ charge \in Int /\ P \in Nat /\ 1 <= P
        /\ Reach(m) \in Nat /\ f < Reach(m) /\ Pages = 0..Top - 1 /\ Top \in Nat
        /\ offset \in Nat /\ i \in Nat /\ m \in Nat
    BY <1>1, Numbers
  <1>4. /\ Space \in Spaces /\ Space.ok /\ Space.present = present /\ Space.use = use
        /\ Laid(Space.present, Space.use, heap_end, f, m) /\ heap_end \in 0..Top
        /\ todo \in Seq(Calls) /\ Opens(todo, o)
    BY <1>1, SpaceLaid
  <1>5. todo # << >> /\ Len_ \in Nat /\ Table(a) \in Nat /\ a \in Nat
    <2>1. todo # << >>
      BY <1>2 DEF IInv, Busy
    <2>2. Len_ \in Nat
      BY <1>4, <2>1, HeadOpens
    <2>3. a \in Nat
      BY <1>3
    <2> HIDE DEF a
    <2> QED BY <1>3, <2>1, <2>2, <2>3, TableBelow
  <1>6. /\ heap_end + offset <= f
        /\ i > 0 => \/ heap_end + offset = f /\ f + i <= Reach(m)
                    \/ /\ Kind = "brk" /\ round = 1
                       /\ heap_end + offset = f - 1 /\ Reach(m) - f >= P
    BY <1>1, <1>2 DEF SInv, Place
  <1>7. \A b \in Pages : heap_end <= b => (use[b] = "none" <=> f <= b)
    BY <1>1 DEF SInv, Laid
  <1>8. CASE a < Reach(m)
    <2>1. s = Space
      <3>1. Table(a) < m
        BY <1>3, <1>5, <1>8, TableBelow
      <3> QED BY <1>4, <1>5, <3>1, NextTable
    <2>2. /\ present' = present /\ use' = use
          /\ \/ use[a] = "none" /\ i' = i + 1 /\ offset' = offset
             \/ use[a] # "none" /\ i' = 0 /\ offset' = offset + 1
          /\ UNCHANGED <<heap_end, todo, pc, round, base, charge>>
      <3> HIDE DEF s
      <3> QED BY <1>2, <1>4, <2>1
    <2>3. use[a] = "none" <=> f <= a
      BY <1>2, <1>3, <1>7
    <2>4. /\ i' <= Len_ /\ heap_end + offset' <= f
          /\ i' > 0 => \/ heap_end + offset' = f /\ f + i' <= Reach(m)
                       \/ /\ Kind = "brk" /\ round = 1
                          /\ heap_end + offset' = f - 1 /\ Reach(m) - f >= P
      <3>1. CASE f <= a
        <4>1. i' = i + 1 /\ offset' = offset
          BY <2>2, <2>3, <3>1
        <4>2. CASE i = 0
          BY <1>2, <1>3, <1>5, <1>6, <3>1, <4>1, <4>2
        <4>3. CASE i > 0
          BY <1>2, <1>3, <1>5, <1>6, <1>8, <4>1, <4>3
        <4> QED BY <1>3, <4>2, <4>3
      <3>2. CASE a < f
        <4>1. i' = 0 /\ offset' = offset + 1
          BY <1>3, <1>5, <2>2, <2>3, <3>2
        <4>2. ~(i > 0)
          BY <1>3, <1>6, <3>2
        <4>3. heap_end + offset < f
          BY <1>3, <3>2, <4>2
        <4> QED BY <1>2, <1>3, <1>5, <4>1, <4>3
      <3> QED BY <1>3, <1>5, <3>1, <3>2
    <2> HIDE DEF a, s
    <2>5. Len_' = Len_ /\ Kind' = Kind /\ Owed' = Owed /\ Extending' = Extending /\ Open(o)' = Open(o)
      BY <1>2, <2>2 DEF Len_, Kind, Owed, Extending, Open
    <2>6. Laid(present, use, heap_end, f, m)' /\ Opens(todo, o)' /\ Windows(f, Open(o))'
      BY <1>1, <2>2, <2>5 DEF SInv, Laid, Opens, Windows
    <2>7. Room(f, m)'
      BY <1>1, <2>2, <2>5 DEF SInv, Room
    <2>8. Place(f, m)'
      <3>1. Len_ # 0
        BY <1>2, <1>3, <1>5
      <3> QED BY <1>2, <2>2, <2>4, <2>5, <3>1 DEF Place
    <2>9. SInv(f, m, o)'
      BY <1>2, <2>2, <2>6, <2>7, <2>8 DEF SInv
    <2> QED BY <2>9 DEF Safe
  <1>9. CASE ~(a < Reach(m))
    <2>1. /\ i > 0 /\ heap_end + offset = f /\ a = Reach(m) /\ Kind = "brk" /\ round = 1
          /\ m < NPT /\ Table(a) = m
      BY <1>1, <1>2, <1>9, ProbeBeyond
    <2>2. /\ s.ok /\ Laid(s.present, s.use, heap_end, f + 1, m + 1)
          /\ s.use = [Space.use EXCEPT ![f] = "table"]
          /\ Reach(m + 1) = Reach(m) + P
      BY <1>4, <1>5, <2>1, NextTable
    <2>3. a >= f + 1
      BY <1>3, <2>1
    <2>4. s.use[a] = "none"
      <3> HIDE DEF s
      <3> QED BY <1>2, <1>3, <1>5, <2>2, <2>3 DEF Laid
    <2>5. /\ present' = s.present /\ use' = s.use /\ i' = i + 1 /\ offset' = offset
          /\ UNCHANGED <<heap_end, todo, pc, round, base, charge>>
      BY <1>2, <2>2, <2>4
    <2>6. \A b \in Pages : use'[b] = IF b = f THEN "table" ELSE use[b]
      <3>1. use \in [Pages -> Uses]
        BY DEF IInv, Types
      <3> HIDE DEF s
      <3> QED BY <1>4, <2>2, <2>5, <3>1
    <2> HIDE DEF s
    <2>7. Len_' = Len_ /\ Kind' = Kind /\ o[1] = 0
      <3>1. o[1] = 0
        BY <1>4, <1>5, <2>1, HeadOpens
      <3> QED BY <2>5, <3>1 DEF Len_, Kind
    <2>8. Open(o) = 0 /\ Open(o)' = 0
      BY <1>2, <2>5, <2>7 DEF Open
    <2>9. Laid(present, use, heap_end, f + 1, m + 1)' /\ Opens(todo, o)'
      BY <1>4, <2>2, <2>5 DEF Laid, Opens
    <2>10. Windows(f + 1, Open(o))'
      <3>1. \A b \in Pages : use[b] = "copy" <=> f - 0 <= b /\ b < f
        BY <1>1, <2>8 DEF SInv, Windows
      <3>2. \A b \in Pages : use'[b] # "copy"
        BY <1>3, <2>6, <3>1
      <3>3. \A b \in Pages : ~(f + 1 - 0 <= b /\ b < f + 1)
        BY <1>3
      <3>4. heap_end' <= f + 1 - 0
        BY <1>3, <2>5
      <3> HIDE DEF a
      <3> QED BY <1>3, <2>8, <3>2, <3>3, <3>4 DEF Windows
    <2>11. Room(f + 1, m + 1)'
      <3>1. charge \in Int /\ charge <= Budget /\ charge = Len_
        BY <1>1, <1>2, <2>1 DEF SInv, Room
      <3>2. Extending'
        BY <1>2, <1>5, <2>1, <2>5, <2>7 DEF Extending
      <3> QED BY <2>5, <2>7, <3>1, <3>2 DEF Room
    <2>12. Place(f + 1, m + 1)'
      <3>1. i + 1 <= Len_ /\ heap_end + offset <= f + 1 /\ heap_end + offset = (f + 1) - 1
        BY <1>2, <1>3, <1>5, <2>1
      <3>2. Reach(m + 1) - (f + 1) >= P
        BY <1>3, <2>1, <2>2
      <3>3. Len_ # 0
        BY <1>2, <1>3, <1>5
      <3> HIDE DEF a
      <3> QED BY <1>2, <2>1, <2>5, <2>7, <3>1, <3>2, <3>3 DEF Place
    <2>13. SInv(f + 1, m + 1, o)'
      BY <1>2, <2>5, <2>9, <2>10, <2>11, <2>12 DEF SInv
    <2> QED BY <2>13 DEF Safe
  <1> QED BY <1>8, <1>9

\* What the first search of ksbrk found is the first free page, or has a table
\* after it, or is heap_end at boot.
LEMMA FoundFirstSafe == IInv /\ Safe /\ FoundFirst => Safe'
  <1> SUFFICES ASSUME IInv, Safe, FoundFirst PROVE Safe'
    OBVIOUS
  <1>1. PICK f, m, o : SInv(f, m, o)
    BY DEF Safe
  <1>2. /\ pc = "find" /\ i = Len_ /\ Kind = "brk" /\ round = 1 /\ pc' = "tables"
        /\ heap_end' = heap_end + offset /\ round' = 2 /\ offset' = 0 /\ i' = 0
        /\ UNCHANGED <<present, use, todo, base, charge>>
    BY DEF FoundFirst
  <1>3. /\ heap_end \in Nat /\ f \in Nat /\ heap_end <= f /\ charge \in Int /\ P \in Nat /\ 1 <= P
        /\ Reach(m) \in Nat /\ f < Reach(m) /\ Pages = 0..Top - 1 /\ Top \in Nat
        /\ offset \in Nat /\ i \in Nat /\ m \in Nat /\ 1 <= m
    BY <1>1, Numbers
  <1>4. todo # << >> /\ Len_ \in Nat /\ o[1] = 0 /\ Len_' = Len_ /\ Kind' = Kind
    <2>1. todo # << >> /\ todo \in Seq(Calls) /\ Opens(todo, o)
      BY <1>1, <1>2, SpaceLaid DEF IInv, Busy
    <2>2. Len_ \in Nat /\ o[1] = 0
      BY <1>2, <2>1, HeadOpens
    <2> QED BY <1>2, <2>1, <2>2 DEF Len_, Kind
  <1>5. /\ heap_end + offset <= f
        /\ i > 0 => \/ heap_end + offset = f
                    \/ Reach(m) - f >= P
        /\ Len_ = 0 => offset = 0 /\ Table(heap_end) + 1 >= m
    BY <1>1, <1>2, <1>4 DEF SInv, Place
  <1>6. Reach(m) - f >= P \/ Table(f) + 1 >= m
    <2>1. m - 1 \in Nat /\ m - 1 + 1 = m
      BY <1>3
    <2>2. Reach(m) = Reach(m - 1) + P /\ Reach(m - 1) \in Nat
      BY <2>1, ReachIs
    <2>3. Table(f) \in Nat /\ (Table(f) < m - 1 <=> f < Reach(m - 1))
      BY <1>3, <2>1, TableBelow
    <2> QED BY <1>3, <2>1, <2>2, <2>3
  <1>7. /\ Reach(m) - f >= P \/ Table(heap_end') + 1 >= m
        /\ Len_ = 0 => Table(heap_end') + 1 >= m
    <2>1. CASE Len_ = 0
      <3>1. heap_end' = heap_end
        BY <1>2, <1>3, <1>5, <2>1
      <3> QED BY <1>5, <2>1, <3>1
    <2>2. CASE Len_ # 0
      BY <1>2, <1>3, <1>4, <1>5, <1>6, <2>2
    <2> QED BY <2>1, <2>2
  <1>8. Laid(present, use, heap_end, f, m)' /\ Opens(todo, o)'
    <2>1. heap_end' \in Nat /\ heap_end' <= f /\ heap_end <= heap_end'
      BY <1>2, <1>3, <1>5
    <2>2. \A a \in Pages : heap_end' <= a => heap_end <= a
      BY <1>3, <2>1
    <2> QED BY <1>1, <1>2, <2>1, <2>2 DEF SInv, Laid, Opens
  <1>9. Windows(f, Open(o))'
    <2>1. Open(o) = 0 /\ Open(o)' = 0
      BY <1>2, <1>4 DEF Open
    <2>2. heap_end' <= f - 0
      BY <1>2, <1>3, <1>5
    <2> QED BY <1>1, <1>2, <2>1, <2>2 DEF SInv, Windows
  <1>10. Room(f, m)'
    <2>1. charge \in Int /\ charge <= Budget /\ charge = Len_
      BY <1>1, <1>2 DEF SInv, Room
    <2>2. Extending'
      BY <1>2, <1>4 DEF Extending
    <2> QED BY <1>2, <1>4, <2>1, <2>2 DEF Room
  <1>11. Place(f, m)'
    BY <1>2, <1>4, <1>7 DEF Place
  <1>12. SInv(f, m, o)'
    BY <1>2, <1>8, <1>9, <1>10, <1>11 DEF SInv
  <1> QED BY <1>12 DEF Safe

\* The tables of ksbrk have their pages, and leave a whole table's pages free.
LEMMA allocate_next_ptSafe == IInv /\ Safe /\ allocate_next_pt => Safe'
  <1> SUFFICES ASSUME IInv, Safe, allocate_next_pt PROVE Safe'
    OBVIOUS
  <1>1. PICK f, m, o : SInv(f, m, o)
    BY DEF Safe
  <1> DEFINE k == Table(heap_end)
             s1 == allocate_pt(Space, k)
             s == allocate_pt(s1, k + 1)
  <1>2. /\ pc = "tables"
        /\ \/ ~s.ok
           \/ /\ s.ok /\ present' = s.present /\ use' = s.use
              /\ \/ Len_ = 0 /\ pc' = "idle" /\ todo' = Tail(todo)
                 \/ Len_ > 0 /\ pc' = "find" /\ todo' = todo
              /\ UNCHANGED <<heap_end, round, offset, i, base, charge>>
    BY DEF allocate_next_pt, loop
  <1>3. /\ heap_end \in Nat /\ f \in Nat /\ heap_end <= f /\ charge \in Int /\ P \in Nat /\ 1 <= P
        /\ Reach(m) \in Nat /\ f < Reach(m) /\ Pages = 0..Top - 1 /\ Top \in Nat
        /\ m \in Nat /\ 1 <= m /\ m <= NPT /\ NPT \in Nat
    BY <1>1, Numbers
  <1>4. /\ Space \in Spaces /\ Space.ok /\ Space.present = present /\ Space.use = use
        /\ Laid(Space.present, Space.use, heap_end, f, m) /\ heap_end \in 0..Top
        /\ todo \in Seq(Calls) /\ Opens(todo, o)
    BY <1>1, SpaceLaid
  <1>5. /\ todo # << >> /\ k \in Nat /\ k < m /\ k + 1 < NPT /\ offset = 0 /\ i = 0
        /\ Reach(m) - f >= P \/ k + 1 >= m
    <2>1. todo # << >> /\ k + 1 < NPT /\ offset = 0 /\ i = 0
      BY <1>2 DEF IInv, Busy, Searching
    <2>2. k \in Nat /\ k < m
      BY <1>3, TableBelow
    <2>3. Reach(m) - f >= P \/ k + 1 >= m
      BY <1>1, <1>2 DEF SInv, Place
    <2> QED BY <2>1, <2>2, <2>3
  <1> HIDE DEF k
  <1>6. s1 = Space
    BY <1>4, <1>5, NextTable
  <1> HIDE DEF s1
  <1>7. /\ s.ok
        /\ \E g, n : /\ g \in Nat /\ Reach(n) \in Nat /\ Reach(n) - g >= P /\ f <= g
                     /\ Laid(s.present, s.use, heap_end, g, n)
        /\ \A b \in Pages : s.use[b] = use[b] \/ s.use[b] = "table"
    <2>0. s = allocate_pt(Space, k + 1) /\ k + 1 \in Nat
      BY <1>5, <1>6
    <2> HIDE DEF s
    <2>1. CASE k + 1 < m
      <3>1. s = Space
        BY <1>4, <2>0, <2>1, NextTable
      <3>2. Reach(m) - f >= P
        BY <1>3, <1>5, <2>1
      <3> QED BY <1>3, <1>4, <3>1, <3>2
    <2>2. CASE k + 1 = m
      <3>1. m < NPT /\ m \in Nat /\ s = allocate_pt(Space, m)
        BY <1>3, <1>5, <2>0, <2>2
      <3>2. /\ s.ok /\ Laid(s.present, s.use, heap_end, f + 1, m + 1)
            /\ s.use = [Space.use EXCEPT ![f] = "table"]
            /\ Reach(m + 1) = Reach(m) + P
        <4>1. Laid(Space.present, Space.use, heap_end, f, m) /\ Space \in Spaces /\ Space.ok
          BY <1>4
        <4>2. heap_end \in 0..Top
          BY <1>4
        <4> QED BY <3>1, <4>1, <4>2, NextTable
      <3>3. \A b \in Pages : s.use[b] = use[b] \/ s.use[b] = "table"
        <4>1. use \in [Pages -> Uses]
          BY DEF IInv, Types
        <4> QED BY <1>4, <3>2, <4>1
      <3>4. Reach(m + 1) \in Nat /\ Reach(m + 1) - (f + 1) >= P /\ f + 1 \in Nat /\ f <= f + 1
        BY <1>3, <3>2
      <3> QED BY <3>2, <3>3, <3>4
    <2> QED BY <1>3, <1>5, <2>1, <2>2
  <1> HIDE DEF s
  <1>8. PICK g, n : /\ g \in Nat /\ Reach(n) \in Nat /\ Reach(n) - g >= P /\ f <= g
                    /\ Laid(s.present, s.use, heap_end, g, n)
    BY <1>7
  <1>9. /\ present' = s.present /\ use' = s.use
        /\ \/ Len_ = 0 /\ pc' = "idle" /\ todo' = Tail(todo)
           \/ Len_ > 0 /\ pc' = "find" /\ todo' = todo
        /\ UNCHANGED <<heap_end, round, offset, i, base, charge>>
    BY <1>2, <1>7
  <1>10. Laid(present, use, heap_end, g, n)'
    BY <1>8, <1>9 DEF Laid
  <1>11. Kind = "brk" /\ charge = Len_ /\ charge <= Budget /\ Len_ \in Nat /\ o[1] = 0 /\ o[2] = 0
    <2>1. Kind = "brk"
      BY <1>1, <1>2 DEF SInv, Place
    <2>2. Len_ \in Nat /\ o[1] = 0 /\ o[2] = 0
      BY <1>4, <1>5, <2>1, HeadOpens
    <2> QED BY <1>1, <1>2, <2>1, <2>2 DEF SInv, Room
  <1>12. \A b \in Pages : use'[b] # "copy"
    <2>1. Open(o) = 0
      BY <1>2, <1>11 DEF Open
    <2>2. \A b \in Pages : use[b] = "copy" <=> f - 0 <= b /\ b < f
      BY <1>1, <2>1 DEF SInv, Windows
    <2>3. \A b \in Pages : use[b] # "copy"
      BY <1>3, <2>2
    <2> QED BY <1>7, <1>9, <2>3
  <1>13. ASSUME NEW q, Open(q)' = 0 PROVE Windows(g, Open(q))'
    <2>1. \A b \in Pages : ~(g - 0 <= b /\ b < g)
      BY <1>3, <1>8
    <2>2. heap_end' <= g - 0
      BY <1>3, <1>8, <1>9
    <2> QED BY <1>8, <1>12, <1>13, <2>1, <2>2 DEF Windows
  <1>14. CASE Len_ = 0
    <2>1. pc' = "idle" /\ todo' = Tail(todo)
      BY <1>9, <1>14
    <2>2. PICK q : Opens(todo', q) /\ q[1] = 0
      BY <1>4, <1>5, <1>11, <2>1, TailOpens
    <2>3. todo' # << >> => ~(Len_' = 0)
      <3>1. Tail(todo) # << >> => Head(Tail(todo)).len >= 1
        BY <1>4, <1>5, TailOpens
      <3> QED BY <2>1, <3>1 DEF Len_
    <2>4. Windows(g, Open(q))'
      BY <1>13, <2>1, <2>2 DEF Open
    <2>5. Room(g, n)'
      <3>1. Owed' = 0
        BY <2>1 DEF Owed
      <3>2. Reach(n) - g >= P - charge' + 0 /\ charge' \in Int /\ charge' <= Budget
        BY <1>3, <1>8, <1>9, <1>11, <1>14
      <3> QED BY <2>1, <3>1, <3>2 DEF Room
    <2>6. Place(g, n)'
      BY <2>1, <2>3 DEF Place
    <2>7. SInv(g, n, q)'
      BY <1>10, <2>1, <2>2, <2>4, <2>5, <2>6 DEF SInv
    <2> QED BY <2>7 DEF Safe
  <1>15. CASE Len_ # 0
    <2>1. pc' = "find" /\ todo' = todo
      BY <1>9, <1>15
    <2>2. Len_' = Len_ /\ Kind' = Kind /\ Opens(todo, o)'
      BY <1>4, <2>1 DEF Len_, Kind, Opens
    <2>3. Windows(g, Open(o))'
      BY <1>11, <1>13, <2>1 DEF Open
    <2>4. Room(g, n)'
      <3>1. Owed' = Len_
        BY <2>1, <2>2 DEF Owed
      <3>2. Reach(n) - g >= P - charge' + Len_ /\ charge' \in Int /\ charge' <= Budget
        BY <1>3, <1>8, <1>9, <1>11
      <3> QED BY <1>9, <1>11, <2>1, <2>2, <3>1, <3>2 DEF Room
    <2>5. Place(g, n)'
      <3>1. i' <= Len_ /\ ~(i' > 0) /\ heap_end' + offset' <= g
        BY <1>3, <1>5, <1>8, <1>9, <1>11
      <3> QED BY <1>15, <2>1, <2>2, <3>1 DEF Place
    <2>6. SInv(g, n, o)'
      BY <1>10, <2>1, <2>2, <2>3, <2>4, <2>5 DEF SInv
    <2> QED BY <2>6 DEF Safe
  <1> QED BY <1>14, <1>15

\* A search that ends has found the first free page.
LEMMA FoundSafe == IInv /\ Safe /\ Found => Safe'
  <1> SUFFICES ASSUME IInv, Safe, Found PROVE Safe'
    OBVIOUS
  <1>1. PICK f, m, o : SInv(f, m, o)
    BY DEF Safe
  <1>2. /\ pc = "find" /\ i = Len_ /\ (Kind = "brk" => round = 2) /\ pc' = "map"
        /\ base' = heap_end + offset /\ i' = 0
        /\ heap_end' = IF Kind = "brk" THEN base' ELSE heap_end
        /\ UNCHANGED <<present, use, todo, round, offset, charge>>
    BY DEF Found
  <1>3. /\ heap_end \in Nat /\ f \in Nat /\ heap_end <= f /\ charge \in Int /\ P \in Nat
        /\ Reach(m) \in Nat /\ f < Reach(m) /\ Pages = 0..Top - 1 /\ Top \in Nat
        /\ offset \in Nat /\ i \in Nat /\ m \in Nat
    BY <1>1, Numbers
  <1>4. /\ todo # << >> /\ Len_ \in Nat /\ (Kind = "brk" => o[1] = 0)
        /\ Len_' = Len_ /\ Kind' = Kind
    <2>1. todo # << >> /\ todo \in Seq(Calls) /\ Opens(todo, o)
      BY <1>1, <1>2, SpaceLaid DEF IInv, Busy
    <2>2. Len_ \in Nat /\ (Kind = "brk" => o[1] = 0)
      BY <2>1, HeadOpens
    <2> QED BY <1>2, <2>1, <2>2 DEF Len_, Kind
  <1>5. Len_ # 0 /\ heap_end + offset = f
    <2>1. Len_ # 0
      BY <1>1, <1>2, <1>4 DEF SInv, Place
    <2> QED BY <1>1, <1>2, <1>4, <2>1 DEF SInv, Place
  <1>6. heap_end' \in Nat /\ heap_end' <= f /\ heap_end <= heap_end' /\ base' + i' = f
    BY <1>2, <1>3, <1>5
  <1>7. Laid(present, use, heap_end, f, m)' /\ Opens(todo, o)'
    <2>1. \A a \in Pages : heap_end' <= a => heap_end <= a
      BY <1>3, <1>6
    <2> QED BY <1>1, <1>2, <1>6, <2>1 DEF SInv, Laid, Opens
  <1>8. Windows(f, Open(o))'
    <2>1. Open(o) = o[1] + 0
      BY <1>2 DEF Open
    <2>2. Open(o)' = o[1] + 0
      BY <1>2 DEF Open
    <2>3. heap_end <= f - Open(o) /\ \A a \in Pages : use[a] = "copy" <=> f - Open(o) <= a /\ a < f
      BY <1>1 DEF SInv, Windows
    <2>4. heap_end' <= f - Open(o)'
      <3>1. CASE Kind = "brk"
        BY <1>3, <1>4, <1>6, <2>2, <3>1
      <3>2. CASE Kind # "brk"
        BY <1>2, <2>1, <2>2, <2>3, <3>2
      <3> QED BY <3>1, <3>2
    <2> QED BY <1>2, <2>1, <2>2, <2>3, <2>4 DEF Windows
  <1>9. Room(f, m)'
    <2>1. ~Extending /\ Owed = Len_ /\ Owed' = Len_ - 0
      BY <1>2, <1>4 DEF Extending, Owed
    <2>2. charge \in Int /\ charge <= Budget /\ Reach(m) - f >= P - charge + Len_
      BY <1>1, <2>1 DEF SInv, Room
    <2>3. Owed' = Len_
      BY <1>4, <2>1
    <2> QED BY <1>2, <2>2, <2>3 DEF Room
  <1>10. Place(f, m)'
    BY <1>2, <1>4, <1>5, <1>6 DEF Place
  <1>11. SInv(f, m, o)'
    BY <1>2, <1>7, <1>8, <1>9, <1>10 DEF SInv
  <1> QED BY <1>11 DEF Safe

-----------------------------------------------------------------------------
(* The mapping loops keep the room.                                        *)

\* The page to map is the first free one, and another one is left after it.
LEMMA MapPageSafe == Budget < P /\ IInv /\ Safe /\ MapPage => Safe'
  <1> SUFFICES ASSUME Budget < P, IInv, Safe, MapPage PROVE Safe'
    OBVIOUS
  <1>1. PICK f, m, o : SInv(f, m, o)
    BY DEF Safe
  <1>2. pc = "map" /\ i < Len_ /\ base + i = f
    BY <1>1 DEF MapPage, SInv, Place
  <1>3. /\ heap_end \in Nat /\ f \in Nat /\ heap_end <= f /\ charge \in Int /\ P \in Nat
        /\ Reach(m) \in Nat /\ f < Reach(m) /\ Pages = 0..Top - 1 /\ Top \in Nat /\ Reach(m) <= Top
        /\ i \in Nat /\ base \in Nat /\ m \in Nat /\ Budget \in Nat
    BY <1>1, Numbers
  <1>4. /\ Space \in Spaces /\ Space.ok /\ Space.present = present /\ Space.use = use
        /\ Laid(Space.present, Space.use, heap_end, f, m) /\ heap_end \in 0..Top
        /\ todo \in Seq(Calls) /\ Opens(todo, o)
    BY <1>1, SpaceLaid
  <1>5. f \in Pages /\ use[f] = "none" /\ \A a \in Pages : heap_end <= a => (use[a] = "none" <=> f <= a)
    BY <1>3, <1>4 DEF Laid
  <1>6. allocate_pt(Space, Table(f)) = Space
    <2>1. Table(f) \in Nat /\ Table(f) < m
      BY <1>3, TableBelow
    <2> QED BY <1>4, <2>1, NextTable
  <1>7. /\ present' = present /\ use' = [use EXCEPT ![f] = Kind] /\ i' = i + 1
        /\ heap_end' = IF Kind = "brk" THEN heap_end + 1 ELSE heap_end
        /\ UNCHANGED <<todo, pc, round, offset, base, charge>>
    BY <1>2, <1>4, <1>5, <1>6 DEF MapPage
  <1>8. todo # << >> /\ Kind \in MapKinds /\ (Kind = "brk" => heap_end = f)
    <2>1. Kind = "brk" => heap_end = base + i
      BY <1>2 DEF IInv, Mapping
    <2> QED BY <1>2, <2>1 DEF IInv, Busy, Kind
  <1>9. /\ Len_ \in Nat /\ Len_' = Len_ /\ Kind' = Kind
        /\ Kind = "copy" => o[1] \in {0, 1}
        /\ Kind # "copy" => o[1] = 0
    <2>1. /\ Len_ \in Nat /\ (Kind = "copy" => o[1] \in {0, 1})
          /\ Kind \in {"brk", "safe", "window"} => o[1] = 0
      BY <1>4, <1>8, HeadOpens
    <2>2. Len_' = Len_ /\ Kind' = Kind
      BY <1>7 DEF Len_, Kind
    <2> QED BY <1>8, <2>1, <2>2 DEF MapKinds
  <1>10. \A a \in Pages : use'[a] = IF a = f THEN Kind ELSE use[a]
    <2>1. use \in [Pages -> Uses]
      BY DEF IInv, Types
    <2> QED BY <1>7, <2>1
  <1>11. ~Extending /\ ~Extending' /\ Owed = Len_ - i /\ Owed' = Len_ - (i + 1)
    <2>1. pc' = "map"
      BY <1>2, <1>7
    <2> QED BY <1>2, <1>7, <1>9, <2>1 DEF Extending, Owed
  <1>12. charge <= Budget /\ Reach(m) - f >= P - charge + (Len_ - i)
    BY <1>1, <1>11 DEF SInv, Room
  <1>13. heap_end' \in Nat /\ heap_end' <= f + 1 /\ heap_end <= heap_end' /\ f + 1 < Reach(m)
    BY <1>2, <1>3, <1>7, <1>8, <1>9, <1>12
  <1>14. Laid(present, use, heap_end, f + 1, m)' /\ Opens(todo, o)'
    <2>1. Kind # "none"
      BY <1>8 DEF MapKinds
    <2>2. \A a \in Pages : heap_end' <= a => (use'[a] = "none" <=> f + 1 <= a)
      BY <1>3, <1>5, <1>10, <1>13, <2>1
    <2>3. f + 1 \in Nat /\ m \in 1..NPT /\ present = 0..m - 1
      BY <1>3, <1>4 DEF Laid
    <2> QED BY <1>4, <1>7, <1>13, <2>2, <2>3 DEF Laid, Opens
  <1>15. Windows(f + 1, Open(o))'
    <2>1. /\ heap_end <= f - Open(o)
          /\ \A a \in Pages : use[a] = "copy" <=> f - Open(o) <= a /\ a < f
      BY <1>1 DEF SInv, Windows
    <2>2. CASE Kind = "copy"
      <3>1. Open(o) = o[1] + i /\ Open(o)' = o[1] + (i + 1)
        BY <1>2, <1>7, <1>9, <2>2 DEF Open
      <3>2. /\ Open(o) \in Int /\ Open(o)' \in Int /\ f + 1 - Open(o)' = f - Open(o)
            /\ Open(o) >= 0
        BY <1>3, <1>9, <2>2, <3>1
      <3>3. heap_end' <= f + 1 - Open(o)'
        BY <1>7, <2>1, <2>2, <3>2
      <3>4. \A a \in Pages : use'[a] = "copy" <=> f + 1 - Open(o)' <= a /\ a < f + 1
        BY <1>3, <1>10, <2>1, <2>2, <3>2
      <3> QED BY <1>3, <3>2, <3>3, <3>4 DEF Windows
    <2>3. CASE Kind # "copy"
      <3>1. Open(o) = 0 /\ Open(o)' = 0
        BY <1>2, <1>7, <1>9, <2>3 DEF Open
      <3>2. \A a \in Pages : use[a] # "copy"
        BY <1>3, <2>1, <3>1
      <3>3. \A a \in Pages : use'[a] # "copy" /\ ~(f + 1 - 0 <= a /\ a < f + 1)
        BY <1>3, <1>10, <2>3, <3>2
      <3> QED BY <1>3, <1>13, <3>1, <3>3 DEF Windows
    <2> QED BY <2>2, <2>3
  <1>16. Room(f + 1, m)'
    <2>1. Reach(m) - (f + 1) >= P - charge + Owed'
      BY <1>3, <1>9, <1>11, <1>12
    <2> QED BY <1>2, <1>3, <1>7, <1>11, <1>12, <2>1 DEF Room
  <1>17. Place(f + 1, m)'
    <2>1. base + (i + 1) = f + 1 /\ Len_ # 0
      BY <1>2, <1>3, <1>9
    <2> QED BY <1>2, <1>7, <1>9, <2>1 DEF Place
  <1>18. SInv(f + 1, m, o)'
    BY <1>2, <1>7, <1>14, <1>15, <1>16, <1>17 DEF SInv
  <1> QED BY <1>18 DEF Safe

\* A call that is done leaves what it was not charged for.
LEMMA MappedSafe == IInv /\ Safe /\ Mapped => Safe'
  <1> SUFFICES ASSUME IInv, Safe, Mapped PROVE Safe'
    OBVIOUS
  <1>1. PICK f, m, o : SInv(f, m, o)
    BY DEF Safe
  <1>2. /\ pc = "map" /\ i = Len_ /\ todo' = Tail(todo) /\ pc' = "idle"
        /\ UNCHANGED <<present, use, heap_end, round, offset, i, base, charge>>
    BY DEF Mapped, space, loop
  <1>3. todo \in Seq(Calls) /\ Opens(todo, o) /\ todo # << >> /\ Kind \in MapKinds
    BY <1>1, <1>2, SpaceLaid DEF IInv, Busy, Kind
  <1>4. /\ Len_ \in Nat
        /\ Kind = "copy" => Len_ = 1 /\ o[1] \in {0, 1} /\ o[2] = o[1] + 1
        /\ Kind \in {"brk", "safe", "window"} => o[1] = 0 /\ o[2] = 0
    BY <1>3, HeadOpens
  <1>5. /\ \E q : Opens(Tail(todo), q) /\ q[1] = o[2]
        /\ Tail(todo) # << >> => Head(Tail(todo)).len >= 1
    BY <1>3, TailOpens
  <1>6. PICK q : Opens(todo', q) /\ q[1] = o[2]
    BY <1>2, <1>5
  <1>7. Open(q)' = Open(o)
    <2>1. Open(q)' = o[2] + 0
      BY <1>2, <1>6 DEF Open
    <2>2. CASE Kind = "copy"
      BY <1>2, <1>4, <2>1, <2>2 DEF Open
    <2>3. CASE Kind # "copy"
      BY <1>2, <1>3, <1>4, <2>1, <2>3 DEF Open, MapKinds
    <2> QED BY <2>2, <2>3
  <1>8. Laid(present, use, heap_end, f, m)' /\ Windows(f, Open(q))'
    BY <1>1, <1>2, <1>7 DEF SInv, Laid, Windows
  <1>9. Room(f, m)'
    <2>1. ~Extending /\ Owed = 0 /\ Owed' = 0
      BY <1>2, <1>4 DEF Extending, Owed
    <2> QED BY <1>1, <1>2, <2>1 DEF SInv, Room
  <1>10. Place(f, m)'
    <2>1. todo' # << >> => ~(Len_' = 0)
      BY <1>2, <1>5 DEF Len_
    <2> QED BY <1>2, <2>1 DEF Place
  <1>11. SInv(f, m, q)'
    BY <1>2, <1>6, <1>8, <1>9, <1>10 DEF SInv
  <1> QED BY <1>11 DEF Safe

\* A step that changes nothing.
LEMMA StutterSafe == Safe /\ UNCHANGED vars => Safe'
  <1> SUFFICES ASSUME Safe, UNCHANGED vars PROVE Safe'
    OBVIOUS
  <1>1. PICK f, m, o : SInv(f, m, o)
    BY DEF Safe
  <1>2. UNCHANGED <<present, use, heap_end, todo, pc, round, offset, i, base, charge>>
    BY DEF vars, space, loop
  <1>3. /\ Len_' = Len_ /\ Kind' = Kind /\ Owed' = Owed /\ Extending' = Extending
        /\ Open(o)' = Open(o)
    BY <1>2 DEF Len_, Kind, Owed, Extending, Open
  <1>4. Laid(present, use, heap_end, f, m)' /\ Windows(f, Open(o))' /\ Opens(todo, o)'
    BY <1>1, <1>2, <1>3 DEF SInv, Laid, Windows, Opens
  <1>5. Room(f, m)' /\ Place(f, m)'
    BY <1>1, <1>2, <1>3 DEF SInv, Room, Place
  <1>6. SInv(f, m, o)'
    BY <1>1, <1>2, <1>4, <1>5 DEF SInv
  <1> QED BY <1>6 DEF Safe

\* As long as callers ask for less than a table's pages between two extensions
\* of the heap, the room ksbrk left is never used up.
THEOREM RoomIsKept ==
  ASSUME Budget < P
  PROVE  Spec => []Safe
  <1>1. Init => Safe
    BY InitSafe
  <1>2. IInv /\ Safe /\ [Next]_vars => Safe'
    BY KernelCallSafe, BeginSafe, mmu_unmap_framesSafe, FindProbeSafe, FoundFirstSafe,
       allocate_next_ptSafe, FoundSafe, MapPageSafe, MappedSafe, StutterSafe DEF Next
  <1> QED BY <1>1, <1>2, Invariance, PTL DEF Spec

\* No assertion of mmu.c fails and allocate_pt does not call itself for ever,
\* for callers that ask for less than a table's pages between two extensions.
THEOREM AssertionsHold ==
  ASSUME Budget < P
  PROVE  Spec => []AssertsHold
  <1>1. Safe => AssertsHold
    BY DEF Safe, SInv, AssertsHold
  <1> QED BY <1>1, RoomIsKept, PTL

\* For the same callers the page that the next table will be stored in has a
\* table itself.
THEOREM SlackIsKept ==
  ASSUME Budget < P
  PROVE  Spec => []Slack
  <1>1. IInv /\ Safe => Slack
    <2> SUFFICES ASSUME IInv, Safe PROVE Slack
      OBVIOUS
    <2>1. PICK f, m, o : SInv(f, m, o)
      BY DEF Safe
    <2>2. /\ Laid(Space.present, Space.use, heap_end, f, m) /\ heap_end \in 0..Top
          /\ Space.present = present
      BY <2>1, SpaceLaid
    <2>3. FirstProbe(Space) = f /\ Table(f) \in Space.present
      BY <2>2, FirstFree
    <2> QED BY <2>2, <2>3 DEF Slack
  <1> QED BY <1>1, Invariance, RoomIsKept, PTL
=============================================================================
