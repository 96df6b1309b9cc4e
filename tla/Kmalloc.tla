------------------------------ MODULE Kmalloc ------------------------------
(***************************************************************************)
(* The kernel heap, kernel/kmalloc.c.  Headers are chained in address      *)
(* order; a request walks the chain from head, merges free neighbours on   *)
(* the way and splits the first entry that is large enough, or asks ksbrk  *)
(* for more memory and starts again.  The walk is a step machine, one step *)
(* per loop iteration.  Addresses and sizes are counted in units; what the *)
(* blocks hold is left out, where headers and blocks lie is kept.          *)
(***************************************************************************)
EXTENDS Integers, FiniteSets

CONSTANTS
  Header,          \* sizeof(MallocHeader)
  NEW_ALLOC_SIZE,
  Page,            \* 0x1000
  U32,             \* 2^32: the width of MallocHeader.size and of a u32
  MUL_NO_OVERFLOW, \* the square root of SIZE_MAX + 1
  Requests,        \* the sizes callers ask for
  Arrays,          \* the <<nmemb, size>> pairs callers ask for
  Gaps,            \* pages that mmu.c may have used between two heap extensions
  MaxHeap,         \* where the memory ksbrk can give ends (bound)
  MaxLive          \* blocks in use at a time (bound)

ASSUME SizesAssumption ==
  /\ Header \in Nat \ {0} /\ Page \in Nat \ {0}
  /\ NEW_ALLOC_SIZE \in Nat /\ NEW_ALLOC_SIZE > 2 * Header
  /\ U32 \in Nat \ {0} /\ MUL_NO_OVERFLOW \in Nat \ {0}
  /\ Requests \subseteq Nat /\ Arrays \subseteq Nat \X Nat
  /\ Gaps \subseteq Nat /\ 0 \in Gaps /\ MaxHeap \in Nat /\ MaxLive \in Nat

NULL == 0
SIZE_MAX == MUL_NO_OVERFLOW * MUL_NO_OVERFLOW - 1

VARIABLES
  hdr,     \* the headers on the chain: address -> [size, free, final, n]
  head,    \* the first header, or NULL
  final,   \* the last header, or NULL
  mapped,  \* the addresses ksbrk has handed out
  brk,     \* heap_end of mmu.c: where the next extension may begin
  live,    \* the callers' blocks: header address -> size asked for
  pc,      \* "idle", "find", "merge" or "done"
  req,     \* the request served: s as a size_t, the size meant, block to free
  p,       \* the cursor of find_free_entry
  grown    \* add_heap_memory was called for this request

heap == <<hdr, head, final, mapped, brk>>
vars == <<heap, live, pc, req, p, grown>>

NoReq == [s |-> 0, want |-> 0, old |-> NULL]

Init ==
  /\ hdr = [a \in {} |-> NULL] /\ head = NULL /\ final = NULL
  /\ mapped = {} /\ brk = Page
  /\ live = [a \in {} |-> 0]
  /\ pc = "idle" /\ req = NoReq /\ p = NULL /\ grown = FALSE

-----------------------------------------------------------------------------
(* Headers.                                                                *)

Entry(size, free, fin, n) ==
  [size |-> size, free |-> free, final |-> fin, n |-> n]

\* The function f with the value v at a.
With(f, a, v) == [x \in DOMAIN f \cup {a} |-> IF x = a THEN v ELSE f[x]]

Without(f, a) == [x \in DOMAIN f \ {a} |-> f[x]]

\* Mutated: merges across the end of a region.
CanMergeAcross(f, b) ==
  /\ f[b].free
  /\ f[b].n # NULL
  /\ f[f[b].n].free

\* What merge_headers tests; next_close_header stops at the end of a region.
CanMerge(f, b) ==
  /\ f[b].free
  /\ ~f[b].final
  /\ f[b].n # NULL
  /\ f[f[b].n].free

\* The bytes of the header that disappears are not added.
Merged(f, b) ==
  LET n == f[b].n
  IN With(Without(f, n), b,
          Entry((f[b].size + f[n].size) % U32, TRUE, f[b].final \/ f[n].final, f[n].n))

merge_headers(f, b) == IF CanMerge(f, b) THEN Merged(f, b) ELSE f

FinalAfterMerge(f, b, fin) ==
  IF CanMerge(f, b) /\ f[b].n = fin THEN b ELSE fin

-----------------------------------------------------------------------------
(* ksbrk, kmalloc_init and add_heap_memory.                                *)

\* ksbrk rounds up to pages; its memory lies above all it gave before.  There
\* is a frame behind every page of it: it cannot go on for ever.
PagesFor(n) == (n + Page - 1) \div Page

Ksbrk(base, n) ==
  /\ \E g \in Gaps : base = brk + g * Page
  /\ mapped' = mapped \cup (base..base + PagesFor(n) * Page - 1)
  /\ brk' = base + PagesFor(n) * Page
  /\ brk' <= MaxHeap

Bases == {brk + g * Page : g \in Gaps}

\* find_free_entry calls it when there is no heap yet; brk is where the first
\* region is.
kmalloc_init ==
  /\ pc = "find"
  /\ head = NULL
  /\ Ksbrk(brk, NEW_ALLOC_SIZE)
  /\ hdr' = With(hdr, brk, Entry((NEW_ALLOC_SIZE - Header) % U32, TRUE, TRUE, NULL))
  /\ head' = brk /\ final' = brk /\ p' = brk
  /\ UNCHANGED <<live, pc, req, grown>>

\* A page more than needed when n is already a multiple.
delta_page(n) == Page - (n % Page)

MaxOf(a, b) == IF a >= b THEN a ELSE b

\* Mutated: no room for a header.
AllocationSizeTight(min_desired) == MaxOf(min_desired, NEW_ALLOC_SIZE)

AllocationSize(min_desired) ==
  LET n == MaxOf(min_desired + Header, NEW_ALLOC_SIZE)
  IN n + delta_page(n) + NEW_ALLOC_SIZE

\* The walk found nothing: extend the last entry when the new memory follows
\* it, or chain a new region, and walk again from head.  The sizes are u32.
add_heap_memory ==
  /\ pc = "find"
  /\ head # NULL /\ p = NULL
  /\ \E base \in Bases :
       LET n == AllocationSize(req.s)
           fh == hdr[final]
           e == final + Header + fh.size
       IN /\ Ksbrk(base, n)
          /\ \/ /\ fh.free /\ base = e
                /\ hdr' = [hdr EXCEPT ![final].size = (@ + n - Header) % U32]
                /\ final' = final
             \/ /\ ~(fh.free /\ base = e)
                /\ hdr' = With([hdr EXCEPT ![final].n = base], base,
                               Entry((n - Header) % U32, TRUE, TRUE, NULL))
                /\ final' = base
  /\ p' = head
  /\ grown' = TRUE
  /\ UNCHANGED <<head, live, pc, req>>

\* ksbrk answers NULL: the callers of int_kmalloc return NULL at once, and
\* krealloc and krecalloc have not touched the old block.
OutOfMemory ==
  /\ pc = "find"
  /\ p = NULL
  /\ pc' = "idle" /\ req' = NoReq /\ grown' = FALSE
  /\ UNCHANGED <<heap, live, p>>

-----------------------------------------------------------------------------
(* find_free_entry and the split of int_kmalloc.                           *)

\* Mutated: no room for the new header.
RequiredSizeNoHeader == req.s % U32

\* The u32 parameter keeps s modulo 2^32, and so does the sum.
RequiredSize == ((req.s % U32) + Header) % U32

\* A header that is in use.
FindNext ==
  /\ pc = "find" /\ p # NULL
  /\ ~hdr[p].free
  /\ p' = hdr[p].n
  /\ UNCHANGED <<heap, live, pc, req, grown>>

\* A free header that is too small is merged with all that can be merged.
FindSmall ==
  /\ pc = "find" /\ p # NULL
  /\ hdr[p].free /\ hdr[p].size < RequiredSize
  /\ pc' = "merge"
  /\ UNCHANGED <<heap, live, req, p, grown>>

MergeMore ==
  /\ pc = "merge"
  /\ CanMerge(hdr, p)
  /\ hdr' = Merged(hdr, p)
  /\ final' = FinalAfterMerge(hdr, p, final)
  /\ UNCHANGED <<head, mapped, brk, live, pc, req, p, grown>>

\* Mutated: the cursor is not advanced.
MergeTooSmallStuck ==
  /\ pc = "merge"
  /\ ~CanMerge(hdr, p)
  /\ hdr[p].size < RequiredSize
  /\ pc' = "find"
  /\ UNCHANGED <<heap, live, req, p, grown>>

MergeTooSmall ==
  /\ pc = "merge"
  /\ ~CanMerge(hdr, p)
  /\ hdr[p].size < RequiredSize
  /\ pc' = "find"
  /\ p' = hdr[p].n
  /\ UNCHANGED <<heap, live, req, grown>>

Found ==
  /\ hdr[p].free
  /\ hdr[p].size >= RequiredSize
  /\ \/ pc = "find"
     \/ pc = "merge" /\ ~CanMerge(hdr, p)

\* int_kmalloc: the rest of the entry becomes a header of its own, which is
\* merged with a free neighbour; the entry becomes the caller's block.
Split ==
  /\ p # NULL
  /\ Found
  /\ LET new == p + Header + req.s
         rest == Entry((hdr[p].size - req.s - Header) % U32,
                       hdr[p].free, hdr[p].final, hdr[p].n)
         f1 == With(hdr, new, rest)
         fin1 == IF p = final THEN new ELSE final
         f2 == merge_headers(f1, new)
     IN /\ final' = FinalAfterMerge(f1, new, fin1)
        /\ hdr' = With(f2, p, Entry(req.s % U32, FALSE, FALSE, new))
  /\ live' = With(live, p, req.want)
  /\ p' = NULL
  /\ pc' = "done"
  /\ UNCHANGED <<head, mapped, brk, req, grown>>

-----------------------------------------------------------------------------
(* The calls.                                                              *)

\* kfree of a block, its neighbour merged.
Freed(f, a) == merge_headers([f EXCEPT ![a].free = TRUE], a)

kfree(a) ==
  /\ hdr' = Freed(hdr, a)
  /\ final' = FinalAfterMerge([hdr EXCEPT ![a].free = TRUE], a, final)
  /\ live' = Without(live, a)
  /\ UNCHANGED <<head, mapped, brk>>

Free ==
  /\ pc = "idle"
  /\ \E a \in DOMAIN live : kfree(a)
  /\ UNCHANGED <<pc, req, p, grown>>

int_kmalloc(s, want, old) ==
  /\ Cardinality(DOMAIN live) < MaxLive
  /\ pc' = "find"
  /\ req' = [s |-> s, want |-> want, old |-> old]
  /\ p' = head
  /\ grown' = FALSE
  /\ UNCHANGED <<heap, live>>

\* The tail of a call: krealloc and krecalloc copy, then free the old block.
Return ==
  /\ pc = "done"
  /\ IF req.old # NULL THEN kfree(req.old) ELSE UNCHANGED <<heap, live>>
  /\ pc' = "idle" /\ req' = NoReq /\ grown' = FALSE
  /\ UNCHANGED p

\* get_mem_size(ptr) > size: the header forgets the tail of the block.
Shrink(a, size, want) ==
  /\ hdr' = [hdr EXCEPT ![a].size = size % U32]
  /\ live' = [live EXCEPT ![a] = want]
  /\ UNCHANGED <<head, final, mapped, brk, pc, req, p, grown>>

krealloc(a, size, want) ==
  \/ a = NULL /\ int_kmalloc(size, want, NULL)
  \/ /\ a # NULL /\ hdr[a].size = size
     /\ live' = [live EXCEPT ![a] = want]
     /\ UNCHANGED <<heap, pc, req, p, grown>>
  \/ a # NULL /\ hdr[a].size > size /\ Shrink(a, size, want)
  \/ a # NULL /\ hdr[a].size < size /\ int_kmalloc(size, want, a)

\* Mutated: no test.
MulNeverOverflows(n, size) == FALSE

\* The test that keeps nmemb * size from wrapping.
MulOverflows(n, size) ==
  /\ n >= MUL_NO_OVERFLOW \/ size >= MUL_NO_OVERFLOW
  /\ n > 0
  /\ SIZE_MAX \div n < size

Product(n, size) == (n * size) % (SIZE_MAX + 1)

Kmalloc == pc = "idle" /\ \E s \in Requests : int_kmalloc(s, s, NULL)

Krealloc ==
  /\ pc = "idle"
  /\ \E a \in DOMAIN live \cup {NULL}, s \in Requests : krealloc(a, s, s)

Kreallocarray ==
  /\ pc = "idle"
  /\ \E a \in DOMAIN live \cup {NULL}, m \in Arrays :
       /\ ~MulOverflows(m[1], m[2])
       /\ krealloc(a, Product(m[1], m[2]), m[1] * m[2])

\* With ptr = NULL it is kcalloc.
Krecalloc ==
  /\ pc = "idle"
  /\ \E a \in DOMAIN live \cup {NULL}, m \in Arrays :
       /\ ~MulOverflows(m[1], m[2])
       /\ int_kmalloc(Product(m[1], m[2]), m[1] * m[2], a)

Work ==
  \/ kmalloc_init \/ add_heap_memory \/ OutOfMemory
  \/ FindNext \/ FindSmall \/ MergeMore \/ MergeTooSmall
  \/ Split \/ Return

Next == Work \/ Kmalloc \/ Krealloc \/ Kreallocarray \/ Krecalloc \/ Free

\* A call that has begun keeps being executed.
Spec == Init /\ [][Next]_vars /\ WF_vars(Work)

-----------------------------------------------------------------------------
(* Properties.                                                             *)

\* The type of every variable.
TypeOK ==
  /\ DOMAIN hdr \subseteq Nat \ {NULL}
  /\ \A a \in DOMAIN hdr :
       hdr[a] \in [size : Nat, free : BOOLEAN, final : BOOLEAN, n : Nat]
  /\ head \in DOMAIN hdr \cup {NULL} /\ final \in DOMAIN hdr \cup {NULL}
  /\ mapped \subseteq Nat /\ brk \in Nat
  /\ DOMAIN live \subseteq DOMAIN hdr
  /\ \A a \in DOMAIN live : live[a] \in Nat
  /\ pc \in {"idle", "find", "merge", "done"}
  /\ req \in [s : Nat, want : Nat, old : DOMAIN live \cup {NULL}]
  /\ p \in DOMAIN hdr \cup {NULL}
  /\ grown \in BOOLEAN

\* One past the last address a header and its block stand for.
End(a) == a + Header + hdr[a].size

\* Headers and blocks never overlap, so no split, merge or scrub of kmalloc.c
\* writes into a caller's block or another header, whatever was merged with
\* its header's bytes forgotten and whatever krealloc shrank.
BlocksDisjoint ==
  \A a, b \in DOMAIN hdr : a < b => End(a) <= b

\* Every header and every block lies in memory that ksbrk handed out: merging
\* never joins two regions over the pages between them.
HeapMapped ==
  \A a \in DOMAIN hdr : a..End(a) - 1 \subseteq mapped

\* The blocks in use are exactly the callers' blocks, each at least as large
\* as the size its caller meant, the product of an array call included.
OwnedExactly ==
  /\ {a \in DOMAIN hdr : ~hdr[a].free} = DOMAIN live
  /\ \A a \in DOMAIN live : live[a] <= hdr[a].size

\* The chain visits every header in address order, and final is its last
\* header, free and marked, as add_heap_memory takes for granted.
ChainOrdered ==
  DOMAIN hdr # {} =>
    /\ head \in DOMAIN hdr /\ final \in DOMAIN hdr
    /\ \A a \in DOMAIN hdr : head <= a /\ a <= final
    /\ hdr[final].free /\ hdr[final].final
    /\ \A a \in DOMAIN hdr :
         IF a = final THEN hdr[a].n = NULL
         ELSE /\ hdr[a].n \in DOMAIN hdr
              /\ a < hdr[a].n
              /\ \A b \in DOMAIN hdr : a < b => hdr[a].n <= b

\* After add_heap_memory the second walk finds an entry: int_kmalloc never
\* recurses more than once, so a request asks for memory at most once.
RetrySucceeds ==
  pc = "find" /\ p = NULL /\ head # NULL => ~grown

\* Every call returns: the walk with its merges reaches an end.
CallsReturn == (pc # "idle") ~> (pc = "idle")
=============================================================================
