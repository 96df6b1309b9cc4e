---------------------------- MODULE KmallocProofs ----------------------------
(***************************************************************************)
(* The safety of the kernel heap for every size of header, page and heap,  *)
(* every set of requests that stay below 2^32 (Narrow) and every placement *)
(* of the heap's extensions.                                               *)
(***************************************************************************)
EXTENDS Kmalloc, TLAPS

-----------------------------------------------------------------------------
(* Arithmetic.                                                             *)

\* Rounding down by division.
LEMMA DivBounds ==
  ASSUME NEW x \in Nat, NEW d \in Nat \ {0}
  PROVE  /\ x \div d \in Nat /\ x % d \in 0..d - 1
         /\ (x \div d) * d <= x /\ x < (x \div d) * d + d
  BY SMT

\* A number below the modulus is its own remainder.
LEMMA ModIsExact ==
  ASSUME NEW x \in Nat, NEW d \in Nat, x < d
  PROVE  x % d = x
  BY SMT

\* Multiplication keeps the order of naturals.
LEMMA MulMonotone ==
  ASSUME NEW a \in Nat, NEW b \in Nat, NEW k \in Nat, a <= b
  PROVE  a * k <= b * k
  BY SMT

\* ksbrk maps at least what it is asked for.
LEMMA PagesSuffice ==
  ASSUME NEW n \in Nat
  PROVE  PagesFor(n) * Page \in Nat /\ n <= PagesFor(n) * Page
  <1> DEFINE q == (n + Page - 1) \div Page
  <1>1. n + Page - 1 \in Nat /\ Page \in Nat \ {0}
    BY SizesAssumption
  <1>2. q \in Nat /\ n + Page - 1 < q * Page + Page
    BY <1>1, DivBounds
  <1>3. q * Page \in Nat
    BY <1>1, <1>2
  <1> HIDE DEF q
  <1>4. n <= q * Page
    BY <1>1, <1>2, <1>3
  <1> QED BY <1>3, <1>4 DEF PagesFor, q

\* add_heap_memory asks for the request, a header and another header at least.
LEMMA AllocationCovers ==
  ASSUME NEW s \in Nat
  PROVE  AllocationSize(s) \in Nat /\ AllocationSize(s) > s + 3 * Header
  <1> DEFINE n == MaxOf(s + Header, NEW_ALLOC_SIZE)
  <1>1. n \in Nat /\ n >= s + Header
    BY SizesAssumption DEF MaxOf
  <1>2. n % Page \in 0..Page - 1
    BY <1>1, SizesAssumption, DivBounds
  <1> HIDE DEF n
  <1> QED BY <1>1, <1>2, SizesAssumption DEF AllocationSize, delta_page, n

\* The test in front of nmemb * size keeps the product from wrapping.
LEMMA ProductIsExact ==
  ASSUME NEW n \in Nat, NEW size \in Nat, ~MulOverflows(n, size)
  PROVE  Product(n, size) = n * size
  <1> DEFINE M == MUL_NO_OVERFLOW
  <1>1. M \in Nat \ {0} /\ M * M \in Nat /\ SIZE_MAX = M * M - 1
    BY SizesAssumption DEF SIZE_MAX
  <1>2. n * size \in Nat
    OBVIOUS
  <1>3. n * size < M * M
    <2> HIDE DEF M
    <2>1. CASE n < M /\ size < M
      <3>1. n * size <= M * size
        BY <1>1, <2>1, MulMonotone
      <3>2. size * M <= (M - 1) * M
        BY <1>1, <2>1, MulMonotone
      <3>3. (M - 1) * M = M * M - M /\ M * size = size * M
        BY <1>1
      <3>4. M * size \in Nat
        BY <1>1
      <3> QED BY <1>1, <1>2, <3>1, <3>2, <3>3, <3>4
    <2>2. CASE n = 0
      BY <1>1, <2>2
    <2>3. CASE n > 0 /\ size <= SIZE_MAX \div n
      <3> DEFINE q == SIZE_MAX \div n
      <3>0. M * M > 0
        BY <1>1
      <3>1. SIZE_MAX \in Nat /\ n \in Nat \ {0}
        BY <1>1, <3>0, <2>3
      <3>2. q \in Nat /\ q * n <= SIZE_MAX
        BY <3>1, DivBounds
      <3>3. size <= q
        BY <2>3
      <3> HIDE DEF q
      <3>4. size * n <= q * n
        BY <3>2, <3>3, MulMonotone
      <3>5. size * n = n * size /\ q * n \in Nat
        BY <3>2
      <3> QED BY <1>1, <1>2, <3>2, <3>4, <3>5
    <2>4. (n < M /\ size < M) \/ n = 0 \/ (n > 0 /\ size <= SIZE_MAX \div n)
      <3>1. n > 0 => SIZE_MAX \div n \in Int
        BY <1>1
      <3> QED BY <1>1, <3>1 DEF MulOverflows, M
    <2> QED BY <2>1, <2>2, <2>3, <2>4
  <1>4. \A x, k \in Nat : x < k => x % k = x
    OBVIOUS
  <1>5. SIZE_MAX + 1 = M * M
    BY <1>1
  <1> HIDE DEF M
  <1> QED BY <1>1, <1>2, <1>3, <1>4, <1>5 DEF Product

-----------------------------------------------------------------------------
(* The shape of a heap.  It is stated of any headers f, first header hd,   *)
(* last header fin and mapped addresses mp, as a merge and a split happen  *)
(* to a heap in the middle of a step.                                      *)

Headers == [size : Nat, free : BOOLEAN, final : BOOLEAN, n : Nat]

Typed(f) == f \in [DOMAIN f -> Headers] /\ DOMAIN f \subseteq Nat \ {NULL}

\* The chain visits every header in address order, no header or block reaches
\* the next, and the last header is free and marked.
Chain(f, hd, fin) ==
  /\ hd \in DOMAIN f /\ fin \in DOMAIN f
  /\ \A a \in DOMAIN f : hd <= a /\ a <= fin
  /\ f[fin].free /\ f[fin].final /\ f[fin].n = NULL
  /\ \A a \in DOMAIN f :
       a # fin => /\ f[a].n \in DOMAIN f
                  /\ a + Header + f[a].size <= f[a].n
  /\ \A a, b \in DOMAIN f : a < b => f[a].n <= b

\* Headers and blocks are mapped, and so is what lies between a header that is
\* not the last of its region and the next.
Backed(f, mp) ==
  \A a \in DOMAIN f : \A x \in Nat :
    /\ a <= x /\ x < a + Header + f[a].size => x \in mp
    /\ ~f[a].final /\ a <= x /\ x < f[a].n => x \in mp

Heap(f, hd, fin, mp) == Typed(f) /\ Chain(f, hd, fin) /\ Backed(f, mp)

\* With keeps the type of a function.
LEMMA WithTyped ==
  ASSUME NEW T, NEW f, NEW a, NEW v \in T, \A x \in DOMAIN f : x # a => f[x] \in T
  PROVE  With(f, a, v) \in [DOMAIN f \cup {a} -> T]
  BY DEF With

\* What a merge of b does to the headers f.
MergeEffect(f, b, g) ==
  /\ f[b].n \in DOMAIN f /\ f[b].n # b /\ DOMAIN g = DOMAIN f \ {f[b].n}
  /\ \A x \in DOMAIN g : x # b => g[x] = f[x]
  /\ g[b].free /\ g[b].size >= f[f[b].n].size

\* Merging keeps the shape, although the bytes of the header that disappears
\* are forgotten.
LEMMA MergeKeepsHeap ==
  ASSUME NEW f, NEW hd, NEW fin, NEW mp, Heap(f, hd, fin, mp), \A x \in mp : x < U32,
         NEW b \in DOMAIN f, CanMerge(f, b), NEW g, g = Merged(f, b)
  PROVE  Heap(g, hd, FinalAfterMerge(f, b, fin), mp) /\ MergeEffect(f, b, g)
  <1> DEFINE n == f[b].n
             fin1 == FinalAfterMerge(f, b, fin)
  <1> USE SizesAssumption DEF Heap
  <1>1. /\ b # fin /\ n \in DOMAIN f /\ b < n /\ b + Header + f[b].size <= n
        /\ b \in Nat /\ n \in Nat /\ f[b] \in Headers /\ f[n] \in Headers
        /\ ~f[b].final /\ f[b].free /\ f[n].free
    <2>1. ~f[b].final /\ f[b].free /\ n # NULL /\ f[n].free
      BY DEF CanMerge
    <2>2. b # fin
      BY <2>1 DEF Chain
    <2>3. n \in DOMAIN f /\ b + Header + f[b].size <= n
      BY <2>2 DEF Chain
    <2>4. b \in Nat /\ n \in Nat /\ f[b] \in Headers /\ f[n] \in Headers
      BY <2>3 DEF Typed
    <2>5. f[b].size \in Nat
      BY <2>4 DEF Headers
    <2> QED BY <2>1, <2>2, <2>3, <2>4, <2>5
  <1>11. (f[b].size + f[n].size) % U32 = f[b].size + f[n].size
    <2>1. f[b].size \in Nat /\ f[n].size \in Nat
      BY <1>1 DEF Headers
    <2>2. n + Header + f[n].size - 1 \in mp
      <3>1. \A x \in Nat : n <= x /\ x < n + Header + f[n].size => x \in mp
        BY <1>1 DEF Backed
      <3> QED BY <1>1, <2>1, <3>1
    <2>3. n + Header + f[n].size - 1 < U32
      BY <2>2
    <2>4. f[b].size + f[n].size < U32
      BY <1>1, <2>1, <2>3
    <2> QED BY <2>1, <2>4, ModIsExact
  <1> DEFINE w == Without(f, n)
             e == Entry((f[b].size + f[n].size) % U32, TRUE, f[b].final \/ f[n].final, f[n].n)
  <1>2. g = With(w, b, e)
    BY DEF Merged
  <1>3. /\ e.size = f[b].size + f[n].size /\ e.free = TRUE
        /\ e.final = f[n].final /\ e.n = f[n].n
        /\ e \in Headers
    BY <1>1, <1>11 DEF Entry, Headers
  <1>4. fin1 = IF n = fin THEN b ELSE fin
    BY DEF FinalAfterMerge
  <1> HIDE DEF fin1, n, e
  <1>5. DOMAIN w = DOMAIN f \ {n} /\ \A x \in DOMAIN f : x # n => w[x] = f[x]
    BY DEF Without
  <1> HIDE DEF w
  <1>6. /\ DOMAIN g = DOMAIN f \ {n} /\ b \in DOMAIN g /\ g[b] = e
        /\ \A x \in DOMAIN g : x # b => g[x] = f[x]
    <2>1. /\ DOMAIN g = DOMAIN w \cup {b} /\ g[b] = e
          /\ \A x \in DOMAIN w : x # b => g[x] = w[x]
      BY <1>2 DEF With
    <2> QED BY <1>1, <1>2, <1>5, <2>1
  <1>7. Typed(g)
    <2>1. \A x \in DOMAIN w : w[x] \in Headers
      BY <1>5 DEF Typed
    <2>2. With(w, b, e) \in [DOMAIN w \cup {b} -> Headers]
      BY <1>3, <2>1, WithTyped
    <2> QED BY <1>1, <1>2, <1>5, <1>6, <2>2 DEF Typed
  <1>8. Chain(g, hd, fin1)
    <2>1. hd \in DOMAIN g /\ fin1 \in DOMAIN g
      BY <1>1, <1>6, <1>4 DEF Chain, Typed
    <2>2. \A a \in DOMAIN g : hd <= a /\ a <= fin1
      BY <1>1, <1>6, <1>4 DEF Chain, Typed, n
    <2>3. g[fin1].free /\ g[fin1].final /\ g[fin1].n = NULL
      BY <1>1, <1>6, <1>3, <1>4 DEF Chain
    <2>4. ASSUME NEW a \in DOMAIN g, a # fin1
          PROVE  g[a].n \in DOMAIN g /\ a + Header + g[a].size <= g[a].n
      <3>1. CASE a = b
        <4>1. n # fin
          BY <1>4, <2>4, <3>1
        <4>2. f[n].n \in DOMAIN f /\ n + Header + f[n].size <= f[n].n /\ f[n].n \in Nat
          BY <1>1, <4>1 DEF Chain, Headers
        <4>3. f[n].size \in Nat /\ f[b].size \in Nat
          BY <1>1 DEF Headers
        <4>4. f[n].n # n
          BY <1>1, <4>2, <4>3
        <4>5. f[n].n \in DOMAIN g
          BY <1>6, <4>2, <4>4
        <4>6. b + Header + (f[b].size + f[n].size) <= f[n].n
          BY <1>1, <4>2, <4>3
        <4> QED BY <1>3, <1>6, <3>1, <4>5, <4>6
      <3>2. CASE a # b
        <4>1. a \in DOMAIN f /\ a # fin /\ g[a] = f[a] /\ a \in Nat
          BY <1>6, <1>4, <2>4, <3>2 DEF Typed
        <4>2. f[a].n # n
          <5>0. f[a].n \in Nat /\ f[a].size \in Nat
            BY <4>1 DEF Typed, Headers
          <5>1. f[a].n \in Nat /\ a < f[a].n
            BY <4>1, <5>0 DEF Chain
          <5>2. a < b => f[a].n <= b
            BY <4>1 DEF Chain
          <5>3. b < a => n <= a
            BY <4>1 DEF Chain, n
          <5> QED BY <1>1, <3>2, <4>1, <5>1, <5>2, <5>3
        <4> QED BY <1>6, <4>1, <4>2 DEF Chain
      <3> QED BY <3>1, <3>2
    <2>5. ASSUME NEW a \in DOMAIN g, NEW c \in DOMAIN g, a < c
          PROVE  g[a].n <= c
      <3>1. CASE a = b
        <4>1. c \in DOMAIN f /\ c # n /\ c \in Nat
          BY <1>6 DEF Typed
        <4>2. n <= c
          BY <2>5, <3>1, <4>1 DEF Chain, n
        <4>3. f[n].n <= c
          BY <1>1, <4>1, <4>2 DEF Chain
        <4> QED BY <1>3, <1>6, <3>1, <4>3
      <3>2. CASE a # b
        BY <1>6, <2>5, <3>2 DEF Chain
      <3> QED BY <3>1, <3>2
    <2> QED BY <2>1, <2>2, <2>3, <2>4, <2>5 DEF Chain
  <1>9. Backed(g, mp)
    <2> SUFFICES ASSUME NEW a \in DOMAIN g, NEW x \in Nat, a <= x
                 PROVE  /\ x < a + Header + g[a].size => x \in mp
                        /\ ~g[a].final /\ x < g[a].n => x \in mp
      BY DEF Backed
    <2>1. CASE a = b
      <3>1. x < n => x \in mp
        BY <1>1, <2>1 DEF Backed, n
      <3>2. n <= x /\ x < n + Header + f[n].size => x \in mp
        BY <1>1 DEF Backed
      <3>3. n <= x /\ ~f[n].final /\ x < f[n].n => x \in mp
        BY <1>1 DEF Backed
      <3> QED BY <1>1, <1>3, <1>6, <2>1, <3>1, <3>2, <3>3 DEF Headers
    <2>2. CASE a # b
      BY <1>6, <2>2 DEF Backed
    <2> QED BY <2>1, <2>2
  <1>10. g[b].free /\ g[b].size >= f[n].size
    BY <1>1, <1>3, <1>6 DEF Headers
  <1> QED BY <1>1, <1>6, <1>7, <1>8, <1>9, <1>10 DEF n, fin1, MergeEffect

\* Freeing a header or giving it a smaller size keeps the shape.
LEMMA SameChainKeepsHeap ==
  ASSUME NEW f, NEW hd, NEW fin, NEW mp, Heap(f, hd, fin, mp),
         NEW g, Typed(g), DOMAIN g = DOMAIN f, g[fin].free,
         \A a \in DOMAIN f : g[a].n = f[a].n /\ g[a].final = f[a].final /\ g[a].size <= f[a].size
  PROVE  Heap(g, hd, fin, mp)
  <1> USE SizesAssumption DEF Heap
  <1>1. \A a \in DOMAIN f : /\ a \in Nat /\ f[a].size \in Nat /\ f[a].n \in Nat
                            /\ g[a].size \in Nat
    BY DEF Typed, Headers
  <1>2. Chain(g, hd, fin)
    BY <1>1 DEF Chain
  <1>3. Backed(g, mp)
    <2> SUFFICES ASSUME NEW a \in DOMAIN f, NEW x \in Nat, a <= x
                 PROVE  /\ x < a + Header + g[a].size => x \in mp
                        /\ ~g[a].final /\ x < g[a].n => x \in mp
      BY DEF Backed
    <2>1. x < a + Header + g[a].size => x < a + Header + f[a].size
      BY <1>1
    <2> QED BY <2>1 DEF Backed
  <1> QED BY <1>2, <1>3

\* Splitting a free entry that has room for the block and a header keeps the
\* shape; the rest may be given a smaller size than there is.
LEMMA SplitKeepsHeap ==
  ASSUME NEW f, NEW hd, NEW fin, NEW mp, Heap(f, hd, fin, mp),
         NEW q \in DOMAIN f, NEW s \in Nat, NEW r \in Nat, s + Header + r <= f[q].size,
         NEW new \in Nat, new = q + Header + s,
         NEW g, Typed(g), DOMAIN g = DOMAIN f \cup {new},
         g[new].size = r, g[new].free, g[new].final = f[q].final, g[new].n = f[q].n,
         g[q].size = s, ~g[q].final, g[q].n = new,
         \A x \in DOMAIN f : x # q => g[x] = f[x]
  PROVE  Heap(g, hd, IF q = fin THEN new ELSE fin, mp)
  <1> USE SizesAssumption DEF Heap
  <1> DEFINE fin1 == IF q = fin THEN new ELSE fin
  <1>1. /\ q \in Nat /\ q # NULL /\ f[q].size \in Nat /\ f[q].n \in Nat /\ q < new
        /\ new + Header + r <= q + Header + f[q].size
    BY DEF Typed, Headers
  <1>2. \A x \in DOMAIN f : x \in Nat /\ (q < x => new < x /\ f[q].n <= x /\ q # fin)
    <2> SUFFICES ASSUME NEW x \in DOMAIN f, x \in Nat, q < x
                 PROVE  new < x /\ f[q].n <= x /\ q # fin
      BY DEF Typed
    <2>1. q # fin /\ f[q].n <= x
      BY <1>1 DEF Chain, Typed
    <2>2. q + Header + f[q].size <= f[q].n
      BY <2>1 DEF Chain
    <2> QED BY <1>1, <2>1, <2>2
  <1>3. new \notin DOMAIN f
    BY <1>1, <1>2
  <1>4. Chain(g, hd, fin1)
    <2>1. hd \in DOMAIN g /\ fin1 \in DOMAIN g
      BY DEF Chain
    <2>2. \A a \in DOMAIN g : hd <= a /\ a <= fin1
      BY <1>1, <1>2 DEF Chain
    <2>3. g[fin1].free /\ g[fin1].final /\ g[fin1].n = NULL
      BY <1>3 DEF Chain
    <2>4. ASSUME NEW a \in DOMAIN g, a # fin1
          PROVE  g[a].n \in DOMAIN g /\ a + Header + g[a].size <= g[a].n
      <3>1. CASE a = q
        BY <1>1, <3>1
      <3>2. CASE a = new
        <4>1. q # fin
          BY <1>3, <2>4, <3>2 DEF Chain
        <4>2. f[q].n \in DOMAIN f /\ q + Header + f[q].size <= f[q].n
          BY <4>1 DEF Chain
        <4>3. new + Header + r <= f[q].n
          BY <1>1, <4>2
        <4> QED BY <3>2, <4>2, <4>3
      <3>3. CASE a # q /\ a # new
        <4>1. a \in DOMAIN f /\ a # fin /\ g[a] = f[a]
          BY <2>4, <3>3
        <4> QED BY <4>1 DEF Chain
      <3> QED BY <3>1, <3>2, <3>3
    <2>5. ASSUME NEW a \in DOMAIN g, NEW c \in DOMAIN g, a < c
          PROVE  g[a].n <= c
      <3>1. CASE a = q
        BY <1>1, <1>2, <2>5, <3>1
      <3>2. CASE a = new
        <4>1. c \in DOMAIN f /\ q < c
          BY <1>1, <1>2, <2>5, <3>2
        <4>2. f[q].n <= c
          BY <4>1 DEF Chain
        <4> QED BY <3>2, <4>2
      <3>3. CASE a # q /\ a # new
        <4>1. a \in DOMAIN f /\ g[a] = f[a] /\ a \in Nat
          BY <1>2, <3>3
        <4>2. CASE c # new
          BY <2>5, <4>1, <4>2 DEF Chain
        <4>3. CASE c = new
          <5>1. a < q
            BY <1>1, <1>2, <2>5, <3>3, <4>1, <4>3
          <5>2. f[a].n <= q /\ f[a].n \in Nat
            BY <4>1, <5>1 DEF Chain, Typed, Headers
          <5> QED BY <1>1, <4>1, <4>3, <5>2
        <4> QED BY <4>2, <4>3
      <3> QED BY <3>1, <3>2, <3>3
    <2> QED BY <2>1, <2>2, <2>3, <2>4, <2>5 DEF Chain
  <1>5. Backed(g, mp)
    <2> SUFFICES ASSUME NEW a \in DOMAIN g, NEW x \in Nat, a <= x
                 PROVE  /\ x < a + Header + g[a].size => x \in mp
                        /\ ~g[a].final /\ x < g[a].n => x \in mp
      BY DEF Backed
    <2>1. q <= x /\ x < q + Header + f[q].size => x \in mp
      BY DEF Backed
    <2>2. CASE a = q
      BY <1>1, <2>1, <2>2
    <2>3. CASE a = new
      <3>1. ~f[q].final /\ q <= x /\ x < f[q].n => x \in mp
        BY DEF Backed
      <3> QED BY <1>1, <2>1, <2>3, <3>1
    <2>4. CASE a # q /\ a # new
      BY <2>4 DEF Backed
    <2> QED BY <2>2, <2>3, <2>4
  <1> QED BY <1>4, <1>5

\* The first region.
LEMMA FirstHeap ==
  ASSUME NEW g, Typed(g), NEW base \in Nat, DOMAIN g = {base},
         g[base].free, g[base].final, g[base].n = NULL, NEW mp,
         \A x \in Nat : base <= x /\ x < base + Header + g[base].size => x \in mp
  PROVE  Heap(g, base, base, mp)
  BY DEF Heap, Chain, Backed

\* New memory that follows the last entry makes it larger.
LEMMA ExtendKeepsHeap ==
  ASSUME NEW f, NEW hd, NEW fin, NEW mp, Heap(f, hd, fin, mp),
         NEW g, Typed(g), DOMAIN g = DOMAIN f, \A a \in DOMAIN f : a # fin => g[a] = f[a],
         g[fin].free, g[fin].final, g[fin].n = NULL,
         NEW mp2, \A x \in mp : x \in mp2,
         \A x \in Nat : fin <= x /\ x < fin + Header + g[fin].size => x \in mp2
  PROVE  Heap(g, hd, fin, mp2)
  <1> USE DEF Heap
  <1>1. Chain(g, hd, fin)
    <2>1. \A a, b \in DOMAIN f : a < b => g[a].n <= b
      BY DEF Chain, Typed
    <2> QED BY <2>1 DEF Chain
  <1>2. Backed(g, mp2)
    <2> SUFFICES ASSUME NEW a \in DOMAIN f, NEW x \in Nat, a <= x
                 PROVE  /\ x < a + Header + g[a].size => x \in mp2
                        /\ ~g[a].final /\ x < g[a].n => x \in mp2
      BY DEF Backed
    <2>1. CASE a = fin
      BY <2>1
    <2>2. CASE a # fin
      BY <2>2 DEF Backed
    <2> QED BY <2>1, <2>2
  <1> QED BY <1>1, <1>2

\* New memory elsewhere is a region that follows the last one on the chain.
LEMMA RegionKeepsHeap ==
  ASSUME NEW f, NEW hd, NEW fin, NEW mp, Heap(f, hd, fin, mp),
         NEW base \in Nat, \A a \in DOMAIN f : a + Header + f[a].size <= base,
         NEW g, Typed(g), DOMAIN g = DOMAIN f \cup {base},
         \A a \in DOMAIN f : a # fin => g[a] = f[a],
         g[fin].size = f[fin].size, g[fin].final, g[fin].n = base,
         g[base].free, g[base].final, g[base].n = NULL,
         NEW mp2, \A x \in mp : x \in mp2,
         \A x \in Nat : base <= x /\ x < base + Header + g[base].size => x \in mp2
  PROVE  Heap(g, hd, base, mp2)
  <1> USE SizesAssumption DEF Heap
  <1>1. \A a \in DOMAIN f : a \in Nat /\ a < base
    BY DEF Typed, Headers
  <1>2. Chain(g, hd, base)
    <2>1. hd \in DOMAIN g /\ base \in DOMAIN g /\ fin \in DOMAIN f /\ fin \in Nat
      BY <1>1 DEF Chain
    <2>2. \A a \in DOMAIN g : hd <= a /\ a <= base
      BY <1>1 DEF Chain
    <2>3. ASSUME NEW a \in DOMAIN g, a # base
          PROVE  g[a].n \in DOMAIN g /\ a + Header + g[a].size <= g[a].n
      BY <2>1, <2>3 DEF Chain
    <2>4. ASSUME NEW a \in DOMAIN g, NEW c \in DOMAIN g, a < c
          PROVE  g[a].n <= c
      <3>1. a \in DOMAIN f
        BY <1>1, <2>4
      <3>2. CASE a = fin
        BY <1>1, <2>4, <3>1, <3>2 DEF Chain
      <3>3. CASE a # fin /\ c = base
        <4>1. g[a].n \in DOMAIN f
          BY <3>1, <3>3 DEF Chain
        <4> QED BY <1>1, <3>3, <4>1
      <3>4. CASE a # fin /\ c # base
        BY <2>4, <3>1, <3>4 DEF Chain
      <3> QED BY <3>2, <3>3, <3>4
    <2> QED BY <2>1, <2>2, <2>3, <2>4 DEF Chain
  <1>3. Backed(g, mp2)
    <2> SUFFICES ASSUME NEW a \in DOMAIN g, NEW x \in Nat, a <= x
                 PROVE  /\ x < a + Header + g[a].size => x \in mp2
                        /\ ~g[a].final /\ x < g[a].n => x \in mp2
      BY DEF Backed
    <2>1. CASE a = base
      BY <2>1
    <2>2. CASE a # base
      BY <2>2 DEF Backed
    <2> QED BY <2>1, <2>2
  <1> QED BY <1>2, <1>3

-----------------------------------------------------------------------------
(* Who owns what.                                                          *)

Owned(f, lv) ==
  /\ {a \in DOMAIN f : ~f[a].free} = DOMAIN lv
  /\ \A a \in DOMAIN lv : lv[a] <= f[a].size

\* merge_headers keeps the shape and every block in use.
LEMMA merge_headersKeeps ==
  ASSUME NEW f, NEW hd, NEW fin, NEW mp, Heap(f, hd, fin, mp), \A x \in mp : x < U32,
         NEW lv, Owned(f, lv), NEW b \in DOMAIN f
  PROVE  /\ Heap(merge_headers(f, b), hd, FinalAfterMerge(f, b, fin), mp)
         /\ Owned(merge_headers(f, b), lv)
  <1>1. CASE CanMerge(f, b)
    <2> DEFINE g == merge_headers(f, b)
               n == f[b].n
    <2>1. g = Merged(f, b)
      BY <1>1 DEF merge_headers
    <2>2. Heap(g, hd, FinalAfterMerge(f, b, fin), mp) /\ MergeEffect(f, b, g)
      BY <1>1, <2>1, MergeKeepsHeap
    <2>3. f[b].free /\ f[n].free
      BY <1>1 DEF CanMerge
    <2> HIDE DEF g
    <2>4. Owned(g, lv)
      BY <2>2, <2>3 DEF Owned, MergeEffect
    <2> QED BY <2>2, <2>4 DEF g
  <1>2. CASE ~CanMerge(f, b)
    BY <1>2 DEF merge_headers, FinalAfterMerge
  <1> QED BY <1>1, <1>2

-----------------------------------------------------------------------------
(* The inductive invariant.                                                *)

\* The sizes of requests fit a u32 together with a header, and so does the
\* whole heap: mmu.c has frames for 4 GiB.  The kernel's own callers ask for a
\* few pages; kmalloc_wide shows what happens otherwise.
Narrow ==
  /\ \A s \in Requests : s + Header < U32
  /\ \A m \in Arrays : ~MulOverflows(m[1], m[2]) => Product(m[1], m[2]) + Header < U32
  /\ MaxHeap <= U32

HeapInv ==
  IF head = NULL THEN DOMAIN hdr = {} /\ final = NULL
                 ELSE Heap(hdr, head, final, mapped)

\* ksbrk's memory lies below brk, and no more of it than a u32 counts.
Below == brk # 0 /\ \A x \in mapped : x < brk /\ x < U32

\* Where find_free_entry's cursor is.
Cursor ==
  /\ pc \in {"idle", "done"} \/ head = NULL => p = NULL
  /\ pc = "merge" => p # NULL

\* int_kmalloc asks for no less than its caller means, and for a size whose
\* sum with a header does not wrap; between calls there is no request.
Request ==
  /\ pc \in {"find", "merge"} => req.want <= req.s /\ req.s + Header < U32
  /\ pc = "idle" => req = NoReq

\* After add_heap_memory the last entry is large enough, and the walk does not
\* pass it.
LargeEnough ==
  grown /\ pc \in {"find", "merge"} =>
    p # NULL /\ hdr[final].size >= req.s + Header

IInv ==
  /\ TypeOK /\ Typed(hdr) /\ live \in [DOMAIN live -> Nat]
  /\ HeapInv /\ Owned(hdr, live) /\ Below /\ Cursor /\ Request /\ LargeEnough

\* Before the first call there is no heap.
LEMMA InitIInv == Init => IInv
  <1> SUFFICES ASSUME Init PROVE IInv
    OBVIOUS
  <1> USE SizesAssumption DEF Init
  <1>1. DOMAIN hdr = {} /\ DOMAIN live = {} /\ live \in [DOMAIN live -> Nat] /\ Typed(hdr)
    BY DEF Typed
  <1>2. TypeOK
    <2>1. brk \in Nat
      OBVIOUS
    <2>2. req \in [s : Nat, want : Nat, old : DOMAIN live \cup {NULL}]
      BY DEF NoReq, NULL
    <2> QED BY <1>1, <2>1, <2>2 DEF TypeOK
  <1>3. HeapInv /\ Owned(hdr, live) /\ Below /\ Cursor /\ Request /\ LargeEnough
    BY <1>1 DEF HeapInv, Owned, Below, Cursor, Request, LargeEnough
  <1> QED BY <1>1, <1>2, <1>3 DEF IInv

-----------------------------------------------------------------------------
(* The walk.                                                               *)

\* The parts of the invariant that only the heap decides.
HeapParts ==
  /\ Typed(hdr) /\ live \in [DOMAIN live -> Nat]
  /\ HeapInv /\ Owned(hdr, live) /\ Below

\* A step that leaves the heap alone keeps its shape.
LEMMA HeapUnchanged ==
  ASSUME HeapParts, UNCHANGED <<heap, live>>
  PROVE  HeapParts'
  BY DEF HeapParts, HeapInv, Below, heap

\* The size find_free_entry looks for, without a wrap.
LEMMA RequiredIsExact ==
  ASSUME IInv, pc \in {"find", "merge"}
  PROVE  RequiredSize = req.s + Header
  <1>1. req.s \in Nat /\ req.s + Header < U32
    BY DEF IInv, Request, TypeOK
  <1>2. \A x, k \in Nat : x < k => x % k = x
    OBVIOUS
  <1>3. U32 \in Nat /\ Header \in Nat
    BY SizesAssumption
  <1>4. req.s % U32 = req.s
    BY <1>1, <1>2, <1>3
  <1>5. (req.s + Header) % U32 = req.s + Header
    BY <1>1, <1>2, <1>3
  <1> QED BY <1>4, <1>5 DEF RequiredSize

\* A cursor that is not NULL is on a heap.
LEMMA OnHeap ==
  ASSUME IInv, p # NULL
  PROVE  /\ p \in DOMAIN hdr /\ head # NULL /\ Heap(hdr, head, final, mapped)
         /\ hdr[p].size \in Nat /\ hdr[p].n \in Nat
         /\ p # final => hdr[p].n \in DOMAIN hdr /\ hdr[p].n # NULL
         /\ p = final => hdr[p].free /\ hdr[p].n = NULL
  <1>1. p \in DOMAIN hdr /\ head # NULL /\ Heap(hdr, head, final, mapped)
    BY DEF IInv, TypeOK, Cursor, HeapInv
  <1> QED BY <1>1 DEF Heap, Chain, Typed, Headers

\* An entry in use is passed; it is not the last.
LEMMA FindNextIInv == IInv /\ FindNext => IInv'
  <1> SUFFICES ASSUME IInv, FindNext PROVE IInv'
    OBVIOUS
  <1>1. /\ UNCHANGED <<heap, live, pc, req, grown>> /\ pc = "find" /\ p' = hdr[p].n
        /\ p # final /\ p' \in DOMAIN hdr /\ p' # NULL /\ head # NULL
    BY OnHeap DEF FindNext
  <1>2. HeapParts'
    BY <1>1, HeapUnchanged DEF IInv, HeapParts
  <1>3. TypeOK'
    BY <1>1 DEF IInv, TypeOK, heap
  <1>4. Cursor' /\ Request' /\ LargeEnough'
    BY <1>1 DEF IInv, Cursor, Request, LargeEnough, heap
  <1> QED BY <1>2, <1>3, <1>4 DEF IInv, HeapParts

\* A free entry that is too small is not taken yet: merge_headers is tried.
LEMMA FindSmallIInv == IInv /\ FindSmall => IInv'
  <1> SUFFICES ASSUME IInv, FindSmall PROVE IInv'
    OBVIOUS
  <1>1. UNCHANGED <<heap, live, req, p, grown>> /\ pc = "find" /\ pc' = "merge" /\ p # NULL
    BY DEF FindSmall
  <1>2. HeapParts'
    BY <1>1, HeapUnchanged DEF IInv, HeapParts
  <1>3. TypeOK'
    BY <1>1 DEF IInv, TypeOK, heap
  <1>4. Cursor' /\ Request' /\ LargeEnough'
    BY <1>1 DEF IInv, Cursor, Request, LargeEnough, heap
  <1> QED BY <1>2, <1>3, <1>4 DEF IInv, HeapParts

\* An entry that stays too small is passed; after add_heap_memory it is not
\* the last.
LEMMA MergeTooSmallIInv == IInv /\ MergeTooSmall => IInv'
  <1> SUFFICES ASSUME IInv, MergeTooSmall PROVE IInv'
    OBVIOUS
  <1>1. /\ UNCHANGED <<heap, live, req, grown>> /\ pc = "merge" /\ pc' = "find"
        /\ p' = hdr[p].n /\ p # NULL /\ hdr[p].size < RequiredSize
    BY DEF MergeTooSmall, IInv, Cursor
  <1>2. p' \in DOMAIN hdr \cup {NULL} /\ (p # final => p' # NULL) /\ head # NULL
    BY <1>1, OnHeap
  <1>3. HeapParts'
    BY <1>1, HeapUnchanged DEF IInv, HeapParts
  <1>4. TypeOK'
    BY <1>1, <1>2 DEF IInv, TypeOK, heap
  <1>5. Cursor' /\ Request'
    BY <1>1, <1>2 DEF IInv, Cursor, Request, heap
  <1>6. LargeEnough'
    <2>1. hdr[p].size < req.s + Header
      BY <1>1, RequiredIsExact
    <2>2. req.s \in Nat /\ hdr[p].size \in Nat
      BY <1>1, OnHeap DEF IInv, TypeOK
    <2>3. grown => hdr[final].size >= req.s + Header
      BY <1>1 DEF IInv, LargeEnough
    <2>4. grown => p # final
      BY <2>1, <2>2, <2>3, SizesAssumption
    <2> QED BY <1>1, <1>2, <2>3, <2>4 DEF LargeEnough, heap
  <1> QED BY <1>3, <1>4, <1>5, <1>6 DEF IInv, HeapParts

\* A merge on the way: the last entry only grows.
LEMMA MergeMoreIInv == IInv /\ MergeMore => IInv'
  <1> SUFFICES ASSUME IInv, MergeMore PROVE IInv'
    OBVIOUS
  <1>1. /\ UNCHANGED <<head, mapped, brk, live, pc, req, p, grown>>
        /\ pc = "merge" /\ p # NULL /\ CanMerge(hdr, p)
        /\ hdr' = Merged(hdr, p) /\ final' = FinalAfterMerge(hdr, p, final)
    BY DEF MergeMore, IInv, Cursor
  <1>2. p \in DOMAIN hdr /\ head # NULL /\ Heap(hdr, head, final, mapped)
    BY <1>1, OnHeap
  <1>3. Heap(hdr', head, final', mapped) /\ MergeEffect(hdr, p, hdr')
    BY <1>1, <1>2, MergeKeepsHeap DEF IInv, Below
  <1>4. Owned(hdr', live)
    <2>1. hdr' = merge_headers(hdr, p)
      BY <1>1 DEF merge_headers
    <2> QED BY <1>2, <2>1, merge_headersKeeps DEF IInv, Below
  <1>5. HeapParts'
    BY <1>1, <1>2, <1>3, <1>4 DEF HeapParts, HeapInv, Heap, IInv, Below
  <1>6. TypeOK'
    <2>1. DOMAIN live \subseteq DOMAIN hdr'
      BY <1>4 DEF Owned
    <2>2. final' \in DOMAIN hdr' /\ head \in DOMAIN hdr' /\ Typed(hdr')
      BY <1>3 DEF Heap, Chain
    <2>3. p \in DOMAIN hdr'
      BY <1>2, <1>3 DEF MergeEffect
    <2> QED BY <1>1, <2>1, <2>2, <2>3 DEF IInv, TypeOK, Typed, Headers
  <1>7. Cursor' /\ Request'
    BY <1>1 DEF IInv, Cursor, Request
  <1>8. LargeEnough'
    <2>1. final' = IF hdr[p].n = final THEN p ELSE final
      BY <1>1 DEF FinalAfterMerge
    <2>2. p # final /\ final \in DOMAIN hdr
      BY <1>1, <1>2 DEF CanMerge, Heap, Chain
    <2>3. grown => hdr[final].size >= req.s + Header
      BY <1>1 DEF IInv, LargeEnough
    <2>4. hdr'[final'].size >= hdr[final].size
      <3>1. hdr[final].size \in Nat
        BY <2>2 DEF IInv, Typed, Headers
      <3> QED BY <1>3, <2>1, <2>2, <3>1 DEF MergeEffect
    <2>5. hdr[final].size \in Nat /\ req.s \in Nat /\ hdr'[final'].size \in Nat
      BY <1>3, <2>2 DEF IInv, TypeOK, Heap, Chain, Typed, Headers
    <2> QED BY <1>1, <2>3, <2>4, <2>5, SizesAssumption DEF LargeEnough
  <1> QED BY <1>5, <1>6, <1>7, <1>8 DEF IInv, HeapParts

-----------------------------------------------------------------------------
(* The split of int_kmalloc.                                               *)

\* Merging the rest of a split and writing the header in front of it commute.
LEMMA MergeCommutes ==
  ASSUME NEW f, NEW new \in DOMAIN f, NEW q, q # new, NEW block,
         f[new].final \/ (f[new].n \in DOMAIN f /\ f[new].n # q /\ f[new].n # new),
         NEW fin
  PROVE  /\ With(merge_headers(f, new), q, block) = merge_headers(With(f, q, block), new)
         /\ FinalAfterMerge(f, new, fin) = FinalAfterMerge(With(f, q, block), new, fin)
  <1> DEFINE g == With(f, q, block)
             n == f[new].n
  <1>1. /\ DOMAIN g = DOMAIN f \cup {q} /\ g[q] = block
        /\ \A x \in DOMAIN f : x # q => g[x] = f[x]
    BY DEF With
  <1>2. g[new] = f[new] /\ (n \in DOMAIN f /\ n # q => g[n] = f[n])
    BY <1>1
  <1> HIDE DEF g
  <1>3. CanMerge(f, new) <=> CanMerge(g, new)
    BY <1>2 DEF CanMerge
  <1>4. CASE ~CanMerge(f, new)
    BY <1>3, <1>4 DEF merge_headers, FinalAfterMerge, g
  <1>5. CASE CanMerge(f, new)
    <2>1. n \in DOMAIN f /\ n # q /\ n # new
      BY <1>5 DEF CanMerge
    <2> DEFINE e == Entry((f[new].size + f[n].size) % U32, TRUE, f[new].final \/ f[n].final, f[n].n)
    <2>2. Merged(f, new) = With(Without(f, n), new, e)
      BY DEF Merged
    <2>3. Merged(g, new) = With(Without(g, n), new, e)
      BY <1>2, <2>1 DEF Merged
    <2> HIDE DEF e, n
    <2>4. With(With(Without(f, n), new, e), q, block) = With(Without(g, n), new, e)
      <3> DEFINE wf == Without(f, n)
                 wg == Without(g, n)
      <3>1. DOMAIN wf = DOMAIN f \ {n} /\ \A x \in DOMAIN wf : wf[x] = f[x]
        BY DEF Without
      <3>2. DOMAIN wg = DOMAIN g \ {n} /\ \A x \in DOMAIN wg : wg[x] = g[x]
        BY DEF Without
      <3> HIDE DEF wf, wg
      <3> DEFINE l1 == With(wf, new, e)
                 l2 == With(l1, q, block)
                 r == With(wg, new, e)
      <3>3. DOMAIN l1 = DOMAIN wf \cup {new} /\ l1[new] = e
            /\ \A x \in DOMAIN wf : x # new => l1[x] = wf[x]
        BY DEF With
      <3> HIDE DEF l1
      <3>4. l2 = [x \in DOMAIN l1 \cup {q} |-> IF x = q THEN block ELSE l1[x]]
        BY DEF With
      <3>5. r = [x \in DOMAIN wg \cup {new} |-> IF x = new THEN e ELSE wg[x]]
        BY DEF With
      <3>6. DOMAIN l1 \cup {q} = DOMAIN wg \cup {new}
        BY <1>1, <2>1, <3>1, <3>2, <3>3
      <3>7. ASSUME NEW x \in DOMAIN wg \cup {new}
            PROVE  (IF x = q THEN block ELSE l1[x]) = (IF x = new THEN e ELSE wg[x])
        BY <1>1, <2>1, <3>1, <3>2, <3>3
      <3> HIDE DEF l2, r
      <3>8. l2 = r
        BY <3>4, <3>5, <3>6, <3>7
      <3> QED BY <3>8 DEF l2, r, l1, wf, wg
    <2>5. With(merge_headers(f, new), q, block) = merge_headers(g, new)
      BY <1>3, <1>5, <2>2, <2>3, <2>4 DEF merge_headers
    <2>6. FinalAfterMerge(f, new, fin) = FinalAfterMerge(g, new, fin)
      BY <1>2, <1>3, <1>5 DEF FinalAfterMerge
    <2> QED BY <2>5, <2>6 DEF g
  <1> QED BY <1>4, <1>5

\* The entry found becomes the caller's block and a free rest.
LEMMA SplitIInv == IInv /\ Split => IInv'
  <1> SUFFICES ASSUME IInv, Split PROVE IInv'
    OBVIOUS
  <1> DEFINE s == req.s
             new == p + Header + s
             r == (hdr[p].size - s - Header) % U32
             rest == Entry(r, hdr[p].free, hdr[p].final, hdr[p].n)
             f1 == With(hdr, new, rest)
             fin1 == IF p = final THEN new ELSE final
             block == Entry(s % U32, FALSE, FALSE, new)
             g == With(f1, p, block)
  <1>1. /\ UNCHANGED <<head, mapped, brk, req, grown>>
        /\ p # NULL /\ Found /\ p' = NULL /\ pc' = "done"
        /\ live' = With(live, p, req.want)
        /\ hdr' = With(merge_headers(f1, new), p, block)
        /\ final' = FinalAfterMerge(f1, new, fin1)
    BY DEF Split
  <1>2. /\ p \in DOMAIN hdr /\ head # NULL /\ Heap(hdr, head, final, mapped)
        /\ hdr[p].size \in Nat /\ hdr[p].n \in Nat
        /\ p # final => hdr[p].n \in DOMAIN hdr
    BY <1>1, OnHeap
  <1>3. pc \in {"find", "merge"} /\ hdr[p].free /\ hdr[p].size >= RequiredSize
    BY <1>1 DEF Found
  <1>4. s \in Nat /\ req.want \in Nat /\ req.want <= s /\ s + Header <= hdr[p].size
    <2>1. s \in Nat /\ req.want \in Nat /\ req.want <= s
      BY <1>3 DEF IInv, TypeOK, Request
    <2>2. RequiredSize = s + Header
      BY <1>3, RequiredIsExact
    <2> QED BY <1>2, <1>3, <2>1, <2>2, SizesAssumption
  <1>24. s % U32 = s
    BY <1>3, <1>4, ModIsExact, SizesAssumption DEF IInv, Request
  <1>5. r \in Nat /\ s + Header + r <= hdr[p].size
    <2>1. hdr[p].size - s - Header \in Nat
      BY <1>2, <1>4, SizesAssumption
    <2>2. \A x \in Nat, d \in Nat \ {0} : x % d \in Nat /\ x % d <= x
      <3> SUFFICES ASSUME NEW x \in Nat, NEW d \in Nat \ {0}
                   PROVE  x % d \in Nat /\ x % d <= x
        OBVIOUS
      <3>1. x % d \in 0..d - 1
        BY DivBounds
      <3>2. x < d => x % d = x
        OBVIOUS
      <3> QED BY <3>1, <3>2
    <2>3. r \in Nat /\ r <= hdr[p].size - s - Header
      BY <2>1, <2>2, SizesAssumption
    <2> QED BY <1>2, <1>4, <2>3, SizesAssumption
  <1>6. /\ p \in Nat /\ new \in Nat /\ p < new
        /\ \A x \in DOMAIN hdr : x \in Nat /\ (p < x => new < x)
    <2>1. \A x \in DOMAIN hdr : x \in Nat
      BY <1>2 DEF Heap, Typed
    <2>2. p \in Nat /\ new \in Nat /\ p < new
      BY <1>2, <1>4, <2>1, SizesAssumption
    <2>3. ASSUME NEW x \in DOMAIN hdr, p < x PROVE new < x
      <3>1. p # final /\ hdr[p].n <= x
        BY <1>2, <2>1, <2>3 DEF Heap, Chain
      <3>2. p + Header + hdr[p].size <= hdr[p].n
        BY <1>2, <3>1 DEF Heap, Chain
      <3> QED BY <1>2, <1>4, <2>1, <3>1, <3>2, SizesAssumption
    <2> QED BY <2>1, <2>2, <2>3
  <1>7. new \notin DOMAIN hdr /\ new # p
    BY <1>6
  <1>8. /\ rest.size = r /\ rest.free = TRUE /\ rest.final = hdr[p].final /\ rest.n = hdr[p].n
        /\ block.size = s /\ block.free = FALSE /\ block.final = FALSE /\ block.n = new
        /\ rest \in Headers /\ block \in Headers
    <2>1. hdr[p].final \in BOOLEAN /\ hdr[p].free = TRUE
      BY <1>2, <1>3 DEF Heap, Typed, Headers
    <2> HIDE DEF r, s, new
    <2> QED BY <1>2, <1>4, <1>24, <1>5, <1>6, <2>1 DEF Entry, Headers
  <1> HIDE DEF s, new, r, rest, block
  <1>9. /\ DOMAIN f1 = DOMAIN hdr \cup {new} /\ f1[new] = rest
        /\ \A x \in DOMAIN hdr : f1[x] = hdr[x]
    BY <1>7 DEF With
  <1>10. \A x \in DOMAIN f1 : f1[x] \in Headers
    BY <1>2, <1>8, <1>9 DEF Heap, Typed
  <1> HIDE DEF f1
  <1>11. g \in [DOMAIN f1 \cup {p} -> Headers]
    BY <1>8, <1>10, WithTyped
  <1>12. /\ g[p] = block
         /\ \A x \in DOMAIN f1 : x # p => g[x] = f1[x]
    BY DEF With
  <1>13. DOMAIN f1 \cup {p} = DOMAIN hdr \cup {new}
    BY <1>2, <1>9
  <1>14. /\ hdr' = merge_headers(g, new) /\ final' = FinalAfterMerge(g, new, fin1)
    <2>1. new \in DOMAIN f1 /\ p # new
      BY <1>7, <1>9
    <2>2. f1[new].final \/ (f1[new].n \in DOMAIN f1 /\ f1[new].n # p /\ f1[new].n # new)
      <3>1. CASE p = final
        BY <1>2, <1>8, <1>9, <3>1 DEF Heap, Chain
      <3>2. CASE p # final
        <4>1. hdr[p].n \in DOMAIN hdr /\ p + Header + hdr[p].size <= hdr[p].n
          BY <1>2, <3>2 DEF Heap, Chain
        <4>2. hdr[p].n # p
          BY <1>2, <1>6, <4>1, SizesAssumption
        <4> QED BY <1>7, <1>8, <1>9, <4>1, <4>2
      <3> QED BY <3>1, <3>2
    <2>3. /\ With(merge_headers(f1, new), p, block) = merge_headers(g, new)
          /\ FinalAfterMerge(f1, new, fin1) = FinalAfterMerge(g, new, fin1)
      BY <2>1, <2>2, MergeCommutes
    <2> QED BY <1>1, <2>3
  <1> HIDE DEF g
  <1>15. /\ DOMAIN g = DOMAIN hdr \cup {new} /\ g[new] = rest /\ g[p] = block
         /\ \A x \in DOMAIN hdr : x # p => g[x] = hdr[x]
    BY <1>7, <1>9, <1>11, <1>12, <1>13
  <1>16. Typed(g)
    <2>1. g \in [DOMAIN g -> Headers]
      BY <1>11, <1>13, <1>15
    <2>2. DOMAIN g \subseteq Nat \ {NULL}
      BY <1>6, <1>15 DEF IInv, Typed, NULL
    <2> QED BY <2>1, <2>2 DEF Typed
  <1>17. Heap(g, head, fin1, mapped)
    <2>1. new = p + Header + s
      BY DEF new
    <2> QED BY <1>2, <1>4, <1>5, <1>6, <1>8, <1>15, <1>16, <2>1, SplitKeepsHeap
  <1>18. DOMAIN live' = DOMAIN live \cup {p} /\ live' \in [DOMAIN live' -> Nat]
         /\ live'[p] = req.want /\ \A x \in DOMAIN live : x # p => live'[x] = live[x]
    <2>1. live' \in [DOMAIN live \cup {p} -> Nat]
      BY <1>1, <1>4, WithTyped DEF IInv
    <2> QED BY <1>1, <2>1 DEF With
  <1>19. Owned(g, live')
    BY <1>2, <1>3, <1>4, <1>7, <1>8, <1>15, <1>18 DEF IInv, Owned
  <1>20. Heap(hdr', head, final', mapped) /\ Owned(hdr', live')
    BY <1>14, <1>15, <1>17, <1>19, merge_headersKeeps DEF IInv, Below
  <1>21. HeapParts'
    BY <1>1, <1>2, <1>18, <1>20 DEF HeapParts, HeapInv, Heap, IInv, Below
  <1>22. TypeOK'
    <2>1. DOMAIN live' \subseteq DOMAIN hdr' /\ \A a \in DOMAIN live' : live'[a] \in Nat
      BY <1>18, <1>20 DEF Owned
    <2>2. final' \in DOMAIN hdr' /\ head \in DOMAIN hdr' /\ Typed(hdr')
      BY <1>20 DEF Heap, Chain
    <2>3. req \in [s : Nat, want : Nat, old : DOMAIN live' \cup {NULL}]
      BY <1>18 DEF IInv, TypeOK
    <2> QED BY <1>1, <2>1, <2>2, <2>3 DEF IInv, TypeOK, Typed, Headers
  <1>23. Cursor' /\ Request' /\ LargeEnough'
    BY <1>1 DEF Cursor, Request, LargeEnough
  <1> QED BY <1>21, <1>22, <1>23 DEF IInv, HeapParts

-----------------------------------------------------------------------------
(* Memory from ksbrk.                                                      *)

\* What ksbrk hands out lies above all that it handed out before.
LEMMA KsbrkGives ==
  ASSUME Narrow, IInv, NEW base \in Nat, NEW n \in Nat, Ksbrk(base, n)
  PROVE  /\ base >= brk
         /\ \A x \in mapped : x \in mapped'
         /\ \A x \in Nat : base <= x /\ x < base + n => x \in mapped'
         /\ brk' \in Nat /\ brk' # 0 /\ mapped' \subseteq Nat /\ brk' <= U32 /\ base + n <= brk'
         /\ \A x \in mapped' : x < brk' /\ x < U32
  <1> DEFINE size == PagesFor(n) * Page
  <1>1. size \in Nat /\ n <= size
    BY PagesSuffice
  <1>2. /\ mapped' = mapped \cup (base..base + size - 1) /\ brk' = base + size
        /\ brk' <= MaxHeap
    BY DEF Ksbrk
  <1>3. brk \in Nat /\ brk # 0 /\ mapped \subseteq Nat /\ MaxHeap \in Nat /\ U32 \in Nat
        /\ MaxHeap <= U32 /\ \A x \in mapped : x < brk /\ x < U32
    BY SizesAssumption DEF IInv, TypeOK, Below, Narrow
  <1>4. base >= brk
    <2>1. PICK k \in Gaps : base = brk + k * Page
      BY DEF Ksbrk
    <2>2. k * Page \in Nat
      BY SizesAssumption
    <2> QED BY <1>3, <2>1, <2>2
  <1> HIDE DEF size
  <1> QED BY <1>1, <1>2, <1>3, <1>4

\* The first region becomes the heap.
LEMMA kmalloc_initIInv == Narrow /\ IInv /\ kmalloc_init => IInv'
  <1> SUFFICES ASSUME Narrow, IInv, kmalloc_init PROVE IInv'
    OBVIOUS
  <1> DEFINE e == Entry((NEW_ALLOC_SIZE - Header) % U32, TRUE, TRUE, NULL)
  <1>1. /\ UNCHANGED <<live, pc, req, grown>> /\ pc = "find" /\ head = NULL
        /\ Ksbrk(brk, NEW_ALLOC_SIZE) /\ hdr' = With(hdr, brk, e)
        /\ head' = brk /\ final' = brk /\ p' = brk
    BY DEF kmalloc_init
  <1>2. /\ brk \in Nat /\ brk # NULL /\ DOMAIN hdr = {} /\ p = NULL
    BY <1>1 DEF IInv, TypeOK, Below, HeapInv, Cursor, NULL
  <1>3. /\ \A x \in Nat : brk <= x /\ x < brk + NEW_ALLOC_SIZE => x \in mapped'
        /\ brk' \in Nat /\ brk' # 0 /\ mapped' \subseteq Nat /\ brk' <= U32 /\ brk + NEW_ALLOC_SIZE <= brk'
        /\ \A x \in mapped' : x < brk' /\ x < U32
    BY <1>1, <1>2, SizesAssumption, KsbrkGives
  <1>4. /\ e.size = NEW_ALLOC_SIZE - Header /\ e.free = TRUE /\ e.final = TRUE /\ e.n = NULL
        /\ e \in Headers
    <2>1. (NEW_ALLOC_SIZE - Header) % U32 = NEW_ALLOC_SIZE - Header
      <3>1. NEW_ALLOC_SIZE - Header \in Nat /\ NEW_ALLOC_SIZE - Header < U32
        BY <1>2, <1>3, SizesAssumption
      <3> QED BY <3>1, ModIsExact, SizesAssumption
    <2> QED BY <2>1, SizesAssumption DEF Entry, Headers, NULL
  <1> HIDE DEF e
  <1>5. DOMAIN hdr' = {brk} /\ hdr' \in [DOMAIN hdr' -> Headers] /\ hdr'[brk] = e
    <2>1. hdr' \in [DOMAIN hdr \cup {brk} -> Headers]
      BY <1>1, <1>2, <1>4, WithTyped
    <2> QED BY <1>1, <1>2, <2>1 DEF With
  <1>6. Typed(hdr')
    BY <1>2, <1>5 DEF Typed
  <1>7. Heap(hdr', brk, brk, mapped')
    <2>1. brk + Header + hdr'[brk].size = brk + NEW_ALLOC_SIZE
      BY <1>2, <1>4, <1>5, SizesAssumption
    <2> QED BY <1>2, <1>3, <1>4, <1>5, <1>6, <2>1, FirstHeap
  <1>8. DOMAIN live = {}
    BY <1>2 DEF IInv, Owned
  <1>9. Owned(hdr', live)
    BY <1>4, <1>5, <1>8 DEF Owned
  <1>10. HeapParts'
    BY <1>1, <1>2, <1>3, <1>6, <1>7, <1>9 DEF HeapParts, HeapInv, IInv, Below
  <1>11. TypeOK'
    BY <1>1, <1>3, <1>5, <1>6, <1>8 DEF IInv, TypeOK, Typed, Headers
  <1>12. Cursor' /\ Request' /\ LargeEnough'
    BY <1>1, <1>2 DEF IInv, Cursor, Request, LargeEnough
  <1> QED BY <1>10, <1>11, <1>12 DEF IInv, HeapParts

\* Both ways to add memory leave a last entry that has room for the request
\* and a header.
LEMMA add_heap_memoryIInv == Narrow /\ IInv /\ add_heap_memory => IInv'
  <1> SUFFICES ASSUME Narrow, IInv, add_heap_memory PROVE IInv'
    OBVIOUS
  <1> DEFINE n == AllocationSize(req.s)
             Follows(base) == hdr[final].free /\ base = final + Header + hdr[final].size
  <1>1. PICK base \in Bases :
          /\ Ksbrk(base, n)
          /\ \/ /\ Follows(base)
                /\ hdr' = [hdr EXCEPT ![final].size = (@ + n - Header) % U32] /\ final' = final
             \/ /\ ~Follows(base)
                /\ hdr' = With([hdr EXCEPT ![final].n = base], base,
                               Entry((n - Header) % U32, TRUE, TRUE, NULL))
                /\ final' = base
    BY DEF add_heap_memory
  <1>2. /\ pc = "find" /\ head # NULL /\ p = NULL /\ p' = head /\ grown' = TRUE
        /\ UNCHANGED <<head, live, pc, req>>
    BY DEF add_heap_memory
  <1>3. /\ Heap(hdr, head, final, mapped) /\ Typed(hdr) /\ head \in DOMAIN hdr
        /\ final \in DOMAIN hdr /\ final \in Nat /\ hdr[final] \in Headers
        /\ hdr[final].free /\ hdr[final].final /\ hdr[final].n = NULL
        /\ hdr[final].size \in Nat
    BY <1>2 DEF IInv, HeapInv, Heap, Chain, Typed, Headers
  <1>4. n \in Nat /\ n > req.s + 3 * Header /\ req.s \in Nat /\ Header \in Nat \ {0}
    BY AllocationCovers, SizesAssumption DEF IInv, TypeOK
  <1>5. base \in Nat
    <2>1. PICK k \in Gaps : base = brk + k * Page
      BY <1>1 DEF Bases
    <2>2. k * Page \in Nat
      BY SizesAssumption
    <2> QED BY <2>1, <2>2 DEF IInv, TypeOK
  <1> HIDE DEF n
  <1>6. /\ base >= brk
        /\ \A x \in mapped : x \in mapped'
        /\ \A x \in Nat : base <= x /\ x < base + n => x \in mapped'
        /\ brk' \in Nat /\ brk' # 0 /\ mapped' \subseteq Nat /\ brk' <= U32 /\ base + n <= brk'
        /\ \A x \in mapped' : x < brk' /\ x < U32
    BY <1>1, <1>4, <1>5, KsbrkGives
  <1> DEFINE Extended ==
               /\ Heap(hdr', head, final', mapped') /\ Owned(hdr', live)
               /\ hdr'[final'].size >= req.s + Header
  <1>7. ASSUME Follows(base) PROVE Extended
    <2> DEFINE size == hdr[final].size + n - Header
    <2>2. size \in Nat /\ size >= req.s + Header
      BY <1>3, <1>4
    <2>3. base = final + Header + hdr[final].size /\ final + Header + size = base + n - Header
      BY <1>3, <1>4, <1>7
    <2>1. hdr' = [hdr EXCEPT ![final].size = size] /\ final' = final
      <3>1. size % U32 = size
        <4>1. size < U32
          BY <1>3, <1>4, <1>5, <1>6, <2>2, <2>3, SizesAssumption
        <4> HIDE DEF size
        <4> QED BY <2>2, <4>1, ModIsExact, SizesAssumption
      <3>2. hdr' = [hdr EXCEPT ![final].size = size % U32] /\ final' = final
        BY <1>1, <1>7
      <3> QED BY <3>1, <3>2
    <2> HIDE DEF size
    <2>4. /\ DOMAIN hdr' = DOMAIN hdr /\ Typed(hdr')
          /\ \A a \in DOMAIN hdr : a # final => hdr'[a] = hdr[a]
          /\ hdr'[final].size = size /\ hdr'[final].free = hdr[final].free
          /\ hdr'[final].final = hdr[final].final /\ hdr'[final].n = hdr[final].n
      BY <1>3, <2>1, <2>2 DEF Typed, Headers
    <2>5. \A x \in Nat : final <= x /\ x < final + Header + hdr'[final].size => x \in mapped'
      <3>1. \A x \in Nat : final <= x /\ x < final + Header + hdr[final].size => x \in mapped
        BY <1>3 DEF Heap, Backed
      <3> QED BY <1>3, <1>4, <1>5, <1>6, <2>3, <2>4, <3>1
    <2>6. Heap(hdr', head, final, mapped')
      BY <1>3, <1>6, <2>4, <2>5, ExtendKeepsHeap
    <2>7. Owned(hdr', live)
      <3>1. final \notin DOMAIN live
        BY <1>3 DEF IInv, Owned
      <3> QED BY <1>3, <2>4, <3>1 DEF IInv, Owned
    <2>8. Extended
      BY <2>1, <2>2, <2>4, <2>6, <2>7
    <2> QED BY <2>8
  <1>8. ASSUME ~Follows(base) PROVE Extended
    <2> DEFINE e == Entry((n - Header) % U32, TRUE, TRUE, NULL)
               f1 == [hdr EXCEPT ![final].n = base]
    <2>1. hdr' = With(f1, base, e) /\ final' = base
      BY <1>1, <1>8
    <2>2. /\ e.size = n - Header /\ e.free = TRUE /\ e.final = TRUE /\ e.n = NULL
          /\ e \in Headers /\ n - Header >= req.s + Header
      <3>1. n - Header \in Nat /\ n - Header < U32 /\ n - Header >= req.s + Header
        BY <1>4, <1>5, <1>6, SizesAssumption
      <3>2. (n - Header) % U32 = n - Header
        BY <3>1, ModIsExact, SizesAssumption
      <3> QED BY <3>1, <3>2 DEF Entry, Headers, NULL
    <2>3. \A a \in DOMAIN hdr : a + Header + hdr[a].size <= base
      <3> SUFFICES ASSUME NEW a \in DOMAIN hdr PROVE a + Header + hdr[a].size <= base
        OBVIOUS
      <3>1. a \in Nat /\ hdr[a].size \in Nat /\ brk \in Nat
        BY <1>3 DEF Typed, Headers, IInv, TypeOK
      <3>2. a + Header + hdr[a].size - 1 \in mapped
        <4>1. \A x \in Nat : a <= x /\ x < a + Header + hdr[a].size => x \in mapped
          BY <1>3 DEF Heap, Backed
        <4> QED BY <1>4, <3>1, <4>1
      <3>3. a + Header + hdr[a].size - 1 < brk
        BY <3>2 DEF IInv, Below
      <3> QED BY <1>4, <1>5, <1>6, <3>1, <3>3
    <2>4. base \notin DOMAIN hdr /\ base # NULL
      <3>1. \A a \in DOMAIN hdr : a \in Nat /\ hdr[a].size \in Nat
        BY <1>3 DEF Typed, Headers
      <3> QED BY <1>3, <1>4, <1>5, <2>3, <3>1 DEF NULL
    <2> HIDE DEF e
    <2>5. /\ DOMAIN f1 = DOMAIN hdr /\ \A a \in DOMAIN hdr : f1[a] \in Headers
          /\ \A a \in DOMAIN hdr : a # final => f1[a] = hdr[a]
          /\ f1[final].size = hdr[final].size /\ f1[final].free = hdr[final].free
          /\ f1[final].final = hdr[final].final /\ f1[final].n = base
      BY <1>3, <1>5 DEF Typed, Headers
    <2> HIDE DEF f1
    <2>6. hdr' \in [DOMAIN f1 \cup {base} -> Headers]
      BY <2>1, <2>2, <2>5, WithTyped
    <2>7. hdr'[base] = e /\ \A a \in DOMAIN f1 : a # base => hdr'[a] = f1[a]
      BY <2>1 DEF With
    <2>8. DOMAIN hdr' = DOMAIN hdr \cup {base} /\ Typed(hdr')
      BY <1>3, <1>5, <2>4, <2>5, <2>6 DEF Typed
    <2>9. /\ \A a \in DOMAIN hdr : a # final => hdr'[a] = hdr[a]
          /\ hdr'[final] = f1[final]
      BY <1>3, <2>4, <2>5, <2>7
    <2>10. \A x \in Nat : base <= x /\ x < base + Header + hdr'[base].size => x \in mapped'
      <3>1. base + Header + hdr'[base].size = base + n
        BY <1>4, <1>5, <2>2, <2>7
      <3> QED BY <1>6, <3>1
    <2>11. Heap(hdr', head, base, mapped')
      <3>1. /\ hdr'[final].size = hdr[final].size /\ hdr'[final].final /\ hdr'[final].n = base
            /\ hdr'[base].free /\ hdr'[base].final /\ hdr'[base].n = NULL
        BY <1>3, <2>2, <2>5, <2>7, <2>9
      <3>2. /\ \A a \in DOMAIN hdr : a # final => hdr'[a] = hdr[a]
            /\ \A x \in mapped : x \in mapped'
        BY <1>6, <2>9
      <3>3. Heap(hdr, head, final, mapped)
        BY <1>3
      <3> QED BY <1>5, <2>3, <2>8, <2>10, <3>1, <3>2, <3>3, RegionKeepsHeap
    <2>12. Owned(hdr', live)
      <3>1. final \notin DOMAIN live /\ base \notin DOMAIN live
        BY <1>3, <2>4 DEF IInv, Owned
      <3>2. hdr'[final].free /\ hdr'[base].free
        BY <1>3, <2>2, <2>5, <2>7, <2>9
      <3>3. /\ DOMAIN hdr' = DOMAIN hdr \cup {base}
            /\ \A a \in DOMAIN hdr : a # final => hdr'[a] = hdr[a]
        BY <2>8, <2>9
      <3>4. Owned(hdr, live)
        BY DEF IInv
      <3>5. \A a \in DOMAIN live : a \in DOMAIN hdr /\ hdr'[a] = hdr[a] /\ ~hdr[a].free
        BY <3>1, <3>3, <3>4 DEF Owned
      <3>6. \A a \in DOMAIN hdr' : ~hdr'[a].free => a \in DOMAIN live
        BY <3>2, <3>3, <3>4 DEF Owned
      <3> QED BY <3>3, <3>4, <3>5, <3>6 DEF Owned
    <2> QED BY <2>1, <2>2, <2>7, <2>11, <2>12
  <1>9. Extended
    BY <1>7, <1>8
  <1>10. HeapParts'
    BY <1>2, <1>6, <1>9 DEF HeapParts, HeapInv, Heap, IInv, Below
  <1>11. TypeOK'
    <2>1. final' \in DOMAIN hdr' /\ head \in DOMAIN hdr' /\ Typed(hdr') /\ DOMAIN live \subseteq DOMAIN hdr'
      BY <1>9 DEF Heap, Chain, Owned
    <2> QED BY <1>2, <1>6, <2>1 DEF IInv, TypeOK, Typed, Headers
  <1>12. Cursor' /\ Request' /\ LargeEnough'
    BY <1>2, <1>9 DEF IInv, Cursor, Request, LargeEnough
  <1> QED BY <1>10, <1>11, <1>12 DEF IInv, HeapParts

\* Without memory the call returns.
LEMMA OutOfMemoryIInv == IInv /\ OutOfMemory => IInv'
  <1> SUFFICES ASSUME IInv, OutOfMemory PROVE IInv'
    OBVIOUS
  <1>1. UNCHANGED <<heap, live, p>> /\ p = NULL /\ pc' = "idle" /\ req' = NoReq /\ grown' = FALSE
    BY DEF OutOfMemory
  <1>2. HeapParts'
    BY <1>1, HeapUnchanged DEF IInv, HeapParts
  <1>3. TypeOK'
    <2>1. req' \in [s : Nat, want : Nat, old : DOMAIN live' \cup {NULL}]
      BY <1>1 DEF NoReq, NULL
    <2> QED BY <1>1, <2>1 DEF IInv, TypeOK, heap
  <1>4. Cursor' /\ Request' /\ LargeEnough'
    BY <1>1 DEF Cursor, Request, LargeEnough
  <1> QED BY <1>2, <1>3, <1>4 DEF IInv, HeapParts

-----------------------------------------------------------------------------
(* The calls.                                                              *)

\* What kfree does to the heap: the block and no other is given up.
LEMMA kfreeKeeps ==
  ASSUME IInv, NEW a \in DOMAIN live, kfree(a)
  PROVE  /\ HeapParts' /\ DOMAIN live' = DOMAIN live \ {a}
         /\ head' \in DOMAIN hdr' \cup {NULL} /\ final' \in DOMAIN hdr' \cup {NULL}
         /\ UNCHANGED <<head, mapped, brk>>
  <1> DEFINE f == [hdr EXCEPT ![a].free = TRUE]
  <1>1. /\ UNCHANGED <<head, mapped, brk>> /\ live' = Without(live, a)
        /\ hdr' = merge_headers(f, a) /\ final' = FinalAfterMerge(f, a, final)
    BY DEF kfree, Freed
  <1>2. a \in DOMAIN hdr /\ ~hdr[a].free /\ Typed(hdr) /\ head # NULL
        /\ Heap(hdr, head, final, mapped)
    BY DEF IInv, Owned, HeapInv
  <1>3. /\ DOMAIN f = DOMAIN hdr /\ Typed(f) /\ f[a].free
        /\ \A x \in DOMAIN hdr : x # a => f[x] = hdr[x]
        /\ f[a].n = hdr[a].n /\ f[a].final = hdr[a].final /\ f[a].size = hdr[a].size
    BY <1>2 DEF Typed, Headers
  <1> HIDE DEF f
  <1>4. Heap(f, head, final, mapped)
    <2>1. \A x \in DOMAIN hdr : f[x].n = hdr[x].n /\ f[x].final = hdr[x].final /\ f[x].size <= hdr[x].size
      <3>1. \A x \in DOMAIN hdr : hdr[x].size \in Nat
        BY <1>2 DEF Typed, Headers
      <3> QED BY <1>3, <3>1
    <2>2. f[final].free
      BY <1>2, <1>3 DEF Heap, Chain
    <2> QED BY <1>2, <1>3, <2>1, <2>2, SameChainKeepsHeap
  <1>5. DOMAIN live' = DOMAIN live \ {a} /\ live' \in [DOMAIN live' -> Nat]
        /\ \A x \in DOMAIN live' : live'[x] = live[x]
    BY <1>1 DEF Without, IInv
  <1>6. Owned(f, live')
    BY <1>2, <1>3, <1>5 DEF IInv, Owned
  <1>7. Heap(hdr', head, final', mapped) /\ Owned(hdr', live')
    BY <1>1, <1>2, <1>3, <1>4, <1>6, merge_headersKeeps DEF IInv, Below
  <1>8. HeapParts'
    BY <1>1, <1>2, <1>5, <1>7 DEF HeapParts, HeapInv, Heap, IInv, Below
  <1> QED BY <1>1, <1>5, <1>7, <1>8 DEF Heap, Chain

\* The types after a step that leaves the heap's parts right.
LEMMA TypesAfter ==
  ASSUME IInv, HeapParts', UNCHANGED <<mapped, brk>>,
         head' \in DOMAIN hdr' \cup {NULL}, final' \in DOMAIN hdr' \cup {NULL},
         pc' \in {"idle", "find"}, p' \in DOMAIN hdr' \cup {NULL}, grown' \in BOOLEAN,
         req' \in [s : Nat, want : Nat, old : DOMAIN live' \cup {NULL}]
  PROVE  TypeOK'
  <1>1. DOMAIN live' \subseteq DOMAIN hdr' /\ Typed(hdr')
        /\ \A a \in DOMAIN live' : live'[a] \in Nat
    BY DEF HeapParts, Owned
  <1> QED BY <1>1 DEF IInv, TypeOK, Typed, Headers

\* kfree gives up the block and no other.
LEMMA FreeIInv == IInv /\ Free => IInv'
  <1> SUFFICES ASSUME IInv, Free PROVE IInv'
    OBVIOUS
  <1>1. PICK a \in DOMAIN live : kfree(a)
    BY DEF Free
  <1>2. UNCHANGED <<pc, req, p, grown>> /\ pc = "idle" /\ p = NULL
    BY DEF Free, IInv, Cursor
  <1>3. /\ HeapParts' /\ DOMAIN live' = DOMAIN live \ {a}
        /\ head' \in DOMAIN hdr' \cup {NULL} /\ final' \in DOMAIN hdr' \cup {NULL}
        /\ UNCHANGED <<head, mapped, brk>>
    BY <1>1, kfreeKeeps
  <1>4. req = NoReq /\ req' = NoReq
    BY <1>2 DEF IInv, Request
  <1>5. TypeOK'
    <2>1. req' \in [s : Nat, want : Nat, old : DOMAIN live' \cup {NULL}]
      BY <1>4 DEF NoReq, NULL
    <2> QED BY <1>2, <1>3, <2>1, TypesAfter DEF IInv, TypeOK
  <1>6. Cursor' /\ Request' /\ LargeEnough'
    BY <1>2, <1>3, <1>4 DEF IInv, Cursor, Request, LargeEnough
  <1> QED BY <1>3, <1>5, <1>6 DEF IInv, HeapParts

\* The end of a call frees the old block of krealloc and krecalloc.
LEMMA ReturnIInv == IInv /\ Return => IInv'
  <1> SUFFICES ASSUME IInv, Return PROVE IInv'
    OBVIOUS
  <1>1. /\ pc = "done" /\ p = NULL /\ p' = NULL /\ pc' = "idle" /\ req' = NoReq /\ grown' = FALSE
        /\ IF req.old # NULL THEN kfree(req.old) ELSE UNCHANGED <<heap, live>>
    BY DEF Return, IInv, Cursor
  <1>2. req' \in [s : Nat, want : Nat, old : DOMAIN live' \cup {NULL}]
    BY <1>1 DEF NoReq, NULL
  <1>3. /\ HeapParts' /\ UNCHANGED <<mapped, brk>>
        /\ head' \in DOMAIN hdr' \cup {NULL} /\ final' \in DOMAIN hdr' \cup {NULL}
    <2>1. CASE req.old # NULL
      <3>1. req.old \in DOMAIN live
        BY <2>1 DEF IInv, TypeOK
      <3> QED BY <1>1, <2>1, <3>1, kfreeKeeps
    <2>2. CASE req.old = NULL
      <3>1. UNCHANGED <<heap, live>>
        BY <1>1, <2>2
      <3>2. HeapParts'
        BY <3>1, HeapUnchanged DEF IInv, HeapParts
      <3> QED BY <3>1, <3>2 DEF IInv, TypeOK, heap
    <2> QED BY <2>1, <2>2
  <1>4. TypeOK'
    BY <1>1, <1>2, <1>3, TypesAfter
  <1>5. Cursor' /\ Request' /\ LargeEnough'
    BY <1>1 DEF Cursor, Request, LargeEnough
  <1> QED BY <1>3, <1>4, <1>5 DEF IInv, HeapParts

\* A call begins with a request that does not wrap.
LEMMA int_kmallocIInv ==
  ASSUME IInv, NEW s \in Nat, NEW want \in Nat, want <= s, s + Header < U32,
         NEW old \in DOMAIN live \cup {NULL}, int_kmalloc(s, want, old)
  PROVE  IInv'
  <1>1. /\ pc' = "find" /\ req' = [s |-> s, want |-> want, old |-> old]
        /\ p' = head /\ grown' = FALSE /\ UNCHANGED <<heap, live>>
    BY DEF int_kmalloc
  <1>2. HeapParts'
    BY <1>1, HeapUnchanged DEF IInv, HeapParts
  <1>3. UNCHANGED <<hdr, head, final, mapped, brk, live>>
    BY <1>1 DEF heap
  <1>4. TypeOK'
    <2>1. req' \in [s : Nat, want : Nat, old : DOMAIN live' \cup {NULL}]
      BY <1>1, <1>3
    <2>2. head' \in DOMAIN hdr' \cup {NULL} /\ final' \in DOMAIN hdr' \cup {NULL}
      BY <1>3 DEF IInv, TypeOK
    <2> QED BY <1>1, <1>2, <1>3, <2>1, <2>2, TypesAfter
  <1>5. Cursor' /\ Request' /\ LargeEnough'
    BY <1>1, <1>3 DEF Cursor, Request, LargeEnough
  <1> QED BY <1>2, <1>4, <1>5 DEF IInv, HeapParts

\* krealloc in place: a block keeps its header, whose size may become smaller
\* and still is what the caller means.
LEMMA InPlaceIInv ==
  ASSUME IInv, pc = "idle", NEW a \in DOMAIN live, NEW size \in Nat, NEW want \in Nat,
         want <= size, size <= hdr[a].size,
         hdr' = [hdr EXCEPT ![a].size = size], live' = [live EXCEPT ![a] = want],
         UNCHANGED <<head, final, mapped, brk, pc, req, p, grown>>
  PROVE  IInv'
  <1>1. /\ a \in DOMAIN hdr /\ ~hdr[a].free /\ Typed(hdr) /\ head # NULL
        /\ Heap(hdr, head, final, mapped) /\ live \in [DOMAIN live -> Nat]
    BY DEF IInv, Owned, HeapInv
  <1>2. /\ DOMAIN hdr' = DOMAIN hdr /\ Typed(hdr')
        /\ \A x \in DOMAIN hdr : x # a => hdr'[x] = hdr[x]
        /\ hdr'[a].n = hdr[a].n /\ hdr'[a].final = hdr[a].final
        /\ hdr'[a].free = hdr[a].free /\ hdr'[a].size = size
    BY <1>1 DEF Typed, Headers
  <1>3. /\ DOMAIN live' = DOMAIN live /\ live' \in [DOMAIN live' -> Nat] /\ live'[a] = want
        /\ \A x \in DOMAIN live : x # a => live'[x] = live[x]
    BY <1>1
  <1>4. Heap(hdr', head, final, mapped)
    <2>1. \A x \in DOMAIN hdr : hdr'[x].n = hdr[x].n /\ hdr'[x].final = hdr[x].final /\ hdr'[x].size <= hdr[x].size
      <3>1. \A x \in DOMAIN hdr : hdr[x].size \in Nat
        BY <1>1 DEF Typed, Headers
      <3> QED BY <1>2, <3>1
    <2>2. hdr'[final].free
      BY <1>1, <1>2 DEF Heap, Chain
    <2>3. Typed(hdr') /\ DOMAIN hdr' = DOMAIN hdr
      BY <1>2
    <2> QED BY <1>1, <2>1, <2>2, <2>3, SameChainKeepsHeap
  <1>5. Owned(hdr', live')
    BY <1>1, <1>2, <1>3 DEF IInv, Owned
  <1>6. HeapParts'
    BY <1>1, <1>2, <1>3, <1>4, <1>5 DEF HeapParts, HeapInv, IInv, Below
  <1>7. TypeOK'
    <2>1. req' \in [s : Nat, want : Nat, old : DOMAIN live' \cup {NULL}]
      BY <1>3 DEF IInv, TypeOK
    <2>2. p' \in DOMAIN hdr' \cup {NULL} /\ grown' \in BOOLEAN
      BY <1>2 DEF IInv, TypeOK
    <2>3. head' \in DOMAIN hdr' \cup {NULL} /\ final' \in DOMAIN hdr' \cup {NULL}
      BY <1>2 DEF IInv, TypeOK
    <2> QED BY <1>6, <2>1, <2>2, <2>3, TypesAfter
  <1>8. Cursor' /\ Request' /\ LargeEnough'
    BY <1>1 DEF IInv, Cursor, Request, LargeEnough
  <1> QED BY <1>6, <1>7, <1>8 DEF IInv, HeapParts

\* krealloc keeps, shrinks or begins to replace a block.
LEMMA kreallocIInv ==
  ASSUME IInv, pc = "idle", NEW a \in DOMAIN live \cup {NULL}, NEW size \in Nat,
         size + Header < U32, krealloc(a, size, size)
  PROVE  IInv'
  <1>1. CASE int_kmalloc(size, size, NULL) \/ int_kmalloc(size, size, a)
    BY <1>1, int_kmallocIInv
  <1>2. ASSUME a # NULL PROVE a \in DOMAIN live /\ a \in DOMAIN hdr /\ hdr[a].size \in Nat
                              /\ hdr[a] \in Headers
    BY <1>2 DEF IInv, Owned, Typed, Headers
  <1>3. CASE /\ a # NULL /\ hdr[a].size = size /\ live' = [live EXCEPT ![a] = size]
             /\ UNCHANGED <<heap, pc, req, p, grown>>
    <2>1. hdr' = [hdr EXCEPT ![a].size = size]
      BY <1>2, <1>3 DEF heap, IInv, Typed, Headers
    <2>2. UNCHANGED <<head, final, mapped, brk, pc, req, p, grown>>
      BY <1>3 DEF heap
    <2>3. a \in DOMAIN live /\ size <= size /\ size <= hdr[a].size
      BY <1>2, <1>3
    <2>4. live' = [live EXCEPT ![a] = size]
      BY <1>3
    <2> QED BY <2>1, <2>2, <2>3, <2>4, InPlaceIInv
  <1>4. CASE a # NULL /\ hdr[a].size > size /\ Shrink(a, size, size)
    <2>1. /\ hdr' = [hdr EXCEPT ![a].size = size] /\ live' = [live EXCEPT ![a] = size]
          /\ UNCHANGED <<head, final, mapped, brk, pc, req, p, grown>>
      <3>1. size % U32 = size
        BY ModIsExact, SizesAssumption
      <3> QED BY <1>4, <3>1 DEF Shrink
    <2>2. a \in DOMAIN live /\ size <= size /\ size <= hdr[a].size
      BY <1>2, <1>4
    <2> QED BY <2>1, <2>2, InPlaceIInv
  <1> QED BY <1>1, <1>3, <1>4 DEF krealloc

\* The requests callers make are narrow, and an array's is its product.
LEMMA CallsIInv ==
  ASSUME Narrow, IInv, Kmalloc \/ Krealloc \/ Kreallocarray \/ Krecalloc
  PROVE  IInv'
  <1>1. ASSUME NEW s \in Requests PROVE s \in Nat /\ s + Header < U32
    BY SizesAssumption DEF Narrow
  <1>2. ASSUME NEW m \in Arrays, ~MulOverflows(m[1], m[2])
        PROVE  /\ m[1] * m[2] \in Nat /\ Product(m[1], m[2]) = m[1] * m[2]
               /\ m[1] * m[2] + Header < U32
    <2>1. m[1] \in Nat /\ m[2] \in Nat
      BY SizesAssumption
    <2>2. Product(m[1], m[2]) = m[1] * m[2]
      BY <1>2, <2>1, ProductIsExact
    <2>3. Product(m[1], m[2]) + Header < U32
      BY <1>2 DEF Narrow
    <2> QED BY <2>1, <2>2, <2>3
  <1>3. CASE Kmalloc
    <2>1. PICK s \in Requests : int_kmalloc(s, s, NULL)
      BY <1>3 DEF Kmalloc
    <2> QED BY <1>1, <2>1, int_kmallocIInv
  <1>4. CASE Krealloc
    <2>1. PICK a \in DOMAIN live \cup {NULL}, s \in Requests : krealloc(a, s, s)
      BY <1>4 DEF Krealloc
    <2> QED BY <1>1, <1>4, <2>1, kreallocIInv DEF Krealloc
  <1>5. CASE Kreallocarray
    <2>1. PICK a \in DOMAIN live \cup {NULL}, m \in Arrays :
            ~MulOverflows(m[1], m[2]) /\ krealloc(a, Product(m[1], m[2]), m[1] * m[2])
      BY <1>5 DEF Kreallocarray
    <2> QED BY <1>2, <1>5, <2>1, kreallocIInv DEF Kreallocarray
  <1>6. CASE Krecalloc
    <2>1. PICK a \in DOMAIN live \cup {NULL}, m \in Arrays :
            ~MulOverflows(m[1], m[2]) /\ int_kmalloc(Product(m[1], m[2]), m[1] * m[2], a)
      BY <1>6 DEF Krecalloc
    <2> QED BY <1>2, <2>1, int_kmallocIInv
  <1> QED BY <1>3, <1>4, <1>5, <1>6

\* A step that changes nothing.
LEMMA StutterIInv == IInv /\ UNCHANGED vars => IInv'
  <1> SUFFICES ASSUME IInv, UNCHANGED vars PROVE IInv'
    OBVIOUS
  <1>1. UNCHANGED <<hdr, head, final, mapped, brk, live, pc, req, p, grown>>
    BY DEF vars, heap
  <1>2. TypeOK'
    BY <1>1 DEF IInv, TypeOK
  <1>3. HeapParts'
    BY <1>1, HeapUnchanged DEF IInv, HeapParts, heap
  <1>4. Cursor' /\ Request' /\ LargeEnough'
    BY <1>1 DEF IInv, Cursor, Request, LargeEnough
  <1> QED BY <1>2, <1>3, <1>4 DEF IInv, HeapParts

-----------------------------------------------------------------------------
(* The theorems.                                                           *)

\* The inductive invariant holds of every run of the heap.
THEOREM Invariance == Narrow => (Spec => []IInv)
  <1>1. Init => IInv
    BY InitIInv
  <1>2. Narrow /\ IInv /\ [Next]_vars => IInv'
    <2> SUFFICES ASSUME Narrow, IInv, [Next]_vars PROVE IInv'
      OBVIOUS
    <2>1. CASE Work
      BY <2>1, kmalloc_initIInv, add_heap_memoryIInv, OutOfMemoryIInv, FindNextIInv,
         FindSmallIInv, MergeMoreIInv, MergeTooSmallIInv, SplitIInv, ReturnIInv DEF Work
    <2>2. CASE Kmalloc \/ Krealloc \/ Kreallocarray \/ Krecalloc
      BY <2>2, CallsIInv
    <2>3. CASE Free
      BY <2>3, FreeIInv
    <2>4. CASE UNCHANGED vars
      BY <2>4, StutterIInv
    <2> QED BY <2>1, <2>2, <2>3, <2>4 DEF Next
  <1> SUFFICES ASSUME Narrow PROVE Spec => []IInv
    OBVIOUS
  <1>3. IInv /\ [Next]_vars => IInv'
    BY <1>2
  <1> QED BY <1>1, <1>3, PTL DEF Spec

\* Every variable of kmalloc.c keeps its type.
THEOREM TypeCorrect == Narrow => (Spec => []TypeOK)
  <1>1. IInv => TypeOK
    BY DEF IInv
  <1> QED BY <1>1, Invariance, PTL

\* No header or block of kmalloc.c ever reaches into another, through every
\* split, merge, shrink and extension.
THEOREM BlocksAreDisjoint == Narrow => (Spec => []BlocksDisjoint)
  <1>1. IInv => BlocksDisjoint
    <2> SUFFICES ASSUME IInv, NEW a \in DOMAIN hdr, NEW b \in DOMAIN hdr, a < b
                 PROVE  End(a) <= b
      BY DEF BlocksDisjoint
    <2>1. Typed(hdr) /\ Chain(hdr, head, final) /\ a \in Nat /\ b \in Nat
      BY DEF IInv, HeapInv, Heap, Typed
    <2>2. hdr[a].n \in Nat /\ hdr[a].size \in Nat
      BY <2>1 DEF Typed, Headers
    <2>3. a # final /\ hdr[a].n <= b
      BY <2>1 DEF Chain
    <2>4. a + Header + hdr[a].size <= hdr[a].n
      BY <2>1, <2>3 DEF Chain
    <2> QED BY <2>1, <2>2, <2>3, <2>4, SizesAssumption DEF End
  <1> QED BY <1>1, Invariance, PTL

\* Every header and block lies in memory that ksbrk handed out.
THEOREM HeapIsMapped == Narrow => (Spec => []HeapMapped)
  <1>1. IInv => HeapMapped
    <2> SUFFICES ASSUME IInv, NEW a \in DOMAIN hdr, NEW x \in a..End(a) - 1
                 PROVE  x \in mapped
      BY DEF HeapMapped
    <2>1. Backed(hdr, mapped) /\ a \in Nat /\ hdr[a].size \in Nat
      BY DEF IInv, HeapInv, Heap, Typed, Headers
    <2>2. x \in Nat /\ a <= x /\ x < a + Header + hdr[a].size
      BY <2>1, SizesAssumption DEF End
    <2> QED BY <2>1, <2>2 DEF Backed
  <1> QED BY <1>1, Invariance, PTL

\* The blocks in use are the callers' blocks, each at least as large as meant.
THEOREM OwnershipIsExact == Narrow => (Spec => []OwnedExactly)
  <1>1. IInv => OwnedExactly
    BY DEF IInv, Owned, OwnedExactly
  <1> QED BY <1>1, Invariance, PTL

\* The walk after add_heap_memory finds an entry: int_kmalloc recurses once.
THEOREM RetryFindsEntry == Narrow => (Spec => []RetrySucceeds)
  <1>1. IInv => RetrySucceeds
    BY DEF IInv, LargeEnough, RetrySucceeds
  <1> QED BY <1>1, Invariance, PTL

\* The chain is in address order and ends in a free header that is marked, as
\* add_heap_memory takes for granted.
THEOREM ChainIsOrdered == Narrow => (Spec => []ChainOrdered)
  <1>1. IInv => ChainOrdered
    <2> SUFFICES ASSUME IInv, DOMAIN hdr # {} PROVE ChainOrdered
      BY DEF ChainOrdered
    <2>1. Typed(hdr) /\ Chain(hdr, head, final)
      BY DEF IInv, HeapInv, Heap
    <2>2. \A a \in DOMAIN hdr : a \in Nat /\ hdr[a].size \in Nat /\ hdr[a].n \in Nat
      BY <2>1 DEF Typed, Headers
    <2> QED BY <2>1, <2>2, SizesAssumption, SMTT(30) DEF Chain, ChainOrdered
  <1> QED BY <1>1, Invariance, PTL
=============================================================================
