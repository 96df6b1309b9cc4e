------------------------- MODULE FrameBitmapProofs -------------------------
(***************************************************************************)
(* The safety of the frame allocator for every size of the bitmap, every   *)
(* memory map, every set of boot frames and every sequence of requests.    *)
(***************************************************************************)
EXTENDS FrameScan, WellFoundedInduction, TLAPS

\* The bit that set_frame touches is a bit of the bitmap.
LEMMA CellOfFrame ==
  ASSUME NEW f \in Frames
  PROVE  Cell(f) \in Cells
  <1> USE SizesAssumption DEF Frames, Word
  <1>1. Word \in Nat \ {0} /\ f \in Nat /\ f < Words * Word
    OBVIOUS
  <1>2. f % Half \in 0..Half - 1
    OBVIOUS
  <1>3. f \div Word \in 0..Words - 1
    <2> HIDE DEF Word
    <2> SUFFICES ASSUME NEW w \in Nat \ {0}, NEW n \in Nat \ {0}, f \in Nat,
                        f < n * w
                 PROVE  f \div w \in 0..n - 1
      BY <1>1
    <2> DEFINE d == f \div w
    <2>1. d \in Nat /\ d * w <= f
      BY SMT
    <2>2. d * w < n * w
      BY <2>1
    <2> HIDE DEF d
    <2>3. d < n
      BY <2>1, <2>2
    <2> QED BY <2>1, <2>3 DEF d
  <1> QED BY <1>2, <1>3 DEF Cell, Cells

-----------------------------------------------------------------------------
(* The inductive invariant.                                                *)

Out == given \cup last

\* Nothing is handed out while cells are still being released.
NothingOutAtBoot == phase = "mmap" => Out = {}

\* A frame in use keeps its cell, and so do the boot frames.
InUseTaken ==
  /\ \A f \in Out : Cell(f) \in taken
  /\ phase # "mmap" => \A f \in BootFrames \cap Frames : Cell(f) \in taken

\* A cell is free only because the memory map released one of its frames.
FreeWasReleased ==
  \A c \in Cells : c \notin taken => \E g \in freed : Cell(g) = c

IInv ==
  /\ TypeOK /\ NothingOutAtBoot /\ InUseTaken /\ FreeWasReleased
  /\ NoDoubleAllocation /\ BootFramesKept /\ OnlyReleasedCells

\* The bitmap before mmu_init: all taken, nothing handed out.
LEMMA InitIInv == Init => IInv
  BY SizesAssumption
  DEF Init, IInv, TypeOK, NothingOutAtBoot, InUseTaken, FreeWasReleased, Out,
      NoDoubleAllocation, BootFramesKept, OnlyReleasedCells

\* Reading the memory map, marking boot frames and get_frame preserve it.
LEMMA StepIInv == IInv /\ [Next]_vars => IInv'
  <1> SUFFICES ASSUME IInv, [Next]_vars PROVE IInv'
    OBVIOUS
  <1> USE DEF IInv, NothingOutAtBoot, InUseTaken, FreeWasReleased, Out,
              NoDoubleAllocation, BootFramesKept, OnlyReleasedCells
  <1>1. CASE ReadEntry
    <2>1. PICK S \in SUBSET Frames :
             taken' = set_frame_free(S) /\ freed' = freed \cup S
      BY <1>1 DEF ReadEntry, EntryFrames
    <2>2. /\ phase = "mmap" /\ UNCHANGED <<phase, given, last>>
          /\ seen' \in 0..MaxEntries
      BY <1>1, SizesAssumption DEF ReadEntry, TypeOK
    <2>3. given = {} /\ last = {}
      BY <2>2
    <2>4. TypeOK'
      BY <2>1, <2>2 DEF TypeOK, set_frame_free
    <2>5. FreeWasReleased'
      BY <2>1 DEF set_frame_free
    <2> QED BY <2>2, <2>3, <2>4, <2>5
  <1>2. CASE MarkBoot
    <2>1. \A f \in BootFrames \cap Frames : Cell(f) \in taken'
      BY <1>2 DEF MarkBoot, set_frame_taken
    <2>2. taken \subseteq taken' /\ taken' \subseteq Cells
      BY <1>2, CellOfFrame DEF MarkBoot, set_frame_taken, TypeOK
    <2> QED BY <1>2, <2>1, <2>2 DEF MarkBoot, TypeOK
  <1>3. ASSUME NEW count \in 1..MaxCount, get_frame(count) PROVE IInv'
    <2>1. PICK rc \in Frames :
             /\ FreeRun(rc, count)
             /\ taken' = set_frame_taken(Run(rc, count))
             /\ given' = given \cup last
             /\ last' = Run(rc, count)
      BY <1>3 DEF get_frame, FirstRun
    <2>2. phase = "run" /\ UNCHANGED <<phase, freed, seen>>
      BY <1>3 DEF get_frame
    <2>3. /\ last' \subseteq Frames
          /\ \A f \in last' : Cell(f) \notin taken /\ Cell(f) \in taken'
      BY <2>1 DEF FreeRun, set_frame_taken
    <2>4. taken \subseteq taken' /\ taken' \subseteq Cells
      BY <2>1, CellOfFrame DEF set_frame_taken, TypeOK
    <2>5. TypeOK'
      BY <2>1, <2>2, <2>3, <2>4 DEF TypeOK
    <2>6. InUseTaken' /\ FreeWasReleased' /\ NothingOutAtBoot'
      BY <2>1, <2>2, <2>3, <2>4
    <2>7. NoDoubleAllocation'
      BY <2>1, <2>3
    <2>8. BootFramesKept'
      BY <2>1, <2>2, <2>3
    <2>9. OnlyReleasedCells'
      <3>1. \A f \in last' : \E g \in freed : Cell(g) = Cell(f)
        BY <2>3, CellOfFrame
      <3> QED BY <2>1, <2>2, <3>1
    <2> QED BY <2>5, <2>6, <2>7, <2>8, <2>9
  <1>4. ASSUME NEW count \in 1..MaxCount, GetFramePanic(count) PROVE IInv'
    BY <1>4 DEF GetFramePanic, TypeOK
  <1>5. CASE UNCHANGED vars
    BY <1>5 DEF vars, TypeOK
  <1> QED BY <1>1, <1>2, <1>3, <1>4, <1>5 DEF Next

-----------------------------------------------------------------------------
(* The theorems.                                                           *)

\* The inductive invariant holds whatever the memory map and the requests.
THEOREM Invariance == Spec => []IInv
  BY InitIInv, StepIInv, PTL DEF Spec

\* The bitmap and the frames handed out stay inside the managed memory.
THEOREM TypeCorrect == Spec => []TypeOK
  <1>1. IInv => TypeOK
    BY DEF IInv
  <1> QED BY <1>1, Invariance, PTL

\* get_frame never hands out a frame twice, for every bitmap and request.
THEOREM NoDoubleAllocationAlways == Spec => []NoDoubleAllocation
  <1>1. IInv => NoDoubleAllocation
    BY DEF IInv
  <1> QED BY <1>1, Invariance, PTL

\* get_frame never hands out a frame of the boot tables nor address 0.
THEOREM BootFramesKeptAlways == Spec => []BootFramesKept
  <1>1. IInv => BootFramesKept
    BY DEF IInv
  <1> QED BY <1>1, Invariance, PTL

\* get_frame hands out only frames of cells that mmu_init released.
THEOREM OnlyReleasedCellsAlways == Spec => []OnlyReleasedCells
  <1>1. IInv => OnlyReleasedCells
    BY DEF IInv
  <1> QED BY <1>1, Invariance, PTL

-----------------------------------------------------------------------------
(* The loops of get_frame find the first run, by induction on the frames   *)
(* they look at.                                                           *)

\* A set of numbers that is not empty has a first one.
LEMMA LeastOf ==
  ASSUME NEW S \in SUBSET Nat, S # {}
  PROVE  \E s \in S : \A t \in S : s <= t
  <1> DEFINE Less == OpToRel(<, Nat)
  <1>1. IsWellFoundedOn(Less, Nat)
    BY NatLessThanWellFounded, Zenon
  <1>2. \A t, s \in Nat : t < s => <<t, s>> \in Less
    BY DEF OpToRel
  <1> HIDE DEF Less
  <1>3. PICK s \in S : \A t \in S : ~(<<t, s>> \in Less)
    BY <1>1, WFMin, Zenon
  <1>4. \A t \in S : ~(t < s)
    BY <1>2, <1>3
  <1> QED BY <1>4

\* The state of the loops before the first frame.
Begun(count) == [left |-> count, rc |-> NoFrame, done |-> FALSE]

\* st is the state of the loops before each of the first n frames and after
\* them.
Loops(count, n, st) ==
  st = [f \in 0..n |-> IF f = 0 THEN Begun(count) ELSE Look(count, st[f - 1], f - 1)]

\* The recursion of Scan defines a function.
LEMMA LoopsExist ==
  ASSUME NEW count, NEW n \in Nat
  PROVE  \E st : Loops(count, n, st)
  <1> DEFINE T == {m \in Nat : ~\E st : Loops(count, m, st)}
  <1> SUFFICES ASSUME n \in T PROVE FALSE
    OBVIOUS
  <1>1. PICK m \in T : \A t \in T : m <= t
    <2>1. T \in SUBSET Nat /\ T # {}
      OBVIOUS
    <2> HIDE DEF T
    <2> QED BY <2>1, LeastOf
  <1>2. m \in Nat /\ ~\E st : Loops(count, m, st)
    OBVIOUS
  <1>3. CASE m = 0
    <2> DEFINE st == [f \in 0..0 |-> Begun(count)]
    <2>1. st = [f \in 0..0 |-> IF f = 0 THEN Begun(count) ELSE Look(count, st[f - 1], f - 1)]
      OBVIOUS
    <2> HIDE DEF st
    <2> QED BY <1>2, <1>3, <2>1 DEF Loops
  <1>4. CASE m # 0
    <2>1. m - 1 \in Nat /\ ~(m <= m - 1)
      BY <1>2, <1>4
    <2>2. PICK g : Loops(count, m - 1, g)
      BY <1>1, <2>1
    <2> DEFINE h == [f \in 0..m |-> IF f = 0 THEN Begun(count) ELSE Look(count, g[f - 1], f - 1)]
    <2>3. ASSUME NEW f \in 0..m - 1 PROVE h[f] = g[f]
      BY <1>2, <2>2 DEF Loops
    <2>4. h = [f \in 0..m |-> IF f = 0 THEN Begun(count) ELSE Look(count, h[f - 1], f - 1)]
      <3>1. \A f \in 0..m : f # 0 => f - 1 \in 0..m - 1
        BY <1>2
      <3>2. \A f \in 0..m : f # 0 => h[f - 1] = g[f - 1]
        <4> HIDE DEF h
        <4> QED BY <2>3, <3>1
      <3>3. \A f \in 0..m : h[f] = IF f = 0 THEN Begun(count) ELSE Look(count, g[f - 1], f - 1)
        OBVIOUS
      <3>4. h = [f \in 0..m |-> h[f]]
        OBVIOUS
      <3> HIDE DEF h
      <3>5. \A f \in 0..m : h[f] = IF f = 0 THEN Begun(count) ELSE Look(count, h[f - 1], f - 1)
        BY <3>2, <3>3
      <3> QED BY <3>4, <3>5
    <2> HIDE DEF h
    <2> QED BY <1>2, <2>4 DEF Loops
  <1> QED BY <1>3, <1>4

\* Scan is what the loops leave after the last frame.
LEMMA ScanIsLoops ==
  ASSUME NEW count
  PROVE  \E st : Loops(count, Words * Word, st) /\ Scan(count) = st[Words * Word]
  <1> DEFINE g == CHOOSE st : Loops(count, Words * Word, st)
  <1>1. Words * Word \in Nat
    BY SizesAssumption DEF Word
  <1>2. Loops(count, Words * Word, g)
    <2>1. \E st : Loops(count, Words * Word, st)
      BY <1>1, LoopsExist
    <2> QED BY <2>1, Zenon
  <1>3. Scan(count) = g[Words * Word]
    BY DEF Scan, Loops, Begun
  <1> QED BY <1>2, <1>3

\* Frame g is not in use.
Unused(g) == Cell(g) \notin taken

\* Where the free frames begin that end at frame f.
From(count, f, s) == f - (count - s.left)

\* Up to frame f there is no run, and the frames counted so far are all the
\* free ones just below f.
Searching(count, f, s) ==
  /\ s.left \in 1..count /\ From(count, f, s) >= 0
  /\ \A g \in From(count, f, s)..f - 1 : Unused(g)
  /\ From(count, f, s) > 0 => ~Unused(From(count, f, s) - 1)
  /\ s.left < count => s.rc = From(count, f, s)
  /\ \A x \in Frames : x + count <= f => ~FreeRun(x, count)

\* Before frame f the function has returned the first run or goes on.
LoopInv(count, f, s) ==
  /\ s.done \in BOOLEAN
  /\ s.done => FirstRun(s.rc, count)
  /\ ~s.done => Searching(count, f, s)

\* Skipping a full word skips taken frames only: what the loops do with a
\* frame depends on that frame's bit.
LEMMA LookByBit ==
  ASSUME NEW count, NEW s, s.done \in BOOLEAN, NEW g \in Frames
  PROVE  Look(count, s, g) =
           IF s.done THEN s ELSE IF ~Unused(g) THEN [s EXCEPT !.left = count]
           ELSE [left |-> s.left - 1, rc |-> IF s.left = count THEN g ELSE s.rc, done |-> s.left = 1]
  <1>1. FullWord(g \div Word) => ~Unused(g)
    <2>1. g % Half \in 0..Half - 1
      <3>1. g \in Nat
        BY DEF Frames
      <3> QED BY <3>1, SizesAssumption
    <2> QED BY <2>1 DEF FullWord, Unused, Cell
  <1> QED BY <1>1 DEF Look, Unused

\* A state of the loops is a record.
States(s) == s = [left |-> s.left, rc |-> s.rc, done |-> s.done]

\* One more frame.
LEMMA LookKeeps ==
  ASSUME NEW count \in Nat \ {0}, NEW s, States(s), NEW f \in Frames, LoopInv(count, f, s)
  PROVE  LET t == Look(count, s, f) IN States(t) /\ LoopInv(count, f + 1, t)
  <1> DEFINE t == Look(count, s, f)
             b == From(count, f, s)
             N == Words * Word
  <1> SUFFICES States(t) /\ LoopInv(count, f + 1, t)
    OBVIOUS
  <1>0. N \in Nat /\ Frames = 0..N - 1 /\ f \in Nat /\ f < N
    BY SizesAssumption DEF Frames, Word
  <1> HIDE DEF N
  <1>a. s.done \in BOOLEAN
    BY DEF LoopInv
  <1>b. t = IF s.done THEN s ELSE IF ~Unused(f) THEN [s EXCEPT !.left = count]
            ELSE [left |-> s.left - 1, rc |-> IF s.left = count THEN f ELSE s.rc, done |-> s.left = 1]
    BY <1>a, LookByBit
  <1> HIDE DEF t
  <1>1. CASE s.done
    <2>1. t = s
      BY <1>1, <1>b, Zenon
    <2> QED BY <1>1, <2>1 DEF LoopInv
  <1>2. CASE ~s.done /\ ~Unused(f)
    <2>1. t = [s EXCEPT !.left = count]
      BY <1>2, <1>b, Zenon
    <2>2. t.left = count /\ t.done = s.done /\ States(t)
      BY <2>1 DEF States
    <2>3. From(count, f + 1, t) = f + 1
      BY <1>0, <2>2 DEF From
    <2>4. ASSUME NEW x \in Frames, x + count <= f + 1 PROVE ~FreeRun(x, count)
      <3>1. CASE x + count <= f
        BY <1>2, <3>1 DEF LoopInv, Searching
      <3>2. CASE x + count = f + 1
        <4>1. f \in Run(x, count)
          BY <1>0, <3>2 DEF Run
        <4> QED BY <1>2, <4>1 DEF FreeRun, Unused
      <3> QED BY <1>0, <2>4, <3>1, <3>2
    <2>5. count \in 1..count /\ ~(count < count) /\ (f + 1)..(f + 1) - 1 = {} /\ (f + 1) - 1 = f
      BY <1>0
    <2>6. Searching(count, f + 1, t)
      BY <1>0, <1>2, <2>2, <2>3, <2>4, <2>5 DEF Searching
    <2> QED BY <1>a, <1>2, <2>2, <2>6 DEF LoopInv
  <1>3. CASE ~s.done /\ Unused(f)
    <2>1. t = [left |-> s.left - 1, rc |-> IF s.left = count THEN f ELSE s.rc, done |-> s.left = 1]
      BY <1>3, <1>b, Zenon
    <2>2. /\ s.left \in 1..count /\ b >= 0 /\ b \in Int /\ b = f - (count - s.left)
          /\ \A g \in b..f - 1 : Unused(g)
          /\ b > 0 => ~Unused(b - 1)
          /\ s.left < count => s.rc = b
          /\ \A x \in Frames : x + count <= f => ~FreeRun(x, count)
      BY <1>0, <1>3 DEF LoopInv, Searching, From
    <2> HIDE DEF b
    <2>3. /\ t.left = s.left - 1 /\ t.rc = b /\ States(t)
          /\ t.done <=> s.left = 1
          /\ t.done \in BOOLEAN
      <3>1. (IF s.left = count THEN f ELSE s.rc) = b
        BY <1>0, <2>2
      <3>2. t.left = s.left - 1 /\ t.rc = b
        BY <2>1, <3>1
      <3>3. t.done = (s.left = 1)
        BY <2>1
      <3>4. States(t)
        BY <2>1 DEF States
      <3> QED BY <3>2, <3>3, <3>4, Zenon
    <2>4. \A g \in b..f : Unused(g)
      BY <1>0, <1>3, <2>2
    <2>5. CASE s.left = 1
      <3>1. Run(b, count) = b..f
        BY <1>0, <2>2, <2>5 DEF Run
      <3>2. FreeRun(b, count)
        BY <1>0, <2>2, <2>4, <3>1 DEF FreeRun, Unused
      <3>3. ASSUME NEW x \in Frames, FreeRun(x, count) PROVE b <= x
        <4>1. ~(x + count <= f)
          BY <2>2, <3>3
        <4> QED BY <1>0, <2>2, <2>5, <4>1
      <3>4. FirstRun(t.rc, count)
        BY <2>3, <3>2, <3>3 DEF FirstRun
      <3> QED BY <2>3, <2>5, <3>4 DEF LoopInv
    <2>6. CASE s.left # 1
      <3>1. t.left \in 1..count /\ t.left < count
        BY <2>2, <2>3, <2>6
      <3>2. From(count, f + 1, t) = b
        BY <1>0, <2>2, <2>3 DEF From
      <3>3. ASSUME NEW x \in Frames, x + count <= f + 1 PROVE ~FreeRun(x, count)
        <4>1. CASE x + count <= f
          BY <2>2, <4>1
        <4>2. CASE x + count = f + 1
          <5>1. x <= b - 1 /\ b - 1 <= f /\ b > 0
            BY <1>0, <2>2, <2>6, <4>2
          <5>2. b - 1 \in Run(x, count)
            BY <1>0, <2>2, <4>2, <5>1 DEF Run
          <5> QED BY <2>2, <5>1, <5>2 DEF FreeRun, Unused
        <4> QED BY <1>0, <3>3, <4>1, <4>2
      <3>4. (f + 1) - 1 = f
        BY <1>0
      <3>5. Searching(count, f + 1, t)
        BY <2>2, <2>3, <2>4, <3>1, <3>2, <3>3, <3>4 DEF Searching
      <3> QED BY <2>3, <3>5, <2>6 DEF LoopInv
    <2> QED BY <2>5, <2>6
  <1> QED BY <1>a, <1>1, <1>2, <1>3

\* At every frame.
LEMMA LoopsKeep ==
  ASSUME NEW count \in Nat \ {0}, NEW st, Loops(count, Words * Word, st)
  PROVE  \A f \in 0..Words * Word : States(st[f]) /\ LoopInv(count, f, st[f])
  <1> DEFINE N == Words * Word
             T == {f \in 0..N : ~(States(st[f]) /\ LoopInv(count, f, st[f]))}
  <1>0. N \in Nat /\ Frames = 0..N - 1
    BY SizesAssumption DEF Frames, Word
  <1>1. Loops(count, N, st)
    OBVIOUS
  <1> HIDE DEF N
  <1> SUFFICES ASSUME T # {} PROVE FALSE
    BY DEF N
  <1>2. PICK m \in T : \A t \in T : m <= t
    <2>1. T \in SUBSET Nat
      BY <1>0
    <2> HIDE DEF T
    <2> QED BY <2>1, LeastOf
  <1>3. m \in 0..N /\ ~(States(st[m]) /\ LoopInv(count, m, st[m]))
    OBVIOUS
  <1>4. \A f \in 0..N : st[f] = IF f = 0 THEN Begun(count) ELSE Look(count, st[f - 1], f - 1)
    BY <1>1 DEF Loops
  <1>5. CASE m = 0
    <2>1. st[m] = Begun(count)
      BY <1>3, <1>4, <1>5
    <2>2. /\ Begun(count).left = count /\ Begun(count).done = FALSE /\ States(Begun(count))
      BY DEF Begun, States
    <2>3. From(count, 0, Begun(count)) = 0
      BY <2>2 DEF From
    <2>4. ASSUME NEW x \in Frames, x + count <= 0 PROVE FALSE
      BY <1>0, <2>4
    <2>5. LoopInv(count, 0, Begun(count))
      <3>1. count \in 1..count /\ ~(count < count) /\ 0..0 - 1 = {}
        OBVIOUS
      <3>2. Searching(count, 0, Begun(count))
        BY <2>2, <2>3, <2>4, <3>1 DEF Searching
      <3> QED BY <2>2, <3>2 DEF LoopInv
    <2> QED BY <1>3, <1>5, <2>1, <2>2, <2>5
  <1>6. CASE m # 0
    <2>1. m - 1 \in 0..N /\ m - 1 \in Frames /\ ~(m <= m - 1) /\ m = (m - 1) + 1
      BY <1>0, <1>3, <1>6
    <2>2. States(st[m - 1]) /\ LoopInv(count, m - 1, st[m - 1])
      BY <1>2, <2>1
    <2>3. st[m] = Look(count, st[m - 1], m - 1)
      BY <1>3, <1>4, <1>6
    <2>4. LET t == Look(count, st[m - 1], m - 1) IN States(t) /\ LoopInv(count, (m - 1) + 1, t)
      BY <2>1, <2>2, LookKeeps
    <2> QED BY <1>3, <2>1, <2>3, <2>4
  <1> QED BY <1>5, <1>6

\* The loops return the first free run, and reach assert(0) only if there is
\* none, for every bitmap and every request.
LEMMA ScanFinds ==
  ASSUME NEW count \in Nat \ {0}
  PROVE  LET r == Scan(count)
         IN IF r.done THEN FirstRun(r.rc, count) ELSE \A rc \in Frames : ~FreeRun(rc, count)
  <1> DEFINE N == Words * Word
  <1>0. N \in Nat /\ Frames = 0..N - 1
    BY SizesAssumption DEF Frames, Word
  <1>1. PICK st : Loops(count, N, st) /\ Scan(count) = st[N]
    BY ScanIsLoops
  <1>2. LoopInv(count, N, Scan(count))
    BY <1>0, <1>1, LoopsKeep
  <1> HIDE DEF N
  <1>3. ASSUME NEW x \in Frames, FreeRun(x, count) PROVE x + count <= N
    <2>1. x + count - 1 \in Run(x, count)
      BY <1>0 DEF Run
    <2>2. x + count - 1 \in Frames
      BY <1>3, <2>1 DEF FreeRun
    <2> QED BY <1>0, <2>2
  <1>4. Searching(count, N, Scan(count)) => \A rc \in Frames : ~FreeRun(rc, count)
    BY <1>3 DEF Searching
  <1> QED BY <1>2, <1>4 DEF LoopInv

\* get_frame's scan of the words and their bits finds what its callers get,
\* in every state of every bitmap: runs across words included.
THEOREM ScanIsFirstRunAlways == Spec => []ScanIsFirstRun
  <1>1. ScanIsFirstRun
    <2>1. \A count \in 1..MaxCount : count \in Nat \ {0}
      BY SizesAssumption
    <2> QED BY <2>1, ScanFinds DEF ScanIsFirstRun
  <1> QED BY <1>1, PTL
=============================================================================
