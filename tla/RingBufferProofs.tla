-------------------------- MODULE RingBufferProofs --------------------------
(***************************************************************************)
(* What MCRingBuffer checks for a ring of four bytes, proved for every     *)
(* size, every set of byte values and every request length.                *)
(***************************************************************************)
EXTENDS RingBuffer, SequenceTheorems, TLAPS

-----------------------------------------------------------------------------
(* Arithmetic of the pointers.                                             *)

\* A pointer below the size is not changed by % buffer_size.
LEMMA ModBelow ==
  ASSUME NEW n \in Nat \ {0}, NEW x \in 0..n - 1
  PROVE  x % n = x
  BY SMT

\* A pointer past the end wraps once: a length never exceeds the size.
LEMMA ModWrap ==
  ASSUME NEW n \in Nat \ {0}, NEW x \in n..2 * n - 1
  PROVE  x % n = x - n
  BY SMT

\* The pointer stored by a commit is inside the allocation.
LEMMA ModPointer ==
  ASSUME NEW n \in Nat \ {0}, NEW x \in 0..n
  PROVE  x % n = IF x = n THEN 0 ELSE x
  BY SMT

\* A u32 computation whose result is in range is the exact one.
LEMMA CapacityExact ==
  ASSUME buffer_size = Size
  PROVE  ringbuffer_capacity = Size - 1
  <1>1. Size - 1 \in 0..Mod - 1 /\ Mod \in Nat \ {0}
    BY SizeAssumption, ModAssumption
  <1> QED BY <1>1, ModBelow DEF ringbuffer_capacity

-----------------------------------------------------------------------------
(* The inductive invariant.                                                *)

\* Before the buffer exists both loops break at their first test.
NoBuffer ==
  buffer_size = 0 =>
    /\ read_ptr = 0 /\ write_ptr = 0
    /\ wpc \in {"idle", "loop"} /\ rpc \in {"idle", "loop"}

\* The length a writer fixed stays writable while the reader moves on.
WriterInRange ==
  wpc \in {"copy", "commit"} =>
    /\ write_len \in 1..Len(src)
    /\ write_ptr + write_len <= Size
    /\ ringbuffer_used + write_len <= Size - 1

\* The length a reader fixed stays readable while the writer moves on.
ReaderInRange ==
  rpc \in {"copy", "commit"} =>
    /\ read_len \in 1..rlen
    /\ read_ptr + read_len <= Size
    /\ read_len <= ringbuffer_used

IInv == TypeOK /\ NoBuffer /\ WriterInRange /\ ReaderInRange

\* The zeroed ring before ringbuffer_init satisfies the invariant.
LEMMA InitIInv == Init => IInv
  <1> SUFFICES ASSUME Init PROVE IInv
    OBVIOUS
  <1>1. << >> \in Seq(Data)
    OBVIOUS
  <1>2. null \in BOOLEAN
    BY Zenon DEF Init
  <1>3. TypeOK
    BY <1>1, <1>2, SizeAssumption, MaxLenAssumption DEF Init, TypeOK, PC
  <1> QED
    BY <1>3 DEF Init, IInv, NoBuffer, WriterInRange, ReaderInRange

\* Every step of ringbuffer.c, of the writer or of the reader, preserves it.
LEMMA StepIInv == IInv /\ [Next]_vars => IInv'
  <1> SUFFICES ASSUME IInv, [Next]_vars PROVE IInv'
    OBVIOUS
  <1> USE SizeAssumption, MaxLenAssumption
  <1> USE DEF IInv, TypeOK, NoBuffer, WriterInRange, ReaderInRange, PC,
              ringbuffer_used, rb, writer, reader
  <1>1. CASE ringbuffer_init
    BY <1>1 DEF ringbuffer_init
  <1>2. CASE ringbuffer_free
    BY <1>2 DEF ringbuffer_free
  <1>3. CASE WriteCall
    <2>1. src' \in Seq(Data)
      BY <1>3 DEF WriteCall, BytesUpTo
    <2> QED BY <1>3, <2>1 DEF WriteCall
  <1>4. CASE WriteReturn
    BY <1>4 DEF WriteReturn
  <1>5. CASE WriteLoop
    <2>1. BufferLeft \in 1..Size - write_ptr
      BY <1>5 DEF WriteLoop, BufferLeft
    <2>2. ringbuffer_used + BufferLeft <= Size - 1
      BY <1>5 DEF WriteLoop, BufferLeft
    <2>3. buffer_size = Size
      BY <1>5, <2>1 DEF WriteLoop, BufferLeft
    <2>4. /\ write_len' \in 1..Len(src)
          /\ write_len' <= BufferLeft
      BY <1>5, <2>1, <2>3 DEF WriteLoop, MinOf
    <2> QED BY <1>5, <2>1, <2>2, <2>3, <2>4 DEF WriteLoop
  <1>6. CASE WriteCopy
    <2>1. \A i \in write_ptr..write_ptr + write_len - 1 :
             src[i - write_ptr + 1] \in Data
      BY <1>6 DEF WriteCopy
    <2>2. buffer' \in [0..Size - 1 -> Data]
      BY <1>6, <2>1 DEF WriteCopy
    <2> QED BY <1>6, <2>2 DEF WriteCopy
  <1>7. CASE WriteCommit
    <2>1. src' \in Seq(Data)
      BY <1>7 DEF WriteCommit
    <2>2. buffer_size = Size
      BY <1>7 DEF WriteCommit
    <2>3. write_ptr' = IF write_ptr + write_len = Size THEN 0
                       ELSE write_ptr + write_len
      <3>1. write_ptr + write_len \in 0..Size
        BY <1>7 DEF WriteCommit
      <3>2. write_ptr' = (write_ptr + write_len) % Size
        BY <1>7, <2>2 DEF WriteCommit
      <3> HIDE DEF IInv
      <3> QED BY <3>1, <3>2, ModPointer
    <2> QED BY <1>7, <2>1, <2>2, <2>3 DEF WriteCommit
  <1>8. CASE ReadCall
    BY <1>8 DEF ReadCall
  <1>9. CASE ReadReturn
    BY <1>9 DEF ReadReturn
  <1>10. CASE ReadLoop
    BY <1>10 DEF ReadLoop, Contiguous, MinOf
  <1>11. CASE ReadCopy
    <2>1. chunk' \in Seq(Data)
      BY <1>11 DEF ReadCopy
    <2> QED BY <1>11, <2>1 DEF ReadCopy
  <1>12. CASE ReadCommit
    <2>1. dst' \in Seq(Data) /\ chunk' \in Seq(Data)
      BY <1>12 DEF ReadCommit
    <2>2. buffer_size = Size
      BY <1>12 DEF ReadCommit
    <2>3. read_ptr' = IF read_ptr + read_len = Size THEN 0
                      ELSE read_ptr + read_len
      <3>1. read_ptr + read_len \in 0..Size
        BY <1>12 DEF ReadCommit
      <3>2. read_ptr' = (read_ptr + read_len) % Size
        BY <1>12, <2>2 DEF ReadCommit
      <3> HIDE DEF IInv
      <3> QED BY <3>1, <3>2, ModPointer
    <2>4. /\ rpc = "commit" /\ rpc' = "loop" /\ rlen' = rlen - read_len
          /\ UNCHANGED <<buffer, buffer_size, write_ptr, writer, null, read_len>>
      BY <1>12 DEF ReadCommit
    <2>5. TypeOK' /\ NoBuffer' /\ ReaderInRange'
      BY <2>1, <2>2, <2>3, <2>4
    <2>6. ringbuffer_used' <= ringbuffer_used
      BY <2>2, <2>3, <2>4
    <2>7. WriterInRange'
      BY <2>2, <2>3, <2>4, <2>6
    <2> QED BY <2>5, <2>7
  <1>13. CASE UNCHANGED vars
    BY <1>13 DEF vars
  <1> QED
    BY <1>1, <1>2, <1>3, <1>4, <1>5, <1>6, <1>7, <1>8, <1>9, <1>10, <1>11,
       <1>12, <1>13 DEF Next, Writer, Reader

-----------------------------------------------------------------------------
(* The safety theorems.                                                    *)

\* The inductive invariant holds in every reachable state of ringbuffer.c.
THEOREM Invariance == Spec => []IInv
  BY InitIInv, StepIInv, PTL DEF Spec

\* No call of ringbuffer.c moves a pointer out of the allocation.
THEOREM TypeCorrect == Spec => []TypeOK
  <1>1. IInv => TypeOK
    BY DEF IInv
  <1> QED BY <1>1, Invariance, PTL

\* The memcpy of ringbuffer_write and that of ringbuffer_read never touch the
\* same byte and never leave the allocation, for every size and interleaving.
THEOREM NoOverlapAlways == Spec => []NoOverlap
  <1>1. IInv => NoOverlap
    <2> SUFFICES ASSUME IInv PROVE NoOverlap
      OBVIOUS
    <2> USE SizeAssumption
    <2> USE DEF IInv, TypeOK, NoBuffer, WriterInRange, ReaderInRange,
                ringbuffer_used, WriteRegion, ReadRegion
    <2>1. WriteRegion \cup ReadRegion \subseteq 0..buffer_size - 1
      OBVIOUS
    <2>2. ASSUME NEW i \in WriteRegion, i \in ReadRegion PROVE FALSE
      BY <2>2
    <2> QED BY <2>1, <2>2 DEF NoOverlap
  <1> QED BY <1>1, Invariance, PTL

\* Storing write_ptr never turns a ring that holds bytes into an empty one.
THEOREM RoomForCommitAlways == Spec => []RoomForCommit
  <1>1. IInv => RoomForCommit
    BY CapacityExact, SizeAssumption
    DEF IInv, TypeOK, NoBuffer, WriterInRange, RoomForCommit
  <1> QED BY <1>1, Invariance, PTL

\* ringbuffer_unused reports 0 exactly when ringbuffer_write would stop.
THEOREM UnusedIsHonestAlways == Spec => []UnusedIsHonest
  <1>1. IInv => UnusedIsHonest
    <2> SUFFICES ASSUME IInv, buffer_size > 0
                 PROVE  (ringbuffer_unused = 0) <=> (BufferLeft = 0)
      BY DEF UnusedIsHonest
    <2>1. buffer_size = Size
      BY SizeAssumption DEF IInv, TypeOK
    <2>2. Size - 1 - ringbuffer_used \in 0..Mod - 1
      BY <2>1, SizeAssumption, ModAssumption DEF IInv, TypeOK, ringbuffer_used
    <2>3. ringbuffer_unused = Size - 1 - ringbuffer_used
      BY <2>1, <2>2, CapacityExact, ModBelow, ModAssumption
      DEF ringbuffer_unused
    <2> QED
      BY <2>1, <2>3, SizeAssumption
      DEF IInv, TypeOK, ringbuffer_used, BufferLeft
  <1> QED BY <1>1, Invariance, PTL

-----------------------------------------------------------------------------
(* The ring implements the bounded queue.                                  *)

\* Between its memcpy and its commit each side still sees the bytes it copied,
\* and no request outlives its call.
ContentInv ==
  /\ wpc = "idle" => src = << >>
  /\ rpc = "idle" => rlen = 0
  /\ wpc = "commit" =>
       \A i \in 1..write_len : buffer[write_ptr + i - 1] = src[i]
  /\ rpc = "copy" => ~null
  /\ rpc # "commit" => chunk = << >>
  /\ rpc = "commit" =>
       chunk = IF null THEN << >>
               ELSE [i \in 1..read_len |-> buffer[read_ptr + i - 1]]

FullInv == IInv /\ ContentInv

\* Where the i-th unread byte lies, without the remainder.
Slot(i) == IF read_ptr + i - 1 < Size THEN read_ptr + i - 1
                                      ELSE read_ptr + i - 1 - Size

\* Slot is the index ringbuffer_read computes with % buffer_size.
LEMMA SlotIsRemainder ==
  ASSUME IInv, buffer_size = Size, NEW i \in 1..ringbuffer_used
  PROVE  (read_ptr + i - 1) % buffer_size = Slot(i) /\ Slot(i) \in 0..Size - 1
  <1>1. read_ptr + i - 1 \in 0..2 * Size - 1
    BY SizeAssumption DEF IInv, TypeOK, ringbuffer_used
  <1>2. CASE read_ptr + i - 1 < Size
    BY <1>1, <1>2, ModBelow, SizeAssumption DEF Slot
  <1>3. CASE ~(read_ptr + i - 1 < Size)
    <2> DEFINE x == read_ptr + i - 1
    <2>1. x \in Size..2 * Size - 1
      BY <1>1, <1>3, SizeAssumption
    <2>2. x % Size = x - Size
      <3> HIDE DEF x
      <3> QED BY <2>1, ModWrap, SizeAssumption
    <2>3. Slot(i) = x - Size
      BY <1>3, SizeAssumption DEF Slot, IInv, TypeOK
    <2>4. x - Size \in 0..Size - 1
      BY <2>1, SizeAssumption
    <2> HIDE DEF x
    <2>5. x % buffer_size = Slot(i) /\ Slot(i) \in 0..Size - 1
      BY <2>2, <2>3, <2>4
    <2> QED BY <2>5 DEF x
  <1> QED BY <1>2, <1>3

\* ringbuffer_used never exceeds the capacity.
LEMMA UsedRange ==
  ASSUME IInv
  PROVE  /\ ringbuffer_used \in 0..Size - 1
         /\ buffer_size = 0 => ringbuffer_used = 0
  BY SizeAssumption DEF IInv, TypeOK, NoBuffer, ringbuffer_used

\* The queue the ring stands for, byte by byte.
ContentsBytes ==
  /\ Contents \in Seq(Data)
  /\ Len(Contents) = ringbuffer_used
  /\ \A i \in 1..ringbuffer_used : Contents[i] = buffer[Slot(i)]

\* The queue the ring stands for is a sequence of ringbuffer_used bytes.
LEMMA ContentsSeq == IInv => ContentsBytes
  <1> SUFFICES ASSUME IInv PROVE ContentsBytes
    OBVIOUS
  <1>1. ringbuffer_used \in Nat
    BY UsedRange
  <1>2. \A i \in 1..ringbuffer_used :
           buffer[(read_ptr + i - 1) % buffer_size] = buffer[Slot(i)]
           /\ buffer[Slot(i)] \in Data
    <2> SUFFICES ASSUME NEW i \in 1..ringbuffer_used
                 PROVE  /\ buffer[(read_ptr + i - 1) % buffer_size]
                             = buffer[Slot(i)]
                        /\ buffer[Slot(i)] \in Data
      OBVIOUS
    <2>1. buffer_size = Size
      BY UsedRange DEF IInv, TypeOK
    <2>2. (read_ptr + i - 1) % buffer_size = Slot(i) /\ Slot(i) \in 0..Size - 1
      BY <2>1, SlotIsRemainder
    <2> QED BY <2>2 DEF IInv, TypeOK
  <1>3. Contents \in [1..ringbuffer_used -> Data]
    BY <1>2 DEF Contents
  <1> QED BY <1>1, <1>2, <1>3 DEF Contents, ContentsBytes

\* No bytes are in flight before the first call.
LEMMA InitContent == Init => ContentInv
  BY Zenon DEF Init, ContentInv

\* Every step keeps the bytes copied but not yet committed.
LEMMA StepContent == FullInv /\ [Next]_vars => ContentInv'
  <1> SUFFICES ASSUME IInv, ContentInv, [Next]_vars PROVE ContentInv'
    BY DEF FullInv
  <1> USE SizeAssumption
  <1> USE DEF ContentInv, rb, writer, reader
  <1>1. CASE ringbuffer_init \/ ringbuffer_free
    BY <1>1 DEF ringbuffer_init, ringbuffer_free
  <1>2. CASE WriteCall \/ WriteReturn \/ WriteLoop
    BY <1>2 DEF WriteCall, WriteReturn, WriteLoop
  <1>3. CASE WriteCopy
    <2>1. \A i \in 1..write_len : buffer'[write_ptr + i - 1] = src[i]
      BY <1>3 DEF WriteCopy, IInv, TypeOK, WriterInRange
    <2>2. rpc \in {"copy", "commit"} =>
             \A i \in 1..read_len :
               buffer'[read_ptr + i - 1] = buffer[read_ptr + i - 1]
      BY <1>3, SMTT(30)
      DEF WriteCopy, IInv, TypeOK, WriterInRange, ReaderInRange, ringbuffer_used
    <2>3. rpc = "commit" =>
             [i \in 1..read_len |-> buffer'[read_ptr + i - 1]]
               = [i \in 1..read_len |-> buffer[read_ptr + i - 1]]
      BY <2>2
    <2> QED BY <1>3, <2>1, <2>3 DEF WriteCopy
  <1>4. CASE WriteCommit
    BY <1>4 DEF WriteCommit
  <1>5. CASE ReadCall \/ ReadReturn
    BY <1>5 DEF ReadCall, ReadReturn
  <1>6. CASE ReadLoop
    BY <1>6 DEF ReadLoop
  <1>7. CASE ReadCopy
    BY <1>7 DEF ReadCopy
  <1>8. CASE ReadCommit
    BY <1>8 DEF ReadCommit
  <1>9. CASE UNCHANGED vars
    BY <1>9 DEF vars
  <1> QED
    BY <1>1, <1>2, <1>3, <1>4, <1>5, <1>6, <1>7, <1>8, <1>9
    DEF Next, Writer, Reader

\* Pointers and bytes in flight agree in every reachable state.
THEOREM FullInvariance == Spec => []FullInv
  <1>1. Init => FullInv
    BY InitIInv, InitContent DEF FullInv
  <1>2. FullInv /\ [Next]_vars => FullInv'
    BY StepIInv, StepContent DEF FullInv
  <1> QED BY <1>1, <1>2, PTL DEF Spec

\* The queue a step leaves alone.
LEMMA SameContents ==
  ASSUME UNCHANGED <<buffer_size, read_ptr, write_ptr>>,
         \A i \in 1..ringbuffer_used :
           buffer'[(read_ptr + i - 1) % buffer_size]
             = buffer[(read_ptr + i - 1) % buffer_size]
  PROVE  Contents' = Contents /\ ringbuffer_capacity' = ringbuffer_capacity
  BY DEF Contents, ringbuffer_used, ringbuffer_capacity

\* Storing write_ptr appends exactly the bytes that were copied in.
LEMMA CommitAppends ==
  ASSUME FullInv, FullInv', WriteCommit
  PROVE  /\ write_len \in 1..Len(src)
         /\ Len(Contents) + write_len <= Size - 1
         /\ Contents' = Contents \o SubSeq(src, 1, write_len)
  <1> USE SizeAssumption
  <1>1. ContentsBytes /\ ContentsBytes'
    BY ContentsSeq, PTL DEF FullInv
  <1>2. /\ buffer_size = Size
        /\ write_len \in 1..Len(src)
        /\ write_ptr + write_len <= Size
        /\ ringbuffer_used + write_len <= Size - 1
    BY DEF FullInv, IInv, TypeOK, NoBuffer, WriterInRange, WriteCommit
  <1>3. write_ptr' = IF write_ptr + write_len = Size THEN 0
                     ELSE write_ptr + write_len
    <2>1. write_ptr + write_len \in 0..Size
      BY <1>2 DEF FullInv, IInv, TypeOK
    <2>2. write_ptr' = (write_ptr + write_len) % Size
      BY <1>2 DEF WriteCommit
    <2> QED BY <2>1, <2>2, ModPointer
  <1>4. UNCHANGED <<buffer, buffer_size, read_ptr>>
    BY DEF WriteCommit
  <1>5. ringbuffer_used' = ringbuffer_used + write_len
    BY <1>2, <1>3, <1>4 DEF FullInv, IInv, TypeOK, ringbuffer_used
  <1> DEFINE t == SubSeq(src, 1, write_len)
  <1>6. /\ t \in Seq(Data) /\ Len(t) = write_len
        /\ \A i \in 1..write_len : t[i] = src[i]
    <2>1. src \in Seq(Data) /\ write_len \in 1..Len(src) /\ Len(src) \in Nat
      BY <1>2 DEF FullInv, IInv, TypeOK
    <2> QED BY <2>1
  <1>7. ASSUME NEW i \in 1..write_len
        PROVE  buffer[Slot(ringbuffer_used + i)] = src[i]
    <2>1. Slot(ringbuffer_used + i) = write_ptr + i - 1
      BY <1>2 DEF Slot, FullInv, IInv, TypeOK, ringbuffer_used
    <2>2. buffer[write_ptr + i - 1] = src[i]
      BY DEF FullInv, ContentInv, WriteCommit
    <2> QED BY <2>1, <2>2
  <1>8. \A i \in 1..ringbuffer_used + write_len :
           Contents'[i] = (Contents \o t)[i]
    <2> SUFFICES ASSUME NEW i \in 1..ringbuffer_used + write_len
                 PROVE  Contents'[i] = (Contents \o t)[i]
      OBVIOUS
    <2>1. Contents'[i] = buffer[Slot(i)]
      BY <1>1, <1>4, <1>5 DEF ContentsBytes, Slot
    <2>2. CASE i <= ringbuffer_used
      BY <1>1, <1>6, <2>1, <2>2 DEF ContentsBytes
    <2>3. CASE ~(i <= ringbuffer_used)
      <3>1. i - ringbuffer_used \in 1..write_len
            /\ ringbuffer_used + (i - ringbuffer_used) = i
        BY <1>1, <1>2, <2>3, UsedRange DEF FullInv
      <3>2. buffer[Slot(i)] = src[i - ringbuffer_used]
        BY <1>7, <3>1
      <3>3. (Contents \o t)[i] = t[i - ringbuffer_used]
        <4>1. Contents \in Seq(Data) /\ Len(Contents) = ringbuffer_used
              /\ t \in Seq(Data) /\ Len(t) = write_len
          BY <1>1, <1>6 DEF ContentsBytes
        <4>2. ringbuffer_used \in Nat /\ write_len \in Nat
          BY <4>1
        <4> HIDE DEF t
        <4> QED BY <2>3, <3>1, <4>1, <4>2
      <3> QED BY <1>6, <2>1, <3>1, <3>2, <3>3
    <2> QED BY <2>2, <2>3
  <1>9. /\ Contents' \in Seq(Data) /\ Contents \o t \in Seq(Data)
        /\ Len(Contents') = ringbuffer_used + write_len
        /\ Len(Contents \o t) = ringbuffer_used + write_len
    BY <1>1, <1>5, <1>6 DEF ContentsBytes
  <1>10. Contents' = Contents \o t
    <2> HIDE DEF t
    <2> QED BY <1>8, <1>9, SeqEqual
  <1> QED BY <1>1, <1>2, <1>10 DEF ContentsBytes

\* Storing read_ptr removes exactly the bytes that were copied out.
LEMMA CommitRemoves ==
  ASSUME FullInv, FullInv', ReadCommit
  PROVE  /\ read_len \in 1..rlen
         /\ read_len <= Len(Contents)
         /\ Contents' = SubSeq(Contents, read_len + 1, Len(Contents))
         /\ ~null => chunk = SubSeq(Contents, 1, read_len)
  <1> USE SizeAssumption
  <1>1. ContentsBytes /\ ContentsBytes'
    BY ContentsSeq, PTL DEF FullInv
  <1>2. /\ buffer_size = Size
        /\ read_len \in 1..rlen
        /\ read_ptr + read_len <= Size
        /\ read_len <= ringbuffer_used
    BY DEF FullInv, IInv, TypeOK, NoBuffer, ReaderInRange, ReadCommit
  <1>3. read_ptr' = IF read_ptr + read_len = Size THEN 0
                    ELSE read_ptr + read_len
    <2>1. read_ptr + read_len \in 0..Size
      BY <1>2 DEF FullInv, IInv, TypeOK
    <2>2. read_ptr' = (read_ptr + read_len) % Size
      BY <1>2 DEF ReadCommit
    <2> QED BY <2>1, <2>2, ModPointer
  <1>4. UNCHANGED <<buffer, buffer_size, write_ptr>>
    BY DEF ReadCommit
  <1>5. ringbuffer_used' = ringbuffer_used - read_len
    BY <1>2, <1>3, <1>4 DEF FullInv, IInv, TypeOK, ringbuffer_used
  <1>6. ringbuffer_used \in Nat /\ read_len \in Nat
    BY <1>2, UsedRange DEF FullInv, IInv, TypeOK
  <1> DEFINE rest == SubSeq(Contents, read_len + 1, Len(Contents))
  <1>7. /\ rest \in Seq(Data) /\ Len(rest) = ringbuffer_used - read_len
        /\ \A i \in 1..ringbuffer_used - read_len :
             rest[i] = Contents[i + read_len]
    BY <1>1, <1>2, <1>6 DEF ContentsBytes
  <1>8. \A i \in 1..ringbuffer_used - read_len : Contents'[i] = rest[i]
    <2> SUFFICES ASSUME NEW i \in 1..ringbuffer_used - read_len
                 PROVE  Contents'[i] = rest[i]
      OBVIOUS
    <2>1. Contents'[i] = buffer[Slot(i)']
      BY <1>1, <1>4, <1>5 DEF ContentsBytes, Slot
    <2>2. Slot(i)' = Slot(i + read_len)
      BY <1>2, <1>3, <1>6 DEF Slot, FullInv, IInv, TypeOK, ringbuffer_used
    <2>3. i + read_len \in 1..ringbuffer_used
      BY <1>2, <1>6
    <2>4. Contents[i + read_len] = buffer[Slot(i + read_len)]
      BY <1>1, <2>3 DEF ContentsBytes
    <2> QED BY <1>7, <2>1, <2>2, <2>4
  <1>9. Contents' = rest
    <2>1. Contents' \in Seq(Data) /\ Len(Contents') = ringbuffer_used - read_len
      BY <1>1, <1>5 DEF ContentsBytes
    <2> HIDE DEF rest
    <2> QED BY <1>7, <1>8, <2>1, SeqEqual
  <1>10. ASSUME ~null PROVE chunk = SubSeq(Contents, 1, read_len)
    <2> DEFINE h == SubSeq(Contents, 1, read_len)
    <2>1. chunk = [i \in 1..read_len |-> buffer[read_ptr + i - 1]]
      BY <1>10 DEF FullInv, ContentInv, ReadCommit
    <2>2. /\ h \in Seq(Data) /\ Len(h) = read_len
          /\ \A i \in 1..read_len : h[i] = Contents[i]
      BY <1>1, <1>2, <1>6 DEF ContentsBytes
    <2>3. ASSUME NEW i \in 1..read_len PROVE chunk[i] = h[i]
      <3>1. chunk[i] = buffer[read_ptr + i - 1]
        BY <2>1
      <3>2. Slot(i) = read_ptr + i - 1 /\ i \in 1..ringbuffer_used
        BY <1>2, <1>6 DEF Slot, FullInv, IInv, TypeOK
      <3> QED BY <1>1, <2>2, <3>1, <3>2 DEF ContentsBytes
    <2>4. chunk \in Seq(Data) /\ Len(chunk) = read_len
      BY <1>6, <2>1 DEF FullInv, IInv, TypeOK
    <2> HIDE DEF h
    <2>5. chunk = h
      BY <2>2, <2>3, <2>4, SeqEqual
    <2> QED BY <2>5 DEF h
  <1> QED BY <1>1, <1>2, <1>9, <1>10 DEF ContentsBytes

\* The bytes of a memcpy in flight are not yet part of the queue.
LEMMA CopyKeepsContents ==
  ASSUME FullInv, WriteCopy
  PROVE  Contents' = Contents /\ ringbuffer_capacity' = ringbuffer_capacity
  <1> USE SizeAssumption
  <1>1. UNCHANGED <<buffer_size, read_ptr, write_ptr>>
    BY DEF WriteCopy
  <1>2. buffer_size = Size
    BY DEF FullInv, IInv, TypeOK, NoBuffer, WriteCopy
  <1>3. ASSUME NEW i \in 1..ringbuffer_used
        PROVE  buffer'[(read_ptr + i - 1) % buffer_size]
                 = buffer[(read_ptr + i - 1) % buffer_size]
    <2>1. /\ (read_ptr + i - 1) % buffer_size = Slot(i)
          /\ Slot(i) \in 0..Size - 1
      BY <1>2, SlotIsRemainder DEF FullInv
    <2>2. Slot(i) \notin write_ptr..write_ptr + write_len - 1
      BY <1>2 DEF Slot, FullInv, IInv, TypeOK, WriterInRange, WriteCopy,
                  ringbuffer_used
    <2>3. buffer'[Slot(i)] = buffer[Slot(i)]
      BY <2>1, <2>2 DEF WriteCopy
    <2> QED BY <2>1, <2>3
  <1> QED BY <1>1, <1>3, SameContents

\* Steps that change neither a pointer nor a byte of the ring.
LEMMA RingUnchanged ==
  ASSUME UNCHANGED rb
  PROVE  /\ Contents' = Contents
         /\ ringbuffer_capacity' = ringbuffer_capacity
         /\ buffer_size' = buffer_size
  BY DEF rb, Contents, ringbuffer_used, ringbuffer_capacity

\* An uninitialised ring is an empty queue without a buffer.
LEMMA FifoInit == Init => Fifo!Init
  <1> SUFFICES ASSUME Init PROVE Fifo!Init
    OBVIOUS
  <1>1. ringbuffer_used = 0 /\ buffer_size = 0
    BY DEF Init, ringbuffer_used
  <1>2. Contents = << >>
    BY <1>1 DEF Contents
  <1>3. null = FALSE
    BY DEF Init
  <1>4. rlen = 0 /\ src = << >> /\ dst = << >>
    BY DEF Init
  <1> QED BY <1>1, <1>2, <1>3, <1>4, Zenon DEF Fifo!Init

\* Every step of ringbuffer.c is a step of the queue or changes nothing of it.
LEMMA FifoStep == FullInv /\ FullInv' /\ [Next]_vars => [Fifo!Next]_(Fifo!vars)
  <1> SUFFICES ASSUME FullInv, FullInv', [Next]_vars
               PROVE  [Fifo!Next]_(Fifo!vars)
    OBVIOUS
  <1> USE DEF writer, reader
  <1>1. CASE ringbuffer_init \/ ringbuffer_free
    <2>1. Contents' = << >>
      <3>1. ringbuffer_used' = 0
        BY <1>1 DEF ringbuffer_init, ringbuffer_free, ringbuffer_used
      <3> QED BY <3>1 DEF Contents
    <2>2. (IF buffer_size = 0 THEN 0 ELSE ringbuffer_capacity)'
            \in {0, Size - 1}
      <3>1. buffer_size' \in {0, Size}
        BY DEF FullInv, IInv, TypeOK
      <3>2. CASE buffer_size' = 0
        BY <3>2
      <3>3. CASE buffer_size' = Size
        <4>1. ringbuffer_capacity' = Size - 1
          <5>1. Size - 1 \in 0..Mod - 1 /\ Mod \in Nat \ {0}
            BY SizeAssumption, ModAssumption
          <5> QED BY <3>3, <5>1, ModBelow DEF ringbuffer_capacity
        <4> QED BY <3>3, <4>1, SizeAssumption
      <3> QED BY <3>1, <3>2, <3>3
    <2>3. src = << >> /\ rlen = 0 /\ UNCHANGED <<src, rlen, dst, null>>
      BY <1>1 DEF ringbuffer_init, ringbuffer_free, FullInv, ContentInv
    <2> QED BY <2>1, <2>2, <2>3 DEF Fifo!Next, Fifo!Reset
  <1>2. CASE WriteCall
    <2>1. UNCHANGED rb /\ UNCHANGED <<rlen, dst, null>> /\ src = << >>
      BY <1>2 DEF WriteCall, FullInv, ContentInv
    <2>2. src' \in Seq(Data)
      BY DEF FullInv, IInv, TypeOK
    <2> QED BY <2>1, <2>2, RingUnchanged DEF Fifo!Next, Fifo!BeginWrite
  <1>3. CASE WriteReturn
    <2>1. UNCHANGED rb /\ UNCHANGED <<rlen, dst, null>> /\ src' = << >>
      BY <1>3 DEF WriteReturn
    <2>2. CASE Len(src) = 0
      <3>1. src = << >>
        BY <2>2, EmptySeq DEF FullInv, IInv, TypeOK
      <3> QED BY <2>1, <3>1, RingUnchanged DEF Fifo!vars
    <2>3. CASE BufferLeft = 0
      <3>1. Len(Contents) = IF buffer_size = 0 THEN 0 ELSE ringbuffer_capacity
        <4>1. ContentsBytes
          BY ContentsSeq DEF FullInv
        <4>2. CASE buffer_size = 0
          BY <4>1, <4>2, UsedRange DEF ContentsBytes, FullInv
        <4>3. CASE buffer_size = Size
          <5>1. ringbuffer_used = Size - 1
            BY <2>3, <4>3, SizeAssumption
            DEF FullInv, IInv, TypeOK, ringbuffer_used, BufferLeft
          <5> QED BY <4>1, <4>3, <5>1, CapacityExact, SizeAssumption
                  DEF ContentsBytes
        <4> QED BY <4>2, <4>3 DEF FullInv, IInv, TypeOK
      <3> QED BY <2>1, <3>1, RingUnchanged DEF Fifo!Next, Fifo!EndWrite
    <2> QED BY <1>3, <2>2, <2>3 DEF WriteReturn
  <1>4. CASE WriteLoop
    <2>1. UNCHANGED rb /\ UNCHANGED <<rlen, dst, null, src>>
      BY <1>4 DEF WriteLoop
    <2> QED BY <2>1, RingUnchanged DEF Fifo!vars
  <1>5. CASE WriteCopy
    <2>1. UNCHANGED <<buffer_size, rlen, dst, null, src>>
      BY <1>5 DEF WriteCopy
    <2> QED BY <1>5, <2>1, CopyKeepsContents DEF Fifo!vars
  <1>6. CASE WriteCommit
    <2>1. /\ UNCHANGED <<buffer_size, rlen, dst, null>>
          /\ src' = SubSeq(src, write_len + 1, Len(src))
      BY <1>6 DEF WriteCommit
    <2>2. buffer_size = Size /\ buffer_size # 0
      BY <1>6, SizeAssumption DEF FullInv, IInv, TypeOK, NoBuffer, WriteCommit
    <2>3. ringbuffer_capacity' = ringbuffer_capacity
      BY <2>1 DEF ringbuffer_capacity
    <2>4. Len(Contents) + write_len <= ringbuffer_capacity
      BY <1>6, <2>2, CommitAppends, CapacityExact
    <2>5. Contents' = Contents \o SubSeq(src, 1, write_len)
          /\ write_len \in 1..Len(src)
      BY <1>6, CommitAppends
    <2> QED BY <2>1, <2>2, <2>3, <2>4, <2>5 DEF Fifo!Next, Fifo!Put
  <1>7. CASE ReadCall
    <2>1. /\ UNCHANGED rb /\ UNCHANGED src
          /\ rlen = 0 /\ dst' = << >>
      BY <1>7 DEF ReadCall, FullInv, ContentInv
    <2>2. rlen' \in Nat /\ null' \in BOOLEAN
      BY MaxLenAssumption DEF FullInv, IInv, TypeOK
    <2> QED BY <2>1, <2>2, RingUnchanged DEF Fifo!Next, Fifo!BeginRead
  <1>8. CASE ReadReturn
    <2>1. UNCHANGED rb /\ UNCHANGED <<dst, null, src>> /\ rlen' = 0
      BY <1>8 DEF ReadReturn
    <2>2. CASE rlen = 0
      BY <2>1, <2>2, RingUnchanged DEF Fifo!vars
    <2>3. CASE read_ptr = write_ptr
      <3>1. ringbuffer_used = 0
        BY <2>3 DEF FullInv, IInv, TypeOK, ringbuffer_used
      <3>2. Contents = << >>
        BY <3>1 DEF Contents
      <3> QED BY <2>1, <3>2, RingUnchanged DEF Fifo!Next, Fifo!EndRead
    <2> QED BY <1>8, <2>2, <2>3 DEF ReadReturn
  <1>9. CASE ReadLoop \/ ReadCopy
    <2>1. UNCHANGED rb /\ UNCHANGED <<rlen, dst, null, src>>
      BY <1>9 DEF ReadLoop, ReadCopy
    <2> QED BY <2>1, RingUnchanged DEF Fifo!vars
  <1>10. CASE ReadCommit
    <2>1. /\ UNCHANGED <<buffer_size, src, null>>
          /\ rlen' = rlen - read_len
          /\ dst' = dst \o chunk
      BY <1>10 DEF ReadCommit
    <2>2. ringbuffer_capacity' = ringbuffer_capacity
      BY <2>1 DEF ringbuffer_capacity
    <2>3. /\ read_len \in 1..rlen
          /\ read_len <= Len(Contents)
          /\ Contents' = SubSeq(Contents, read_len + 1, Len(Contents))
      BY <1>10, CommitRemoves
    <2>4. dst' = IF null THEN dst ELSE dst \o SubSeq(Contents, 1, read_len)
      <3>1. CASE null
        <4>1. chunk = << >>
          BY <1>10, <3>1 DEF ReadCommit, FullInv, ContentInv
        <4> QED BY <2>1, <3>1, <4>1, ConcatEmptySeq DEF FullInv, IInv, TypeOK
      <3>2. CASE ~null
        BY <1>10, <2>1, <3>2, CommitRemoves
      <3> QED BY <3>1, <3>2
    <2> QED BY <2>1, <2>2, <2>3, <2>4 DEF Fifo!Next, Fifo!Take
  <1>11. CASE UNCHANGED vars
    <2>1. UNCHANGED rb /\ UNCHANGED <<rlen, dst, null, src>>
      BY <1>11 DEF vars
    <2> QED BY <2>1, RingUnchanged DEF Fifo!vars
  <1> QED
    BY <1>1, <1>2, <1>3, <1>4, <1>5, <1>6, <1>7, <1>8, <1>9, <1>10, <1>11
    DEF Next, Writer, Reader

\* The ring of ringbuffer.c is a bounded queue, for every size and every
\* interleaving of one writer and one reader: bytes come out once, in order
\* and unchanged, and a call stops short only at a full or an empty ring.
THEOREM Refinement == Spec => ImplementsFifo
  BY FifoInit, FifoStep, FullInvariance, PTL DEF Spec, ImplementsFifo
=============================================================================
