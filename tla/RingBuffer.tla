----------------------------- MODULE RingBuffer -----------------------------
(***************************************************************************)
(* kernel/ringbuffer.c: a byte ring shared by one writer and one reader    *)
(* without any lock (the keyboard IRQ handler writes, a task reads).  The  *)
(* two calls are processes of their own.  One iteration of a copy loop is  *)
(* three steps, because between them the other side may run: "loop" loads  *)
(* the other side's pointer once (the -Os build keeps it in a register)    *)
(* and fixes the length, "copy" is the memcpy, "commit" stores the own     *)
(* pointer.  The caller's obligations are one writer and one reader at a   *)
(* time, and init and free between calls.                                  *)
(***************************************************************************)
EXTENDS Integers, Sequences

CONSTANTS
  Data,    \* the byte values
  Size,    \* the buffer_size given to ringbuffer_init
  MaxLen,  \* the longest request (bound)
  Mod      \* 2^32: the arithmetic of u32

ASSUME SizeAssumption == Size \in Nat \ {0}
ASSUME ModAssumption == Mod \in Nat /\ Size < Mod
ASSUME MaxLenAssumption == MaxLen \in Nat
ASSUME DataAssumption == Data # {}

VARIABLES
  buffer,       \* the bytes behind rb->buffer
  buffer_size,  \* rb->buffer_size
  read_ptr,     \* rb->read_ptr
  write_ptr,    \* rb->write_ptr
  wpc,          \* writer: "idle", "loop", "copy" or "commit"
  src,          \* writer: the caller's bytes from `buffer' on, `len' of them
  write_len,    \* writer: the length of this iteration's memcpy
  rpc,          \* reader: "idle", "loop", "copy" or "commit"
  rlen,         \* reader: `len', the bytes still asked for
  null,         \* reader: the destination is NULL, the bytes are dropped
  read_len,     \* reader: the length of this iteration's memcpy
  chunk,        \* reader: the bytes of this iteration's memcpy
  dst           \* reader: the bytes before the caller's advanced `buffer'

rb == <<buffer, buffer_size, read_ptr, write_ptr>>
writer == <<wpc, src, write_len>>
reader == <<rpc, rlen, null, read_len, chunk, dst>>
vars == <<rb, writer, reader>>

PC == {"idle", "loop", "copy", "commit"}

BytesUpTo(n) == UNION {[1..k -> Data] : k \in 0..n}

Init ==
  /\ buffer \in [0..Size - 1 -> Data]
  /\ buffer_size = 0 /\ read_ptr = 0 /\ write_ptr = 0
  /\ wpc = "idle" /\ src = << >> /\ write_len = 0
  /\ rpc = "idle" /\ rlen = 0 /\ null = FALSE /\ read_len = 0
  /\ chunk = << >> /\ dst = << >>

-----------------------------------------------------------------------------
(* The queries.                                                            *)

\* Mutated: the part before the wrap is forgotten.
UsedNoWrap ==
  IF write_ptr < read_ptr THEN write_ptr ELSE write_ptr - read_ptr

ringbuffer_used ==
  IF write_ptr < read_ptr THEN (buffer_size - read_ptr) + write_ptr
                          ELSE write_ptr - read_ptr

\* u32: a buffer of size 0 claims a capacity of 2^32 - 1.
ringbuffer_capacity == (buffer_size - 1) % Mod

ringbuffer_unused == (ringbuffer_capacity - ringbuffer_used) % Mod

ringbuffer_isempty == write_ptr = read_ptr

MinOf(a, b) == IF a <= b THEN a ELSE b

-----------------------------------------------------------------------------
(* ringbuffer_init and ringbuffer_free.                                    *)

\* kmalloc's answer is not ours to choose; on failure the size stays 0.
ringbuffer_init ==
  /\ wpc = "idle" /\ rpc = "idle"
  /\ buffer_size = 0
  /\ buffer_size' \in {0, Size}
  /\ read_ptr' = 0
  /\ write_ptr' = 0
  /\ UNCHANGED <<buffer, writer, reader>>

ringbuffer_free ==
  /\ wpc = "idle" /\ rpc = "idle"
  /\ buffer_size > 0
  /\ buffer_size' = 0
  /\ read_ptr' = 0
  /\ write_ptr' = 0
  /\ UNCHANGED <<buffer, writer, reader>>

-----------------------------------------------------------------------------
(* ringbuffer_write.                                                       *)

WriteCall ==
  /\ wpc = "idle"
  /\ wpc' = "loop"
  /\ src' \in BytesUpTo(MaxLen)
  /\ UNCHANGED <<rb, write_len, reader>>

\* Mutated: no slot is kept free below the reader.
BufferLeftNoSlot ==
  IF write_ptr >= read_ptr
  THEN LET left == buffer_size - write_ptr
       IN IF read_ptr = 0 /\ left > 0 THEN left - 1 ELSE left
  ELSE read_ptr - write_ptr

\* Mutated: no slot is kept free when the reader is at 0.
BufferLeftNoWrapSlot ==
  IF write_ptr >= read_ptr THEN buffer_size - write_ptr
                           ELSE read_ptr - write_ptr - 1

\* How much may be written without a wrap, by the pointers of this moment.
BufferLeft ==
  IF write_ptr >= read_ptr
  THEN LET left == buffer_size - write_ptr
       IN IF read_ptr = 0 /\ left > 0 THEN left - 1 ELSE left
  ELSE read_ptr - write_ptr - 1

\* Mutated: a full ring makes the writer wait.
WriteReturnAll ==
  /\ wpc = "loop"
  /\ Len(src) = 0
  /\ wpc' = "idle"
  /\ src' = << >>
  /\ write_len' = 0
  /\ UNCHANGED <<rb, reader>>

WriteReturn ==
  /\ wpc = "loop"
  /\ Len(src) = 0 \/ BufferLeft = 0
  /\ wpc' = "idle"
  /\ src' = << >>
  /\ write_len' = 0
  /\ UNCHANGED <<rb, reader>>

WriteLoop ==
  /\ wpc = "loop"
  /\ Len(src) > 0
  /\ BufferLeft > 0
  /\ write_len' = MinOf(MinOf(Len(src), BufferLeft), buffer_size - write_ptr)
  /\ wpc' = "copy"
  /\ UNCHANGED <<rb, src, reader>>

WriteCopy ==
  /\ wpc = "copy"
  /\ buffer' = [i \in 0..Size - 1 |->
                  IF i \in write_ptr..write_ptr + write_len - 1
                  THEN src[i - write_ptr + 1] ELSE buffer[i]]
  /\ wpc' = "commit"
  /\ UNCHANGED <<buffer_size, read_ptr, write_ptr, src, write_len, reader>>

WriteCommit ==
  /\ wpc = "commit"
  /\ src' = SubSeq(src, write_len + 1, Len(src))
  /\ write_ptr' = (write_ptr + write_len) % buffer_size
  /\ wpc' = "loop"
  /\ UNCHANGED <<buffer, buffer_size, read_ptr, write_len, reader>>

-----------------------------------------------------------------------------
(* ringbuffer_read.                                                        *)

ReadCall ==
  /\ rpc = "idle"
  /\ rpc' = "loop"
  /\ rlen' \in 0..MaxLen
  /\ null' \in BOOLEAN
  /\ dst' = << >>
  /\ UNCHANGED <<rb, writer, read_len, chunk>>

ReadReturn ==
  /\ rpc = "loop"
  /\ rlen = 0 \/ read_ptr = write_ptr
  /\ rpc' = "idle"
  /\ rlen' = 0
  /\ read_len' = 0
  /\ UNCHANGED <<rb, writer, null, chunk, dst>>

\* Mutated: reads on to the end of the buffer, past the writer.
ContiguousToEnd == buffer_size - read_ptr

\* How much may be read without a wrap, by the pointers of this moment.
Contiguous ==
  IF read_ptr >= write_ptr THEN buffer_size - read_ptr ELSE write_ptr - read_ptr

ReadLoop ==
  /\ rpc = "loop"
  /\ rlen > 0
  /\ read_ptr # write_ptr
  /\ read_len' = MinOf(rlen, Contiguous)
  /\ rpc' = IF null THEN "commit" ELSE "copy"
  /\ UNCHANGED <<rb, writer, rlen, null, chunk, dst>>

ReadCopy ==
  /\ rpc = "copy"
  /\ chunk' = [i \in 1..read_len |-> buffer[read_ptr + i - 1]]
  /\ rpc' = "commit"
  /\ UNCHANGED <<rb, writer, rlen, null, read_len, dst>>

ReadCommit ==
  /\ rpc = "commit"
  /\ rlen' = rlen - read_len
  /\ read_ptr' = (read_ptr + read_len) % buffer_size
  /\ dst' = dst \o chunk
  /\ chunk' = << >>
  /\ rpc' = "loop"
  /\ UNCHANGED <<buffer, buffer_size, write_ptr, writer, null, read_len>>

-----------------------------------------------------------------------------
Writer == WriteReturn \/ WriteLoop \/ WriteCopy \/ WriteCommit

Reader == ReadReturn \/ ReadLoop \/ ReadCopy \/ ReadCommit

Next ==
  \/ ringbuffer_init \/ ringbuffer_free
  \/ WriteCall \/ Writer
  \/ ReadCall \/ Reader

\* A call that has begun keeps being executed: an interrupted one resumes.
Spec == Init /\ [][Next]_vars /\ WF_vars(Writer) /\ WF_vars(Reader)

-----------------------------------------------------------------------------
(* Properties.                                                             *)

\* The type of every variable: pointers stay inside the allocation.
TypeOK ==
  /\ buffer \in [0..Size - 1 -> Data]
  /\ buffer_size \in {0, Size}
  /\ read_ptr \in 0..Size - 1
  /\ write_ptr \in 0..Size - 1
  /\ wpc \in PC
  /\ src \in Seq(Data)
  /\ write_len \in 0..Size
  /\ rpc \in PC
  /\ rlen \in 0..MaxLen
  /\ null \in BOOLEAN
  /\ read_len \in 0..Size
  /\ chunk \in Seq(Data)
  /\ dst \in Seq(Data)

WriteRegion ==
  IF wpc \in {"copy", "commit"} THEN write_ptr..write_ptr + write_len - 1 ELSE {}

ReadRegion ==
  IF rpc \in {"copy", "commit"} THEN read_ptr..read_ptr + read_len - 1 ELSE {}

\* The memcpy of ringbuffer_write and the memcpy of ringbuffer_read never
\* touch the same byte, whatever the other side did between the load of the
\* pointers and the copy, and neither leaves the allocation.
NoOverlap ==
  /\ WriteRegion \cap ReadRegion = {}
  /\ WriteRegion \cup ReadRegion \subseteq 0..buffer_size - 1

\* Publishing write_ptr never makes a ring that holds bytes look empty: the
\* bytes of a write in flight and the unread ones together leave the one free
\* slot that tells a full ring from an empty one.
RoomForCommit ==
  wpc \in {"copy", "commit"} =>
    /\ write_len > 0
    /\ ringbuffer_used + write_len <= ringbuffer_capacity

\* ringbuffer_unused, which counts the room over both sides of the wrap, and
\* the loop of ringbuffer_write, which looks at one side at a time, agree on
\* when the ring is full: no write stops while unused reports room, and none
\* finds room where unused reports 0.
UnusedIsHonest ==
  buffer_size > 0 => ((ringbuffer_unused = 0) <=> (BufferLeft = 0))

\* The ring is the bounded queue of BoundedFifo: the bytes come out once, in
\* order and unchanged, a write stops short only when the ring is full and a
\* read only when it is empty.
Contents ==
  [i \in 1..ringbuffer_used |-> buffer[(read_ptr + i - 1) % buffer_size]]

Fifo == INSTANCE BoundedFifo WITH
          Data <- Data, Capacity <- Size - 1,
          cap <- IF buffer_size = 0 THEN 0 ELSE ringbuffer_capacity,
          q <- Contents, pend <- src, want <- rlen, out <- dst, drop <- null

ImplementsFifo == Fifo!Init /\ [][Fifo!Next]_(Fifo!vars)

\* Every call returns: the loops of ringbuffer_write and ringbuffer_read end
\* even when the other side keeps making room, or bytes, for another round.
CallsReturn ==
  /\ (wpc # "idle") ~> (wpc = "idle")
  /\ (rpc # "idle") ~> (rpc = "idle")
=============================================================================
