------------------------------ MODULE CRingBuffer ------------------------------
(***************************************************************************)
(* CRingBuffer of ringbuffer.h and ringbuffer.cpp: one thread that calls   *)
(* Write and one that calls Read, with no lock, at the grain of single     *)
(* loads and stores of m_Head and m_Tail and single CopyMemory calls.      *)
(* Pointers are offsets from m_Base, and m_End is Size.                    *)
(*                                                                         *)
(* A byte is the number of its acceptance: a Write that has room for k     *)
(* bytes stores stored+1 .. stored+k and drops the rest of its data.       *)
(***************************************************************************)
EXTENDS Integers, Sequences

CONSTANTS
  Size,            \* m_Size
  WriteSizes,      \* lengths of the data given to Write
  ReadSizes,       \* lengths of the buffers given to Read
  MaxBytes,        \* bound on the bytes accepted, and read before a Read begins
  WrapInterrupted  \* a Read may begin at m_Base between the two stores to m_Tail

ASSUME RingBufferAssumption ==
  /\ Size \in Nat \ {0}
  /\ WriteSizes \subseteq Nat \ {0}
  /\ ReadSizes \subseteq Nat \ {0}
  /\ MaxBytes \in Nat
  /\ WrapInterrupted \in BOOLEAN

VARIABLES
  m_Head, m_Tail,  \* may be Size for a moment, between two stores
  buf,             \* the bytes of the buffer; 0 is a byte never written
  wpc, wleft,      \* where Write is, and its bytesToCopy
  rpc, rleft,      \* where Read is, and its DataSize
  got,             \* what Read has copied so far
  stored,          \* bytes made visible to the reader
  delivered        \* bytes the reader has taken off the buffer

writeVars == <<m_Tail, buf, wpc, wleft, stored>>
readVars == <<m_Head, rpc, rleft, got, delivered>>
vars == <<writeVars, readVars>>

Slots == 0..(Size - 1)
Pcs == {"idle", "first", "second", "rewind", "advance", "wrap"}

RingTypeOK ==
  /\ m_Head \in 0..Size /\ m_Tail \in 0..Size
  /\ buf \in [Slots -> Nat]
  /\ wpc \in Pcs /\ wleft \in Nat
  /\ rpc \in Pcs /\ rleft \in Nat
  /\ got \in Seq(Nat)
  /\ stored \in Nat
  /\ delivered \in Seq(Nat)

\* Initialize
RingInit ==
  /\ m_Head = 0 /\ m_Tail = 0
  /\ buf = [s \in Slots |-> 0]
  /\ wpc = "idle" /\ wleft = 0
  /\ rpc = "idle" /\ rleft = 0
  /\ got = <<>>
  /\ stored = 0
  /\ delivered = <<>>

Lesser(a, b) == IF a < b THEN a ELSE b

\* Seeded fault: the slot that tells a full buffer from an empty one is used.
AvailableSpace_AllSlots(h, t) ==
  CASE t = h -> Size
    [] t > h -> Size - (t - h)
    [] t < h -> h - t

\* Seeded fault: the unused slot is not counted when the data has wrapped.
AvailableSpace_WrappedAllSlots(h, t) ==
  LET tailPlusOne == IF t + 1 = Size THEN 0 ELSE t + 1 IN
  CASE tailPlusOne = h           -> 0
    [] tailPlusOne # h /\ t = h  -> Size - 1
    [] tailPlusOne # h /\ t > h  -> Size - (t - h) - 1
    [] tailPlusOne # h /\ t < h  -> h - t

\* GetAvailableSpace
AvailableSpace(h, t) ==
  LET tailPlusOne == IF t + 1 = Size THEN 0 ELSE t + 1 IN
  CASE tailPlusOne = h           -> 0
    [] tailPlusOne # h /\ t = h  -> Size - 1
    [] tailPlusOne # h /\ t > h  -> Size - (t - h) - 1
    [] tailPlusOne # h /\ t < h  -> (h - t) - 1

\* GetAvailableData
AvailableData(h, t) == Size - AvailableSpace(h, t) - 1

-----------------------------------------------------------------------------
(* Write                                                                   *)

\* Seeded fault: the data is not cut to the space there is.
WriteBegin_Uncut(n) ==
  /\ wpc = "idle"
  /\ m_Tail < Size
  /\ stored + n <= MaxBytes
  /\ AvailableSpace(m_Head, m_Tail) > 0
  /\ wpc' = "first"
  /\ wleft' = n
  /\ UNCHANGED <<m_Tail, buf, stored, readVars>>

\* m_Head is read once; m_Tail is the writer's own.  Without room nothing happens.
WriteBegin(n) ==
  LET k == Lesser(AvailableSpace(m_Head, m_Tail), n) IN
  /\ wpc = "idle"
  /\ m_Tail < Size
  /\ stored + n <= MaxBytes
  /\ k > 0
  /\ wpc' = "first"
  /\ wleft' = k
  /\ UNCHANGED <<m_Tail, buf, stored, readVars>>

\* CopyMemory of n bytes to offset a, the first of them byte b
CopiedTo(a, n, b) ==
  [s \in Slots |-> IF a <= s /\ s < a + n THEN b + (s - a) ELSE buf[s]]

WriteFirst ==
  /\ wpc = "first"
  /\ IF m_Tail + wleft > Size
     THEN /\ buf' = CopiedTo(m_Tail, Size - m_Tail, stored + 1)
          /\ wleft' = wleft - (Size - m_Tail)
          /\ wpc' = "second"
     ELSE /\ buf' = CopiedTo(m_Tail, wleft, stored + 1)
          /\ wpc' = "advance"
          /\ UNCHANGED wleft
  /\ UNCHANGED <<m_Tail, stored, readVars>>

WriteSecond ==
  /\ wpc = "second"
  /\ buf' = CopiedTo(0, wleft, stored + (Size - m_Tail) + 1)
  /\ wpc' = "rewind"
  /\ UNCHANGED <<m_Tail, wleft, stored, readVars>>

\* m_Tail = m_Base + bytesToCopy
WriteRewind ==
  /\ wpc = "rewind"
  /\ m_Tail' = wleft
  /\ stored' = stored + (Size - m_Tail) + wleft
  /\ wleft' = 0
  /\ wpc' = "idle"
  /\ UNCHANGED <<buf, readVars>>

\* Seeded fault: the tail is not wrapped when it exactly reaches the end.
WriteAdvance_NoWrap ==
  /\ wpc = "advance"
  /\ m_Tail' = m_Tail + wleft
  /\ stored' = stored + wleft
  /\ wleft' = 0
  /\ wpc' = "idle"
  /\ UNCHANGED <<buf, readVars>>

\* m_Tail += bytesToCopy, and then m_Tail = m_Base when that is m_End: two stores,
\* or one when the build drops the first.
WriteAdvance ==
  /\ wpc = "advance"
  /\ stored' = stored + wleft
  /\ wleft' = 0
  /\ \/ m_Tail' = m_Tail + wleft
     \/ m_Tail + wleft = Size /\ m_Tail' = 0
  /\ wpc' = IF m_Tail' = Size THEN "wrap" ELSE "idle"
  /\ UNCHANGED <<buf, readVars>>

WriteWrap ==
  /\ wpc = "wrap"
  /\ m_Tail' = 0
  /\ wpc' = "idle"
  /\ UNCHANGED <<buf, wleft, stored, readVars>>

-----------------------------------------------------------------------------
(* Read                                                                    *)

\* Seeded fault: a reader takes one byte more than there is.
ReadBegin_Greedy(n) ==
  LET k == Lesser(AvailableData(m_Head, m_Tail) + 1, n) IN
  /\ rpc = "idle"
  /\ m_Head < Size
  /\ AvailableData(m_Head, m_Tail) > 0
  /\ rpc' = "first"
  /\ rleft' = k
  /\ UNCHANGED <<m_Head, got, delivered, writeVars>>

\* The moment at which the pointers tell the wrong count: m_Tail is at m_End, not
\* yet back at m_Base, and the reader has already taken everything.
AtWrap == m_Tail = Size /\ m_Head = 0

\* m_Tail is read once; m_Head is the reader's own.  Without data nothing happens.
ReadBegin(n) ==
  LET k == Lesser(AvailableData(m_Head, m_Tail), n) IN
  /\ rpc = "idle"
  /\ m_Head < Size
  /\ AtWrap => WrapInterrupted
  /\ Len(delivered) <= MaxBytes
  /\ k > 0
  /\ rpc' = "first"
  /\ rleft' = k
  /\ UNCHANGED <<m_Head, got, delivered, writeVars>>

\* CopyMemory of n bytes from offset a
CopiedFrom(a, n) == [i \in 1..n |-> buf[a + i - 1]]

ReadFirst ==
  /\ rpc = "first"
  /\ IF m_Head + rleft > Size
     THEN /\ got' = CopiedFrom(m_Head, Size - m_Head)
          /\ rleft' = rleft - (Size - m_Head)
          /\ rpc' = "second"
     ELSE /\ got' = CopiedFrom(m_Head, rleft)
          /\ rpc' = "advance"
          /\ UNCHANGED rleft
  /\ UNCHANGED <<m_Head, delivered, writeVars>>

ReadSecond ==
  /\ rpc = "second"
  /\ got' = got \o CopiedFrom(0, rleft)
  /\ rpc' = "rewind"
  /\ UNCHANGED <<m_Head, rleft, delivered, writeVars>>

\* The bytes copied are off the buffer once m_Head is stored.
Deliver ==
  /\ delivered' = delivered \o got
  /\ got' = <<>>
  /\ rleft' = 0

\* m_Head = m_Base + DataSize
ReadRewind ==
  /\ rpc = "rewind"
  /\ m_Head' = rleft
  /\ Deliver
  /\ rpc' = "idle"
  /\ UNCHANGED writeVars

\* m_Head += DataSize, and a store of its own when that is m_End
ReadAdvance ==
  /\ rpc = "advance"
  /\ m_Head' = m_Head + rleft
  /\ Deliver
  /\ rpc' = IF m_Head' = Size THEN "wrap" ELSE "idle"
  /\ UNCHANGED writeVars

ReadWrap ==
  /\ rpc = "wrap"
  /\ m_Head' = 0
  /\ rpc' = "idle"
  /\ UNCHANGED <<rleft, got, delivered, writeVars>>

-----------------------------------------------------------------------------
Write ==
  \/ \E n \in WriteSizes : WriteBegin(n)
  \/ WriteFirst \/ WriteSecond \/ WriteRewind \/ WriteAdvance \/ WriteWrap

Read ==
  \/ \E n \in ReadSizes : ReadBegin(n)
  \/ ReadFirst \/ ReadSecond \/ ReadRewind \/ ReadAdvance \/ ReadWrap

RingNext == Write \/ Read

RingSpec == RingInit /\ [][RingNext]_vars

-----------------------------------------------------------------------------
(* The inductive invariant, in named parts                                 *)

Unread == stored - Len(delivered)

\* The slot of an offset that may lie beyond the end
Wrapped(x) == IF x < Size THEN x ELSE x - Size

\* The pointers are in range but for the moment between two stores, and tell the
\* number of unread bytes.
PointerPart ==
  /\ m_Tail = Size <=> wpc = "wrap"
  /\ m_Head = Size <=> rpc = "wrap"
  /\ Unread = IF Wrapped(m_Tail) >= m_Head THEN Wrapped(m_Tail) - m_Head
              ELSE Wrapped(m_Tail) - m_Head + Size
  /\ Unread < Size

\* The unread bytes are in the buffer, in order.
ContentPart ==
  \A j \in Slots :
    j < Unread => buf[Wrapped(m_Head + j)] = Len(delivered) + j + 1

\* What Write has to do fits in the free part, and what it has copied is there.
WriterPart ==
  /\ wpc \notin {"idle", "wrap"} => wleft > 0
  /\ wpc \in {"first", "advance"} => wleft + Unread < Size
  /\ wpc \in {"second", "rewind"} => (Size - m_Tail) + wleft + Unread < Size
  /\ wpc = "advance" =>
       /\ m_Tail + wleft <= Size
       /\ \A s \in Slots : m_Tail <= s /\ s < m_Tail + wleft
                           => buf[s] = stored + 1 + (s - m_Tail)
  /\ wpc \in {"second", "rewind"} =>
       \A s \in Slots : m_Tail <= s => buf[s] = stored + 1 + (s - m_Tail)
  /\ wpc = "rewind" =>
       \A s \in Slots : s < wleft => buf[s] = stored + (Size - m_Tail) + 1 + s

\* What Read has to do is unread, and what it has copied is the oldest of it.
ReaderPart ==
  /\ rpc \in {"first", "second", "rewind", "advance"} => rleft > 0
  /\ rpc = "first" => rleft <= Unread
  /\ rpc = "second" => Len(got) = Size - m_Head /\ Len(got) + rleft <= Unread
  /\ rpc = "rewind" =>
       Len(got) = (Size - m_Head) + rleft /\ Len(got) <= Unread
  /\ rpc = "advance" =>
       /\ Len(got) = rleft /\ rleft <= Unread
       /\ m_Head + rleft <= Size
  /\ rpc \in {"second", "rewind", "advance"} =>
       \A i \in 1..Len(got) : got[i] = Len(delivered) + i

\* What has been delivered is the accepted bytes in order.
DeliveredPart == \A i \in 1..Len(delivered) : delivered[i] = i

RingInv ==
  /\ RingTypeOK
  /\ PointerPart
  /\ ContentPart
  /\ WriterPart
  /\ ReaderPart
  /\ DeliveredPart

-----------------------------------------------------------------------------
(* Properties                                                              *)

\* Read hands out every accepted byte once, in order, and nothing else.
ReadsInOrder ==
  /\ Len(delivered) <= stored
  /\ \A i \in 1..Len(delivered) : delivered[i] = i

\* The assertions of the code: Write and Read return with m_Tail and m_Head inside
\* the buffer.
AssertsHold ==
  /\ wpc = "idle" => m_Tail < Size
  /\ rpc = "idle" => m_Head < Size

\* GetAvailableSpace as Write uses it and GetAvailableData as Read uses it count
\* exactly, whatever the other thread is doing: a write is cut only when the
\* buffer is full, and a read takes no byte that is not there.  The one exception
\* is AtWrap.
CountsExact ==
  /\ wpc = "idle" => AvailableSpace(m_Head, m_Tail) = Size - 1 - Unread
  /\ rpc = "idle" /\ ~AtWrap => AvailableData(m_Head, m_Tail) = Unread

\* The slots that a copy is about to touch
Touched(pc, a, n) ==
  CASE pc = "first"  -> {s \in Slots : a <= s /\ s < a + n}
    [] pc = "second" -> {s \in Slots : s < n}
    [] pc \notin {"first", "second"} -> {}

\* The two threads never copy to and from the same byte at the same time.
CopiesDisjoint ==
  Touched(wpc, m_Tail, wleft) \cap Touched(rpc, m_Head, rleft) = {}

Fifo == INSTANCE LossyFifo
  WITH Capacity <- Size - 1, put <- stored, out <- delivered

\* The ring buffer is a first-in first-out queue of Size - 1 bytes.
IsLossyFifo == Fifo!FifoSpec
=============================================================================
