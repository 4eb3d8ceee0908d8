--------------------------- MODULE CRingBufferProofs ---------------------------
(***************************************************************************)
(* CRingBuffer is a correct queue for one writer and one reader, for every *)
(* size of the buffer and every length of the data, when no Read begins at *)
(* m_Base between the two stores to m_Tail.                                *)
(***************************************************************************)
EXTENDS CRingBuffer, SequenceTheorems, TLAPS

\* The empty ring buffer satisfies the invariant.
LEMMA RingInitInv == RingInit => RingInv
<1> SUFFICES ASSUME RingInit PROVE RingInv
  OBVIOUS
<1> USE RingBufferAssumption DEF RingInit
<1>1. RingTypeOK
  BY EmptySeq DEF RingTypeOK, Slots, Pcs
<1>2. PointerPart /\ ContentPart
  <2>1. Len(delivered) = 0 /\ stored = 0
    BY EmptySeq
  <2>2. Wrapped(m_Tail) = 0
    BY DEF Wrapped
  <2> QED
    BY <2>1, <2>2 DEF PointerPart, ContentPart, Unread, Slots
<1>3. WriterPart /\ ReaderPart /\ DeliveredPart
  BY DEF WriterPart, ReaderPart, DeliveredPart
<1> QED
  BY <1>1, <1>2, <1>3 DEF RingInv

\* How far offset t is ahead of offset h
Distance(h, t) == IF t >= h THEN t - h ELSE t - h + Size

\* The numbers that the invariant is about
LEMMA Numbers ==
  ASSUME RingInv
  PROVE  /\ m_Tail \in 0..Size /\ m_Head \in 0..Size
         /\ Wrapped(m_Tail) \in Nat /\ Wrapped(m_Tail) < Size
         /\ stored \in Nat /\ delivered \in Seq(Nat) /\ Len(delivered) \in Nat
         /\ Unread \in Nat /\ Unread < Size /\ Unread = stored - Len(delivered)
         /\ Unread = Distance(m_Head, Wrapped(m_Tail))
<1>1. /\ m_Tail \in 0..Size /\ m_Head \in 0..Size
      /\ stored \in Nat /\ delivered \in Seq(Nat) /\ Len(delivered) \in Nat
  BY DEF RingInv, RingTypeOK
<1>2. Wrapped(m_Tail) \in Nat /\ Wrapped(m_Tail) < Size
  BY <1>1, RingBufferAssumption DEF Wrapped
<1>3. Unread = Distance(m_Head, Wrapped(m_Tail)) /\ Unread < Size
  BY DEF RingInv, PointerPart, Distance
<1>4. Unread \in Nat
  BY <1>1, <1>2, <1>3, RingBufferAssumption DEF Distance
<1> QED
  BY <1>1, <1>2, <1>3, <1>4 DEF Unread

\* Outside its own moment between two stores the writer has its tail in range.
LEMMA TailInside ==
  ASSUME RingInv, wpc # "wrap"
  PROVE  /\ m_Tail \in Nat /\ m_Tail < Size
         /\ Unread = IF m_Tail >= m_Head THEN m_Tail - m_Head
                     ELSE m_Tail - m_Head + Size
<1>1. m_Tail # Size
  BY DEF RingInv, PointerPart
<1> QED
  BY <1>1, Numbers, RingBufferAssumption DEF Distance, Wrapped

\* GetAvailableSpace counts the free bytes, except at the wrap.
LEMMA SpaceCount ==
  ASSUME RingInv, ~AtWrap
  PROVE  AvailableSpace(m_Head, m_Tail) = Size - 1 - Unread
<1> DEFINE h == m_Head
           t == m_Tail
           next == IF t + 1 = Size THEN 0 ELSE t + 1
<1>1. h \in 0..Size /\ t \in 0..Size /\ Size \in Nat \ {0} /\ Unread < Size
  BY Numbers, RingBufferAssumption
<1>2. Unread = IF t < Size
               THEN IF t >= h THEN t - h ELSE t - h + Size
               ELSE IF 0 >= h THEN 0 - h ELSE t - Size - h + Size
  BY <1>1, Numbers DEF Distance, Wrapped
<1>3. ~(t = Size /\ h = 0)
  BY DEF AtWrap
<1>4. AvailableSpace(h, t) = CASE next = h              -> 0
                               [] next # h /\ t = h     -> Size - 1
                               [] next # h /\ t > h     -> Size - (t - h) - 1
                               [] next # h /\ t < h     -> (h - t) - 1
  BY DEF AvailableSpace
<1> HIDE DEF h, t
<1>5. CASE next = h
  BY <1>1, <1>2, <1>3, <1>4, <1>5 DEF h, t
<1>6. CASE next # h /\ t = h
  <2>1. AvailableSpace(h, t) = Size - 1
    BY <1>1, <1>4, <1>6
  <2>2. Unread = 0
    BY <1>1, <1>2, <1>3, <1>6
  <2> QED BY <1>1, <2>1, <2>2 DEF h, t
<1>7. CASE next # h /\ t > h
  <2>1. AvailableSpace(h, t) = Size - (t - h) - 1
    BY <1>1, <1>4, <1>7
  <2>2. Unread = t - h
    BY <1>1, <1>2, <1>3, <1>7
  <2> QED BY <1>1, <2>1, <2>2 DEF h, t
<1>8. CASE next # h /\ t < h
  <2>1. AvailableSpace(h, t) = (h - t) - 1
    BY <1>1, <1>4, <1>8
  <2>2. Unread = t - h + Size
    BY <1>1, <1>2, <1>3, <1>8
  <2> QED BY <1>1, <2>1, <2>2 DEF h, t
<1> QED
  BY <1>1, <1>5, <1>6, <1>7, <1>8

\* A step of the writer that leaves the pointers alone: the reader's side of the
\* invariant is untouched.
LEMMA ReaderUntouched ==
  ASSUME RingInv, wpc = "wrap" <=> wpc' = "wrap",
         UNCHANGED <<m_Tail, stored, readVars>>
  PROVE  PointerPart' /\ ReaderPart' /\ DeliveredPart'
BY DEF RingInv, PointerPart, ReaderPart, DeliveredPart, Unread, Wrapped, readVars

LEMMA WriteBeginInv ==
  ASSUME RingInv, NEW n \in WriteSizes, WriteBegin(n) PROVE RingInv'
<1> USE RingBufferAssumption DEF WriteBegin
<1>1. wleft' > 0 /\ wleft' <= Size - 1 - Unread /\ wleft' \in Nat
  BY SpaceCount, Numbers DEF Lesser, AtWrap
<1>2. RingTypeOK'
  BY <1>1 DEF RingInv, RingTypeOK, readVars, Pcs
<1>3. PointerPart' /\ ReaderPart' /\ DeliveredPart'
  BY ReaderUntouched
<1>4. ContentPart'
  BY DEF RingInv, ContentPart, Unread, readVars
<1>5. WriterPart'
  BY <1>1 DEF RingInv, RingTypeOK, WriterPart, Unread, readVars
<1> QED
  BY <1>2, <1>3, <1>4, <1>5 DEF RingInv

\* What a copy puts into the buffer, and what it leaves alone
LEMMA CopyInto ==
  ASSUME RingInv, NEW a \in Nat, NEW n \in Nat, NEW b \in Nat,
         buf' = CopiedTo(a, n, b)
  PROVE  /\ buf' \in [Slots -> Nat]
         /\ \A s \in Slots : a <= s /\ s < a + n => buf'[s] = b + (s - a)
         /\ \A s \in Slots : ~(a <= s /\ s < a + n) => buf'[s] = buf[s]
BY DEF RingInv, RingTypeOK, CopiedTo, Slots

\* A copy into free slots leaves the unread bytes as they were.
LEMMA ContentKept ==
  ASSUME RingInv, UNCHANGED <<m_Tail, stored, readVars>>,
         \A s \in Slots :
           (\E j \in Slots : j < Unread /\ s = Wrapped(m_Head + j))
             => buf'[s] = buf[s]
  PROVE  ContentPart'
<1> SUFFICES ASSUME NEW j \in Slots, j < Unread
             PROVE  buf'[Wrapped(m_Head + j)] = Len(delivered) + j + 1
  BY DEF ContentPart, Unread, Wrapped, readVars
<1>1. Wrapped(m_Head + j) \in Slots
  BY RingBufferAssumption
  DEF RingInv, RingTypeOK, PointerPart, Wrapped, Slots
<1> QED
  BY <1>1 DEF RingInv, ContentPart

LEMMA WriteFirstInv == ASSUME RingInv, WriteFirst PROVE RingInv'
<1> USE RingBufferAssumption DEF WriteFirst
<1>0. /\ m_Tail \in Nat /\ m_Tail < Size
      /\ wleft \in Nat /\ wleft > 0 /\ wleft + Unread < Size
      /\ stored \in Nat /\ Unread \in Nat /\ Unread < Size
      /\ m_Head \in 0..Size
      /\ Unread = IF m_Tail >= m_Head THEN m_Tail - m_Head
                  ELSE m_Tail - m_Head + Size
  BY Numbers, TailInside DEF RingInv, RingTypeOK, WriterPart
<1>1. PointerPart' /\ ReaderPart' /\ DeliveredPart'
  BY ReaderUntouched
<1>2. CASE m_Tail + wleft > Size
  <2> DEFINE n == Size - m_Tail
  <2>1. n \in Nat /\ n > 0 /\ wleft - n \in Nat /\ wleft - n > 0
    BY <1>0, <1>2
  <2>2. buf' = CopiedTo(m_Tail, n, stored + 1)
    BY <1>2
  <2>3. /\ buf' \in [Slots -> Nat]
        /\ \A s \in Slots : m_Tail <= s => buf'[s] = stored + 1 + (s - m_Tail)
        /\ \A s \in Slots : s < m_Tail => buf'[s] = buf[s]
    BY <1>0, <2>1, <2>2, CopyInto DEF Slots
  <2>4. RingTypeOK'
    BY <1>2, <2>1, <2>3 DEF RingInv, RingTypeOK, readVars, Pcs
  <2>5. ASSUME NEW j \in Slots, j < Unread
        PROVE  Wrapped(m_Head + j) < m_Tail
    BY <1>0, <1>2, <2>5 DEF Wrapped, Slots
  <2>6. ContentPart'
    BY <2>3, <2>5, ContentKept
  <2>7. WriterPart'
    BY <1>0, <1>2, <2>1, <2>3 DEF WriterPart, Unread, readVars
  <2> QED
    BY <1>1, <2>4, <2>6, <2>7 DEF RingInv
<1>3. CASE ~(m_Tail + wleft > Size)
  <2>2. buf' = CopiedTo(m_Tail, wleft, stored + 1)
    BY <1>3
  <2>3. /\ buf' \in [Slots -> Nat]
        /\ \A s \in Slots : m_Tail <= s /\ s < m_Tail + wleft
                            => buf'[s] = stored + 1 + (s - m_Tail)
        /\ \A s \in Slots : ~(m_Tail <= s /\ s < m_Tail + wleft)
                            => buf'[s] = buf[s]
    BY <1>0, <2>2, CopyInto
  <2>4. RingTypeOK'
    BY <1>3, <2>3 DEF RingInv, RingTypeOK, readVars, Pcs
  <2>5. ASSUME NEW j \in Slots, j < Unread
        PROVE  ~(m_Tail <= Wrapped(m_Head + j) /\ Wrapped(m_Head + j) < m_Tail + wleft)
    BY <1>0, <1>3, <2>5 DEF Wrapped, Slots
  <2>6. ContentPart'
    BY <2>3, <2>5, ContentKept
  <2>7. WriterPart'
    BY <1>0, <1>3, <2>3 DEF WriterPart, Unread, readVars
  <2> QED
    BY <1>1, <2>4, <2>6, <2>7 DEF RingInv
<1> QED
  BY <1>2, <1>3

LEMMA WriteSecondInv == ASSUME RingInv, WriteSecond PROVE RingInv'
<1> USE RingBufferAssumption DEF WriteSecond
<1>0. /\ m_Tail \in Nat /\ m_Tail < Size
      /\ wleft \in Nat /\ wleft > 0 /\ (Size - m_Tail) + wleft + Unread < Size
      /\ stored \in Nat /\ Unread \in Nat /\ Unread < Size
      /\ m_Head \in 0..Size
      /\ Unread = IF m_Tail >= m_Head THEN m_Tail - m_Head
                  ELSE m_Tail - m_Head + Size
  BY Numbers, TailInside DEF RingInv, RingTypeOK, WriterPart
<1>1. PointerPart' /\ ReaderPart' /\ DeliveredPart'
  BY ReaderUntouched
<1>3. /\ buf' \in [Slots -> Nat]
      /\ \A s \in Slots : s < wleft => buf'[s] = stored + (Size - m_Tail) + 1 + s
      /\ \A s \in Slots : ~(s < wleft) => buf'[s] = buf[s]
  <2>1. stored + (Size - m_Tail) + 1 \in Nat
    BY <1>0
  <2> QED
    BY <1>0, <2>1, CopyInto DEF Slots
<1>4. RingTypeOK'
  BY <1>3 DEF RingInv, RingTypeOK, readVars, Pcs
<1>5. ASSUME NEW j \in Slots, j < Unread
      PROVE  ~(Wrapped(m_Head + j) < wleft)
  BY <1>0, <1>5 DEF Wrapped, Slots
<1>6. ContentPart'
  BY <1>3, <1>5, ContentKept
<1>7. WriterPart'
  <2>1. \A s \in Slots : m_Tail <= s => buf[s] = stored + 1 + (s - m_Tail)
    BY DEF RingInv, WriterPart
  <2>2. \A s \in Slots : m_Tail <= s => ~(s < wleft)
    BY <1>0 DEF Slots
  <2> QED
    BY <1>0, <1>3, <2>1, <2>2 DEF WriterPart, Unread, readVars
<1> QED
  BY <1>1, <1>4, <1>6, <1>7 DEF RingInv

LEMMA WriteRewindInv == ASSUME RingInv, WriteRewind PROVE RingInv'
<1> USE RingBufferAssumption DEF WriteRewind
<1>0. /\ m_Tail \in Nat /\ m_Tail < Size
      /\ wleft \in Nat /\ wleft > 0 /\ (Size - m_Tail) + wleft + Unread < Size
      /\ stored \in Nat /\ Unread \in Nat /\ Len(delivered) \in Nat
      /\ m_Head \in 0..Size
      /\ Unread = stored - Len(delivered)
      /\ Unread = IF m_Tail >= m_Head THEN m_Tail - m_Head
                  ELSE m_Tail - m_Head + Size
  BY Numbers, TailInside DEF RingInv, RingTypeOK, WriterPart
<1>1. m_Tail >= m_Head /\ Unread = m_Tail - m_Head /\ wleft < m_Head
  BY <1>0
<1>2. Unread' = Unread + (Size - m_Tail) + wleft
  BY <1>0 DEF Unread, readVars
<1>3. RingTypeOK'
  BY <1>0 DEF RingInv, RingTypeOK, readVars, Pcs
<1>4. PointerPart'
  <2>1. m_Head = Size <=> rpc = "wrap"
    BY DEF RingInv, PointerPart
  <2> QED
    BY <1>0, <1>1, <1>2, <2>1 DEF PointerPart, Wrapped, readVars
<1>5. ContentPart'
  <2> SUFFICES ASSUME NEW j \in Slots, j < Unread'
               PROVE  buf[Wrapped(m_Head + j)] = Len(delivered) + j + 1
    BY DEF ContentPart, Wrapped, readVars
  <2>1. CASE j < Unread
    BY <2>1 DEF RingInv, ContentPart
  <2>2. CASE ~(j < Unread) /\ m_Head + j < Size
    <3>1. PICK s \in Slots : s = m_Head + j /\ m_Tail <= s
      BY <1>0, <1>1, <2>2 DEF Slots
    <3>2. buf[s] = stored + 1 + (s - m_Tail)
      BY <3>1 DEF RingInv, WriterPart
    <3> QED
      BY <1>0, <1>1, <2>2, <3>1, <3>2 DEF Wrapped, Slots
  <2>3. CASE ~(m_Head + j < Size)
    <3>1. PICK s \in Slots : s = m_Head + j - Size /\ s < wleft
      BY <1>0, <1>1, <1>2, <2>3 DEF Slots
    <3>2. buf[s] = stored + (Size - m_Tail) + 1 + s
      BY <3>1 DEF RingInv, WriterPart
    <3> QED
      BY <1>0, <1>1, <2>3, <3>1, <3>2 DEF Wrapped, Slots
  <2> QED
    BY <2>1, <2>2, <2>3
<1>6. WriterPart'
  BY DEF WriterPart
<1>7. ReaderPart' /\ DeliveredPart'
  BY <1>0, <1>2 DEF RingInv, RingTypeOK, ReaderPart, DeliveredPart, readVars
<1> QED
  BY <1>3, <1>4, <1>5, <1>6, <1>7 DEF RingInv

LEMMA WriteAdvanceInv ==
  ASSUME RingInv, WriteAdvance PROVE RingInv'
<1> USE RingBufferAssumption DEF WriteAdvance
<1>0. /\ m_Tail \in Nat /\ m_Tail < Size
      /\ wleft \in Nat /\ wleft > 0 /\ wleft + Unread < Size
      /\ m_Tail + wleft <= Size
      /\ stored \in Nat /\ Unread \in Nat /\ Len(delivered) \in Nat
      /\ m_Head \in 0..Size
      /\ Unread = stored - Len(delivered)
      /\ Unread = IF m_Tail >= m_Head THEN m_Tail - m_Head
                  ELSE m_Tail - m_Head + Size
  BY Numbers, TailInside DEF RingInv, RingTypeOK, WriterPart
<1>1. /\ Wrapped(m_Tail') = IF m_Tail + wleft = Size THEN 0 ELSE m_Tail + wleft
      /\ m_Tail' \in 0..Size
      /\ m_Tail' = Size <=> wpc' = "wrap"
      /\ wpc' \in {"idle", "wrap"} /\ wleft' = 0
  BY <1>0 DEF Wrapped
<1>2. Unread' = Unread + wleft
  BY <1>0 DEF Unread, readVars
<1>3. RingTypeOK'
  BY <1>0, <1>1 DEF RingInv, RingTypeOK, readVars, Pcs
<1>4. PointerPart'
  <2>1. m_Head = Size <=> rpc = "wrap"
    BY DEF RingInv, PointerPart
  <2>2. Wrapped(m_Tail)' = Wrapped(m_Tail')
    BY DEF Wrapped
  <2> QED
    BY <1>0, <1>1, <1>2, <2>1, <2>2 DEF PointerPart, readVars
<1>5. ContentPart'
  <2> SUFFICES ASSUME NEW j \in Slots, j < Unread'
               PROVE  buf[Wrapped(m_Head + j)] = Len(delivered) + j + 1
    BY DEF ContentPart, Wrapped, readVars
  <2>1. CASE j < Unread
    BY <2>1 DEF RingInv, ContentPart
  <2>2. CASE ~(j < Unread)
    <3> DEFINE x == Wrapped(m_Head + j)
    <3>1. /\ x \in Slots /\ m_Tail <= x /\ x < m_Tail + wleft
          /\ x - m_Tail = j - Unread
      BY <1>0, <1>2, <2>2 DEF Wrapped, Slots
    <3>2. buf[x] = stored + 1 + (x - m_Tail)
      BY <3>1 DEF RingInv, WriterPart
    <3> QED
      BY <1>0, <3>1, <3>2 DEF Slots
  <2> QED
    BY <2>1, <2>2
<1>6. WriterPart'
  BY <1>1 DEF WriterPart
<1>7. ReaderPart' /\ DeliveredPart'
  BY <1>0, <1>2 DEF RingInv, RingTypeOK, ReaderPart, DeliveredPart, readVars
<1> QED
  BY <1>3, <1>4, <1>5, <1>6, <1>7 DEF RingInv

LEMMA WriteWrapInv == ASSUME RingInv, WriteWrap PROVE RingInv'
<1> USE RingBufferAssumption DEF WriteWrap
<1>1. m_Tail = Size /\ m_Tail' = 0 /\ wpc' = "idle" /\ Unread' = Unread
  BY DEF RingInv, PointerPart, Unread, readVars
<1>2. RingTypeOK'
  BY DEF RingInv, RingTypeOK, readVars, Pcs
<1>3. PointerPart'
  BY <1>1 DEF RingInv, PointerPart, Wrapped, readVars
<1>4. ContentPart'
  BY <1>1 DEF RingInv, ContentPart, Wrapped, readVars
<1>5. WriterPart' /\ ReaderPart' /\ DeliveredPart'
  BY <1>1 DEF RingInv, WriterPart, ReaderPart, DeliveredPart, readVars
<1> QED
  BY <1>2, <1>3, <1>4, <1>5 DEF RingInv

\* A step of the reader that leaves m_Head and what it has delivered alone: the
\* writer's side of the invariant is untouched.
LEMMA WriterUntouched ==
  ASSUME RingInv, UNCHANGED <<m_Head, delivered, writeVars>>
  PROVE  ContentPart' /\ WriterPart' /\ DeliveredPart'
BY DEF RingInv, ContentPart, WriterPart, DeliveredPart, Unread, writeVars

LEMMA ReadBeginInv ==
  ASSUME RingInv, ~WrapInterrupted, NEW n \in ReadSizes, ReadBegin(n) PROVE RingInv'
<1> USE RingBufferAssumption DEF ReadBegin
<1>1. rleft' > 0 /\ rleft' <= Unread /\ rleft' \in Nat
  BY SpaceCount, Numbers DEF Lesser, AvailableData
<1>2. RingTypeOK'
  BY <1>1 DEF RingInv, RingTypeOK, writeVars, Pcs
<1>3. ContentPart' /\ WriterPart' /\ DeliveredPart'
  BY WriterUntouched
<1>4. PointerPart'
  BY DEF RingInv, PointerPart, Unread, Wrapped, writeVars
<1>5. ReaderPart'
  BY <1>1 DEF ReaderPart, Unread, writeVars
<1> QED
  BY <1>2, <1>3, <1>4, <1>5 DEF RingInv

\* What a copy out of the buffer holds
LEMMA CopyOut ==
  ASSUME RingInv, NEW a \in Nat, NEW n \in Nat, a + n <= Size
  PROVE  /\ CopiedFrom(a, n) \in Seq(Nat)
         /\ Len(CopiedFrom(a, n)) = n
         /\ \A i \in 1..n : CopiedFrom(a, n)[i] = buf[a + i - 1]
<1>1. \A i \in 1..n : buf[a + i - 1] \in Nat
  BY RingBufferAssumption DEF RingInv, RingTypeOK, Slots
<1>2. CopiedFrom(a, n) \in Seq(Nat)
  BY <1>1, IsASeq DEF CopiedFrom
<1> QED
  BY <1>2 DEF CopiedFrom

LEMMA ReadFirstInv == ASSUME RingInv, ReadFirst PROVE RingInv'
<1> USE RingBufferAssumption DEF ReadFirst
<1>0. /\ m_Head \in Nat /\ m_Head < Size
      /\ rleft \in Nat /\ rleft > 0 /\ rleft <= Unread
      /\ Unread \in Nat /\ Unread < Size /\ Len(delivered) \in Nat
  BY Numbers DEF RingInv, RingTypeOK, PointerPart, ReaderPart
<1> DEFINE n == IF m_Head + rleft > Size THEN Size - m_Head ELSE rleft
<1>1. n \in Nat /\ n > 0 /\ m_Head + n <= Size /\ n <= rleft
  BY <1>0
<1>2. got' = CopiedFrom(m_Head, n)
  OBVIOUS
<1>3. got' \in Seq(Nat) /\ Len(got') = n
  BY <1>0, <1>1, <1>2, CopyOut
<1>4. \A i \in 1..n : got'[i] = Len(delivered) + i
  <2> SUFFICES ASSUME NEW i \in 1..n PROVE got'[i] = Len(delivered) + i
    OBVIOUS
  <2>1. got'[i] = buf[m_Head + i - 1]
    BY <1>0, <1>1, <1>2, CopyOut
  <2>2. /\ i - 1 \in Slots /\ i - 1 < Unread
        /\ Wrapped(m_Head + (i - 1)) = m_Head + i - 1
    BY <1>0, <1>1 DEF Slots, Wrapped
  <2>3. buf[Wrapped(m_Head + (i - 1))] = Len(delivered) + (i - 1) + 1
    BY <2>2 DEF RingInv, ContentPart
  <2> QED
    BY <1>0, <2>1, <2>2, <2>3
<1>5. rleft' \in Nat
  BY <1>0
<1>6. RingTypeOK'
  BY <1>3, <1>5 DEF RingInv, RingTypeOK, writeVars, Pcs
<1>7. ContentPart' /\ WriterPart' /\ DeliveredPart'
  BY WriterUntouched
<1>8. PointerPart'
  BY DEF RingInv, PointerPart, Unread, Wrapped, writeVars
<1>9. ReaderPart'
  <2>1. CASE m_Head + rleft > Size
    BY <1>0, <1>1, <1>3, <1>4, <2>1 DEF ReaderPart, Unread, writeVars
  <2>2. CASE ~(m_Head + rleft > Size)
    BY <1>0, <1>1, <1>3, <1>4, <2>2 DEF ReaderPart, Unread, writeVars
  <2> QED
    BY <2>1, <2>2
<1> QED
  BY <1>6, <1>7, <1>8, <1>9 DEF RingInv

LEMMA ReadSecondInv == ASSUME RingInv, ReadSecond PROVE RingInv'
<1> USE RingBufferAssumption
<1> DEFINE more == CopiedFrom(0, rleft)
<1>s. /\ rpc = "second" /\ rpc' = "rewind"
      /\ got' = got \o more
      /\ UNCHANGED <<m_Head, rleft, delivered, writeVars>>
  BY DEF ReadSecond
<1>0. /\ m_Head \in Nat /\ m_Head < Size
      /\ rleft \in Nat /\ rleft > 0
      /\ got \in Seq(Nat) /\ Len(got) \in Nat
      /\ Len(got) = Size - m_Head /\ Len(got) + rleft <= Unread
      /\ Unread \in Nat /\ Unread < Size /\ Len(delivered) \in Nat
  <2>1. /\ m_Head \in 0..Size /\ m_Head # Size
        /\ rleft \in Nat /\ rleft > 0
        /\ Len(got) = Size - m_Head /\ Len(got) + rleft <= Unread
        /\ Unread < Size
    BY <1>s DEF RingInv, RingTypeOK, PointerPart, ReaderPart
  <2>2. /\ got \in Seq(Nat) /\ Len(got) \in Nat
        /\ Len(delivered) \in Nat /\ Unread \in Int
    BY DEF RingInv, RingTypeOK, Unread
  <2> QED
    BY <2>1, <2>2
<1>1. /\ more \in Seq(Nat) /\ Len(more) = rleft
      /\ \A i \in 1..rleft : more[i] = buf[i - 1]
  <2>1. 0 + rleft <= Size /\ 0 \in Nat
    BY <1>0
  <2>2. /\ more \in Seq(Nat) /\ Len(more) = rleft
        /\ \A i \in 1..rleft : more[i] = buf[0 + i - 1]
    BY <1>0, <2>1, CopyOut
  <2>3. \A i \in 1..rleft : 0 + i - 1 = i - 1
    BY <1>0
  <2> QED
    BY <2>2, <2>3
<1> HIDE DEF more
<1>3. /\ got' \in Seq(Nat)
      /\ Len(got') = Len(got) + rleft
      /\ \A i \in 1..(Len(got) + rleft) :
           got'[i] = IF i <= Len(got) THEN got[i] ELSE more[i - Len(got)]
  BY <1>0, <1>1, <1>s, ConcatProperties
<1>4. \A i \in 1..Len(got') : got'[i] = Len(delivered) + i
  <2> SUFFICES ASSUME NEW i \in 1..(Len(got) + rleft)
               PROVE  got'[i] = Len(delivered) + i
    BY <1>3
  <2>1. CASE i <= Len(got)
    <3>1. \A k \in 1..Len(got) : got[k] = Len(delivered) + k
      BY <1>s DEF RingInv, ReaderPart
    <3> QED
      BY <1>0, <1>3, <2>1, <3>1
  <2>2. CASE ~(i <= Len(got))
    <3> DEFINE j == i - 1
    <3>1. /\ j \in Slots /\ j < Unread
          /\ Wrapped(m_Head + j) = i - Len(got) - 1
      BY <1>0, <2>2 DEF Slots, Wrapped
    <3>2. buf[i - Len(got) - 1] = Len(delivered) + j + 1
      BY <3>1 DEF RingInv, ContentPart
    <3>3. i - Len(got) \in 1..rleft
      BY <1>0, <2>2
    <3>4. got'[i] = buf[i - Len(got) - 1]
      BY <1>1, <1>3, <2>2, <3>3
    <3> QED
      BY <1>0, <3>1, <3>2, <3>4
  <2> QED
    BY <2>1, <2>2
<1>5. RingTypeOK'
  BY <1>s, <1>3 DEF RingInv, RingTypeOK, writeVars, Pcs
<1>6. ContentPart' /\ WriterPart' /\ DeliveredPart'
  BY <1>s, WriterUntouched
<1>7. PointerPart'
  BY <1>s DEF RingInv, PointerPart, Unread, writeVars
<1>8. ReaderPart'
  BY <1>s, <1>0, <1>3, <1>4 DEF ReaderPart, Unread, writeVars
<1> QED
  BY <1>5, <1>6, <1>7, <1>8 DEF RingInv

\* The distance from head to tail once the head has moved n bytes on
LEMMA HeadMoves ==
  ASSUME NEW n \in Nat, RingInv,
         m_Head \in Nat, m_Head < Size, 0 < n, n <= Unread,
         m_Head' = IF m_Head + n <= Size THEN m_Head + n ELSE m_Head + n - Size
  PROVE  Unread - n = Distance(m_Head', Wrapped(m_Tail))
BY Numbers, RingBufferAssumption DEF Distance

\* What storing m_Head does to the invariant: the bytes copied are delivered, and
\* the unread bytes are those that follow.
LEMMA DeliverInv ==
  ASSUME RingInv, Deliver, UNCHANGED writeVars,
         \A i \in 1..Len(got) : got[i] = Len(delivered) + i,
         Len(got) > 0, Len(got) <= Unread,
         m_Head \in Nat, m_Head < Size,
         m_Head' \in 0..Size,
         m_Head' = Size <=> rpc' = "wrap",
         m_Head' = IF m_Head + Len(got) <= Size THEN m_Head + Len(got)
                   ELSE m_Head + Len(got) - Size,
         rpc' \in {"idle", "wrap"}
  PROVE  RingInv'
<1> USE RingBufferAssumption DEF Deliver
<1>0. /\ m_Tail \in 0..Size
      /\ stored \in Nat /\ Unread \in Nat /\ Unread < Size
      /\ Unread = stored - Len(delivered)
      /\ delivered \in Seq(Nat) /\ got \in Seq(Nat)
      /\ Len(delivered) \in Nat /\ Len(got) \in Nat
  BY Numbers DEF RingInv, RingTypeOK
<1>1. /\ delivered' \in Seq(Nat)
      /\ Len(delivered') = Len(delivered) + Len(got)
      /\ \A i \in 1..(Len(delivered) + Len(got)) :
           delivered'[i] = IF i <= Len(delivered) THEN delivered[i]
                           ELSE got[i - Len(delivered)]
  BY <1>0, ConcatProperties
<1>2. Unread' = Unread - Len(got)
  BY <1>0, <1>1 DEF Unread, writeVars
<1>3. RingTypeOK'
  BY <1>1, EmptySeq DEF RingInv, RingTypeOK, writeVars, Pcs
<1>4. PointerPart'
  <2>1. Unread - Len(got) = Distance(m_Head', Wrapped(m_Tail))
    BY <1>0, HeadMoves
  <2>2. m_Tail' = m_Tail /\ wpc' = wpc /\ Wrapped(m_Tail)' = Wrapped(m_Tail)
    BY DEF writeVars, Wrapped
  <2>3. m_Tail = Size <=> wpc = "wrap"
    BY DEF RingInv, PointerPart
  <2> QED
    BY <1>0, <1>2, <2>1, <2>2, <2>3 DEF PointerPart, Distance
<1>5. ContentPart'
  <2> SUFFICES ASSUME NEW j \in Slots, j < Unread'
               PROVE  buf[Wrapped(m_Head' + j)] = Len(delivered') + j + 1
    BY DEF ContentPart, Wrapped, writeVars
  <2> DEFINE k == j + Len(got)
  <2>1. k \in Slots /\ k < Unread
    BY <1>0, <1>2 DEF Slots
  <2>2. Wrapped(m_Head + k) = Wrapped(m_Head' + j)
    BY <1>0, <2>1 DEF Wrapped, Slots
  <2>3. buf[Wrapped(m_Head + k)] = Len(delivered) + k + 1
    BY <2>1 DEF RingInv, ContentPart
  <2> QED
    BY <1>0, <1>1, <2>2, <2>3 DEF Slots
<1>6. WriterPart'
  BY <1>0, <1>2 DEF RingInv, RingTypeOK, WriterPart, writeVars
<1>7. ReaderPart'
  BY DEF ReaderPart
<1>8. DeliveredPart'
  <2> SUFFICES ASSUME NEW i \in 1..(Len(delivered) + Len(got))
               PROVE  delivered'[i] = i
    BY <1>1 DEF DeliveredPart
  <2>1. CASE i <= Len(delivered)
    BY <1>0, <1>1, <2>1 DEF RingInv, DeliveredPart
  <2>2. CASE ~(i <= Len(delivered))
    <3>1. i - Len(delivered) \in 1..Len(got)
      BY <1>0, <2>2
    <3> QED
      BY <1>0, <1>1, <2>2, <3>1
  <2> QED
    BY <2>1, <2>2
<1> QED
  BY <1>3, <1>4, <1>5, <1>6, <1>7, <1>8 DEF RingInv

LEMMA ReadStoreInv ==
  ASSUME RingInv, ReadRewind \/ ReadAdvance PROVE RingInv'
<1> USE RingBufferAssumption
<1>1. CASE ReadRewind
  <2>1. /\ m_Head \in Nat /\ m_Head < Size
        /\ rleft \in Nat /\ rleft > 0
        /\ Len(got) = (Size - m_Head) + rleft /\ Len(got) <= Unread
        /\ Unread < Size
        /\ Unread \in Int
        /\ \A i \in 1..Len(got) : got[i] = Len(delivered) + i
    BY <1>1, Numbers DEF RingInv, RingTypeOK, PointerPart, ReaderPart, ReadRewind
  <2>2. m_Head' = rleft /\ rpc' = "idle" /\ Deliver /\ UNCHANGED writeVars
    BY <1>1 DEF ReadRewind
  <2> QED
    BY <2>1, <2>2, DeliverInv
<1>2. CASE ReadAdvance
  <2>1. /\ m_Head \in Nat /\ m_Head < Size
        /\ rleft \in Nat /\ rleft > 0
        /\ Len(got) = rleft /\ rleft <= Unread
        /\ m_Head + rleft <= Size
        /\ \A i \in 1..Len(got) : got[i] = Len(delivered) + i
    BY <1>2, Numbers DEF RingInv, RingTypeOK, PointerPart, ReaderPart, ReadAdvance
  <2>2. /\ m_Head' = m_Head + rleft
        /\ rpc' = IF m_Head' = Size THEN "wrap" ELSE "idle"
        /\ Deliver /\ UNCHANGED writeVars
    BY <1>2 DEF ReadAdvance
  <2> QED
    BY <2>1, <2>2, DeliverInv
<1> QED
  BY <1>1, <1>2

LEMMA ReadWrapInv == ASSUME RingInv, ReadWrap PROVE RingInv'
<1> USE RingBufferAssumption DEF ReadWrap
<1>1. m_Head = Size /\ m_Head' = 0 /\ Unread' = Unread
  BY DEF RingInv, PointerPart, Unread, writeVars
<1>2. RingTypeOK'
  BY DEF RingInv, RingTypeOK, writeVars, Pcs
<1>3. PointerPart'
  BY <1>1, Numbers DEF RingInv, PointerPart, Wrapped, writeVars
<1>4. ContentPart'
  BY <1>1 DEF RingInv, ContentPart, Wrapped, writeVars, Slots
<1>5. WriterPart' /\ ReaderPart' /\ DeliveredPart'
  BY <1>1 DEF RingInv, WriterPart, ReaderPart, DeliveredPart, writeVars
<1> QED
  BY <1>2, <1>3, <1>4, <1>5 DEF RingInv

\* Every step keeps the invariant.
LEMMA RingStepInv ==
  ASSUME ~WrapInterrupted, RingInv, [RingNext]_vars PROVE RingInv'
<1>1. CASE RingNext
  BY <1>1, WriteBeginInv, WriteFirstInv, WriteSecondInv, WriteRewindInv,
     WriteAdvanceInv, WriteWrapInv, ReadBeginInv, ReadFirstInv, ReadSecondInv,
     ReadStoreInv, ReadWrapInv
  DEF RingNext, Write, Read
<1>2. CASE UNCHANGED vars
  <2>1. PointerPart' /\ ReaderPart' /\ DeliveredPart'
    BY <1>2, ReaderUntouched DEF vars, readVars, writeVars
  <2>2. ContentPart' /\ WriterPart'
    BY <1>2, WriterUntouched DEF vars, readVars, writeVars
  <2>3. RingTypeOK'
    BY <1>2 DEF vars, readVars, writeVars, RingInv, RingTypeOK
  <2> QED
    BY <2>1, <2>2, <2>3 DEF RingInv
<1> QED
  BY <1>1, <1>2

\* The invariant of the ring buffer holds for every size and all lengths.
THEOREM RingInvariant == ASSUME ~WrapInterrupted PROVE RingSpec => []RingInv
<1>1. RingInv /\ [RingNext]_vars => RingInv'
  BY RingStepInv
<1> QED
  BY <1>1, RingInitInv, PTL DEF RingSpec

\* Read hands out every accepted byte once and in order (Write and Read of
\* ringbuffer.cpp, without a lock).
THEOREM ReadsAreInOrder ==
  ASSUME ~WrapInterrupted PROVE RingSpec => []ReadsInOrder
<1>1. ASSUME RingInv PROVE ReadsInOrder
  <2>1. Len(delivered) <= stored
    BY <1>1, Numbers
  <2> QED
    BY <1>1, <2>1 DEF RingInv, DeliveredPart, ReadsInOrder
<1> QED
  BY <1>1, RingInvariant, PTL

\* The counts of GetAvailableSpace and GetAvailableData are exact at any moment
\* (ringbuffer.h).
THEOREM CountsAreExact ==
  ASSUME ~WrapInterrupted PROVE RingSpec => []CountsExact
<1>1. ASSUME RingInv PROVE CountsExact
  <2>1. wpc = "idle" => ~AtWrap
    BY <1>1, RingBufferAssumption DEF RingInv, PointerPart, AtWrap
  <2> QED
    BY <1>1, <2>1, SpaceCount, Numbers, RingBufferAssumption
    DEF CountsExact, AvailableData
<1> QED
  BY <1>1, RingInvariant, PTL

\* No byte is copied in and out at the same time (CopyMemory of Write and Read).
THEOREM CopiesAreDisjoint ==
  ASSUME ~WrapInterrupted PROVE RingSpec => []CopiesDisjoint
<1>1. ASSUME RingInv PROVE CopiesDisjoint
  <2> SUFFICES ASSUME NEW s \in Slots,
                      s \in Touched(wpc, m_Tail, wleft),
                      s \in Touched(rpc, m_Head, rleft)
               PROVE  FALSE
    BY DEF CopiesDisjoint, Touched
  <2>1. /\ m_Tail \in Nat /\ m_Tail < Size /\ m_Head \in 0..Size
        /\ wleft \in Nat /\ rleft \in Nat /\ Unread \in Int /\ s \in Nat
        /\ Unread = IF m_Tail >= m_Head THEN m_Tail - m_Head
                    ELSE m_Tail - m_Head + Size
    <3>1. wpc # "wrap"
      BY DEF Touched
    <3>2. wleft \in Nat /\ rleft \in Nat /\ s \in Nat
      BY <1>1, RingBufferAssumption DEF RingInv, RingTypeOK, Slots
    <3> QED
      BY <1>1, <3>1, <3>2, Numbers, TailInside
  <2>2. /\ wpc = "first" => wleft + Unread < Size
        /\ wpc = "second" => (Size - m_Tail) + wleft + Unread < Size
        /\ rpc = "first" => rleft <= Unread
        /\ rpc = "second" => (Size - m_Head) + rleft <= Unread
    BY <1>1 DEF RingInv, WriterPart, ReaderPart
  <2>3. /\ wpc = "first" => m_Tail <= s /\ s < m_Tail + wleft
        /\ wpc = "second" => s < wleft
        /\ wpc \in {"first", "second"}
        /\ rpc = "first" => m_Head <= s /\ s < m_Head + rleft
        /\ rpc = "second" => s < rleft
        /\ rpc \in {"first", "second"}
    BY DEF Touched
  <2> QED
    BY <2>1, <2>2, <2>3, RingBufferAssumption DEF Slots
<1> QED
  BY <1>1, RingInvariant, PTL

\* Write and Read return with both pointers inside the buffer, as the code asserts
\* (ringbuffer.cpp).
THEOREM AssertionsHold ==
  ASSUME ~WrapInterrupted PROVE RingSpec => []AssertsHold
<1>1. ASSUME RingInv PROVE AssertsHold
  BY <1>1, RingBufferAssumption DEF RingInv, RingTypeOK, PointerPart, AssertsHold
<1> QED
  BY <1>1, RingInvariant, PTL

-----------------------------------------------------------------------------
(* The refinement.  A write puts its bytes into the queue when it stores   *)
(* m_Tail, a read takes its bytes off it when it stores m_Head; every      *)
(* other step stutters.                                                    *)

LEMMA WriteIsPut ==
  ASSUME RingInv, WriteRewind \/ WriteAdvance PROVE Fifo!Put
<1>0. /\ stored \in Nat /\ m_Tail \in Nat /\ wleft \in Nat /\ Size \in Nat
      /\ Unread \in Nat /\ Unread = stored - Len(delivered)
  BY Numbers, RingBufferAssumption DEF RingInv, RingTypeOK
<1>1. UNCHANGED delivered
  BY DEF WriteRewind, WriteAdvance, readVars
<1>2. \E k \in Nat : k > 0 /\ k + Unread < Size /\ stored' = stored + k
  <2>1. CASE WriteRewind
    <3>1. wleft > 0 /\ m_Tail < Size /\ (Size - m_Tail) + wleft + Unread < Size
      BY <2>1, TailInside DEF WriteRewind, RingInv, WriterPart
    <3>2. stored' = stored + ((Size - m_Tail) + wleft)
      BY <1>0, <2>1 DEF WriteRewind
    <3>3. (Size - m_Tail) + wleft \in Nat /\ (Size - m_Tail) + wleft > 0
      BY <1>0, <3>1
    <3> QED
      BY <3>1, <3>2, <3>3
  <2>2. CASE WriteAdvance
    BY <1>0, <2>2 DEF WriteAdvance, RingInv, WriterPart
  <2> QED
    BY <2>1, <2>2
<1>3. \E k \in 1..(Size - 1 - (stored - Len(delivered))) : stored' = stored + k
  BY <1>0, <1>2
<1> QED
  BY <1>1, <1>3 DEF Fifo!Put

LEMMA ReadIsGet ==
  ASSUME RingInv, ReadRewind \/ ReadAdvance PROVE Fifo!Get
<1>1. UNCHANGED stored /\ delivered' = delivered \o got
  BY DEF ReadRewind, ReadAdvance, Deliver, writeVars
<1>2. /\ got \in Seq(Nat) /\ Len(got) > 0 /\ Len(got) <= Unread
      /\ \A i \in 1..Len(got) : got[i] = Len(delivered) + i
  <2>1. /\ m_Head \in Nat /\ m_Head <= Size /\ rleft \in Nat /\ rleft > 0
        /\ got \in Seq(Nat)
        /\ \A i \in 1..Len(got) : got[i] = Len(delivered) + i
        /\ Len(got) <= Unread
    BY Numbers DEF ReadRewind, ReadAdvance, RingInv, RingTypeOK, ReaderPart
  <2>2. Len(got) = rleft \/ Len(got) = (Size - m_Head) + rleft
    BY DEF ReadRewind, ReadAdvance, RingInv, ReaderPart
  <2> QED
    BY <2>1, <2>2, RingBufferAssumption
<1>3. got = [i \in 1..Len(got) |-> Len(delivered) + i]
  BY <1>2
<1>4. Len(got) \in 1..(stored - Len(delivered))
  BY <1>2, Numbers
<1> DEFINE k == Len(got)
<1> HIDE DEF k
<1>5. delivered' = delivered \o [i \in 1..k |-> Len(delivered) + i]
  BY <1>1, <1>3 DEF k
<1> QED
  BY <1>1, <1>4, <1>5 DEF Fifo!Get, k

LEMMA OtherStepsStutter ==
  ASSUME [RingNext]_vars, ~(WriteRewind \/ WriteAdvance), ~(ReadRewind \/ ReadAdvance)
  PROVE  UNCHANGED <<stored, delivered>>
BY DEF RingNext, Write, Read, WriteBegin, WriteFirst, WriteSecond, WriteWrap,
   ReadBegin, ReadFirst, ReadSecond, ReadWrap, vars, writeVars, readVars

\* The ring buffer is a first-in first-out queue of Size - 1 bytes that drops what
\* has no room: CRingBuffer implements LossyFifo (Write and Read of ringbuffer.cpp).
THEOREM RingImplementsFifo ==
  ASSUME ~WrapInterrupted PROVE RingSpec => IsLossyFifo
<1>1. RingInit => Fifo!FifoInit
  BY DEF RingInit, Fifo!FifoInit
<1>2. RingInv /\ [RingNext]_vars => [Fifo!Put \/ Fifo!Get]_<<stored, delivered>>
  BY WriteIsPut, ReadIsGet, OtherStepsStutter
<1> QED
  BY <1>1, <1>2, RingInvariant, PTL DEF RingSpec, IsLossyFifo, Fifo!FifoSpec
=============================================================================
