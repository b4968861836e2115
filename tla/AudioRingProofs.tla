--------------------------- MODULE AudioRingProofs ---------------------------
(***************************************************************************)
(* Proofs about AudioRing, for every capacity, interval, sample size and   *)
(* set of counts.                                                          *)
(*                                                                         *)
(* The pointers and the two byte counters say the same thing (FillIsTrue), *)
(* and at least RWP_SAFE_INTERVAL bytes stay free (Gap): these two decide  *)
(* every comparison of ring_buffer.c.  What the client computed before the *)
(* interrupt moved a pointer stays a safe underestimate (PcInv).           *)
(***************************************************************************)
EXTENDS AudioRing, TLAPS

Gap == Unread = 0 \/ Unread + RWP_SAFE_INTERVAL <= capacity

(* wp rests at the end of the buffer only within rb_write, and then the    *)
(* reader has left the start, so that the write resets it.                 *)
WpEnd ==
    /\ capacity > 0 /\ wp = capacity => pc = "w_end" /\ rp > 0
    /\ capacity = 0 => wp = 0 /\ rp = 0

Side ==
    /\ pc \in WritePc => dev = "dac"
    /\ pc \in ReadPc => dev = "adc"

Fits == Unread + n + RWP_SAFE_INTERVAL <= capacity

Holds(m) == \/ snap >= rp /\ m <= snap - rp
            \/ snap < rp /\ m <= capacity - rp + snap

PcInv ==
    /\ pc = "idle" => ret = moved
    /\ pc = "w_check" => n = 0 \/ Fits
    /\ pc \in {"w_copy", "w_publish"} =>
           /\ n > 0 /\ Fits
           /\ wp >= snap \/ wp + n <= capacity
    /\ pc = "w_publish" =>
           \A i \in Cells : i >= wp /\ i < wp + n => address[i] = accepted + 1 + (i - wp)
    /\ pc = "w_wrap" => wp <= accepted
    /\ pc = "r_load" => n <= Unread
    /\ pc \in {"r_copy", "r_advance"} => n > 0 /\ n <= Unread /\ Holds(n)
                                          /\ snap <= capacity

Ptr == rb_get_fill_size = Unread

IInv == TypeOK /\ Ptr /\ Gap /\ WpEnd /\ Side /\ RingHoldsFifo /\ PcInv
-----------------------------------------------------------------------------
\* The inductive invariant is kept by audio_dac_open and audio_adc_open.
LEMMA OpenStep ==
    ASSUME IInv, Open
    PROVE  IInv'
<1> USE RingAssumption DEF IInv, Open, ring, client, Unread, Cells, Fits
<1>1. TypeOK'
  BY DEF TypeOK, Ptr, PcInv, WritePc, ReadPc, Status, rb_get_fill_size
<1>2. Ptr'
  BY DEF TypeOK, Ptr, Gap, WpEnd, Side, PcInv, WritePc, ReadPc,
         rb_get_fill_size
<1>3. Gap'
  BY DEF TypeOK, Ptr, Gap, WpEnd, Side, PcInv, WritePc, ReadPc,
         rb_get_fill_size
<1>4. WpEnd'
  BY DEF TypeOK, Ptr, Gap, WpEnd, Side, PcInv, WritePc, ReadPc,
         rb_get_fill_size
<1>5. Side'
  BY DEF Side, WritePc, ReadPc
<1>6. RingHoldsFifo'
  BY DEF TypeOK, Ptr, Gap, WpEnd, Side, PcInv, RingHoldsFifo, Uncopied, Cell,
         rb_get_fill_size
<1>7. PcInv'
  BY DEF TypeOK, Ptr, Gap, WpEnd, Side, PcInv, WritePc, ReadPc, Holds,
         rb_get_fill_size
<1> QED BY <1>1, <1>2, <1>3, <1>4, <1>5, <1>6, <1>7

\* The inductive invariant is kept by the close functions.
LEMMA CloseStep ==
    ASSUME IInv, Close
    PROVE  IInv'
<1> USE RingAssumption DEF IInv, Close, ring, client, Unread, Cells, Fits
<1>1. TypeOK'
  BY DEF TypeOK, Ptr, PcInv, WritePc, ReadPc, Status, rb_get_fill_size
<1>2. Ptr'
  BY DEF TypeOK, Ptr, Gap, WpEnd, Side, PcInv, WritePc, ReadPc,
         rb_get_fill_size
<1>3. Gap'
  BY DEF TypeOK, Ptr, Gap, WpEnd, Side, PcInv, WritePc, ReadPc,
         rb_get_fill_size
<1>4. WpEnd'
  BY DEF TypeOK, Ptr, Gap, WpEnd, Side, PcInv, WritePc, ReadPc,
         rb_get_fill_size
<1>5. Side'
  BY DEF Side, WritePc, ReadPc
<1>6. RingHoldsFifo'
  BY DEF TypeOK, Ptr, Gap, WpEnd, Side, PcInv, RingHoldsFifo, Uncopied, Cell,
         rb_get_fill_size
<1>7. PcInv'
  BY DEF TypeOK, Ptr, Gap, WpEnd, Side, PcInv, WritePc, ReadPc, Holds,
         rb_get_fill_size
<1> QED BY <1>1, <1>2, <1>3, <1>4, <1>5, <1>6, <1>7

\* The inductive invariant is kept by the play functions.
LEMMA PlayStep ==
    ASSUME IInv, Play
    PROVE  IInv'
<1> USE RingAssumption DEF IInv, Play, ring, client, Unread, Cells, Fits
<1>1. TypeOK'
  BY DEF TypeOK, Ptr, PcInv, WritePc, ReadPc, Status, rb_get_fill_size
<1>2. Ptr'
  BY DEF TypeOK, Ptr, Gap, WpEnd, Side, PcInv, WritePc, ReadPc,
         rb_get_fill_size
<1>3. Gap'
  BY DEF TypeOK, Ptr, Gap, WpEnd, Side, PcInv, WritePc, ReadPc,
         rb_get_fill_size
<1>4. WpEnd'
  BY DEF TypeOK, Ptr, Gap, WpEnd, Side, PcInv, WritePc, ReadPc,
         rb_get_fill_size
<1>5. Side'
  BY DEF Side, WritePc, ReadPc
<1>6. RingHoldsFifo'
  BY DEF TypeOK, Ptr, Gap, WpEnd, Side, PcInv, RingHoldsFifo, Uncopied, Cell,
         rb_get_fill_size
<1>7. PcInv'
  BY DEF TypeOK, Ptr, Gap, WpEnd, Side, PcInv, WritePc, ReadPc, Holds,
         rb_get_fill_size
<1> QED BY <1>1, <1>2, <1>3, <1>4, <1>5, <1>6, <1>7

\* The inductive invariant is kept by the pause functions.
LEMMA PauseStep ==
    ASSUME IInv, Pause
    PROVE  IInv'
<1> USE RingAssumption DEF IInv, Pause, ring, client, Unread, Cells, Fits
<1>1. TypeOK'
  BY DEF TypeOK, Ptr, PcInv, WritePc, ReadPc, Status, rb_get_fill_size
<1>2. Ptr'
  BY DEF TypeOK, Ptr, Gap, WpEnd, Side, PcInv, WritePc, ReadPc,
         rb_get_fill_size
<1>3. Gap'
  BY DEF TypeOK, Ptr, Gap, WpEnd, Side, PcInv, WritePc, ReadPc,
         rb_get_fill_size
<1>4. WpEnd'
  BY DEF TypeOK, Ptr, Gap, WpEnd, Side, PcInv, WritePc, ReadPc,
         rb_get_fill_size
<1>5. Side'
  BY DEF Side, WritePc, ReadPc
<1>6. RingHoldsFifo'
  BY DEF TypeOK, Ptr, Gap, WpEnd, Side, PcInv, RingHoldsFifo, Uncopied, Cell,
         rb_get_fill_size
<1>7. PcInv'
  BY DEF TypeOK, Ptr, Gap, WpEnd, Side, PcInv, WritePc, ReadPc, Holds,
         rb_get_fill_size
<1> QED BY <1>1, <1>2, <1>3, <1>4, <1>5, <1>6, <1>7

\* The inductive invariant is kept by the call of audio_dac_write.
LEMMA DacWriteStep ==
    ASSUME IInv, NEW count \in Counts, DacWrite(count)
    PROVE  IInv'
<1> USE RingAssumption DEF IInv, DacWrite, ring, client, Unread, Cells, Fits
<1>1. TypeOK'
  BY DEF TypeOK, Ptr, PcInv, WritePc, ReadPc, Status, rb_get_fill_size,
         rb_get_free_size, Least
<1>2. Ptr'
  BY DEF TypeOK, Ptr, Gap, WpEnd, Side, PcInv, WritePc, ReadPc,
         rb_get_fill_size, rb_get_free_size, Least
<1>3. Gap'
  BY DEF TypeOK, Ptr, Gap, WpEnd, Side, PcInv, WritePc, ReadPc,
         rb_get_fill_size, rb_get_free_size, Least
<1>4. WpEnd'
  BY DEF TypeOK, Ptr, Gap, WpEnd, Side, PcInv, WritePc, ReadPc,
         rb_get_fill_size, rb_get_free_size, Least
<1>5. Side'
  BY DEF Side, WritePc, ReadPc
<1>6. RingHoldsFifo'
  BY DEF TypeOK, Ptr, Gap, WpEnd, Side, PcInv, RingHoldsFifo, Uncopied, Cell,
         rb_get_fill_size
<1>7. PcInv'
  BY DEF TypeOK, Ptr, Gap, WpEnd, Side, PcInv, WritePc, ReadPc, Holds,
         rb_get_fill_size, rb_get_free_size, Least
<1> QED BY <1>1, <1>2, <1>3, <1>4, <1>5, <1>6, <1>7

\* The inductive invariant is kept by a refused rb_write.
LEMMA RbWriteRefusedStep ==
    ASSUME IInv, RbWriteRefused
    PROVE  IInv'
<1> USE RingAssumption DEF IInv, RbWriteRefused, ring, client, Unread, Cells, Fits
<1>1. TypeOK'
  BY DEF TypeOK, Ptr, PcInv, WritePc, ReadPc, Status, rb_get_fill_size, Room
<1>2. Ptr'
  BY DEF TypeOK, Ptr, Gap, WpEnd, Side, PcInv, WritePc, ReadPc,
         rb_get_fill_size, Room
<1>3. Gap'
  BY DEF TypeOK, Ptr, Gap, WpEnd, Side, PcInv, WritePc, ReadPc,
         rb_get_fill_size, Room
<1>4. WpEnd'
  BY DEF TypeOK, Ptr, Gap, WpEnd, Side, PcInv, WritePc, ReadPc,
         rb_get_fill_size, Room
<1>5. Side'
  BY DEF Side, WritePc, ReadPc
<1>6. RingHoldsFifo'
  BY DEF TypeOK, Ptr, Gap, WpEnd, Side, PcInv, RingHoldsFifo, Uncopied, Cell,
         rb_get_fill_size
<1>7. PcInv'
  BY DEF TypeOK, Ptr, Gap, WpEnd, Side, PcInv, WritePc, ReadPc, Holds,
         rb_get_fill_size, Room
<1> QED BY <1>1, <1>2, <1>3, <1>4, <1>5, <1>6, <1>7

\* The inductive invariant is kept by the size check of rb_write.
LEMMA RbWriteCheckStep ==
    ASSUME IInv, RbWriteCheck
    PROVE  IInv'
<1> USE RingAssumption DEF IInv, RbWriteCheck, ring, client, Unread, Cells, Fits
<1>1. TypeOK'
  BY DEF TypeOK, Ptr, PcInv, WritePc, ReadPc, Status, rb_get_fill_size, Room
<1>2. Ptr'
  BY DEF TypeOK, Ptr, Gap, WpEnd, Side, PcInv, WritePc, ReadPc,
         rb_get_fill_size, Room
<1>3. Gap'
  BY DEF TypeOK, Ptr, Gap, WpEnd, Side, PcInv, WritePc, ReadPc,
         rb_get_fill_size, Room
<1>4. WpEnd'
  BY DEF TypeOK, Ptr, Gap, WpEnd, Side, PcInv, WritePc, ReadPc,
         rb_get_fill_size, Room
<1>5. Side'
  BY DEF Side, WritePc, ReadPc
<1>6. RingHoldsFifo'
  BY DEF TypeOK, Ptr, Gap, WpEnd, Side, PcInv, RingHoldsFifo, Uncopied, Cell,
         rb_get_fill_size
<1>7. PcInv'
  BY DEF TypeOK, Ptr, Gap, WpEnd, Side, PcInv, WritePc, ReadPc, Holds,
         rb_get_fill_size, Room
<1> QED BY <1>1, <1>2, <1>3, <1>4, <1>5, <1>6, <1>7

\* The inductive invariant is kept by the first memcpy of rb_write.
LEMMA RbWriteCopyStep ==
    ASSUME IInv, RbWriteCopy
    PROVE  IInv'
<1> USE RingAssumption DEF IInv, RbWriteCopy, ring, client, Unread, Cells, Fits
<1>1. TypeOK'
  BY DEF TypeOK, Ptr, PcInv, WritePc, ReadPc, Status, rb_get_fill_size,
         FirstCopy
<1>2. Ptr'
  BY DEF TypeOK, Ptr, Gap, WpEnd, Side, PcInv, WritePc, ReadPc,
         rb_get_fill_size, FirstCopy
<1>3. Gap'
  BY DEF TypeOK, Ptr, Gap, WpEnd, Side, PcInv, WritePc, ReadPc,
         rb_get_fill_size, FirstCopy
<1>4. WpEnd'
  BY DEF TypeOK, Ptr, Gap, WpEnd, Side, PcInv, WritePc, ReadPc,
         rb_get_fill_size, FirstCopy
<1>5. Side'
  BY DEF Side, WritePc, ReadPc
<1>6. RingHoldsFifo'
  BY DEF TypeOK, Ptr, Gap, WpEnd, Side, PcInv, RingHoldsFifo, Uncopied, Cell,
         rb_get_fill_size, FirstCopy
<1>7. PcInv'
  BY DEF TypeOK, Ptr, Gap, WpEnd, Side, PcInv, WritePc, ReadPc, Holds,
         rb_get_fill_size, FirstCopy
<1> QED BY <1>1, <1>2, <1>3, <1>4, <1>5, <1>6, <1>7

\* The inductive invariant is kept by the store of wp in rb_write.
LEMMA RbWritePublishStep ==
    ASSUME IInv, RbWritePublish
    PROVE  IInv'
<1> USE RingAssumption DEF IInv, RbWritePublish, ring, client, Unread, Cells, Fits
<1>1. TypeOK'
  BY DEF TypeOK, Ptr, PcInv, WritePc, ReadPc, Status, rb_get_fill_size, Wraps,
         WpAfter
<1>2. Ptr'
  BY DEF TypeOK, Ptr, Gap, WpEnd, Side, PcInv, WritePc, ReadPc,
         rb_get_fill_size, Wraps, WpAfter
<1>3. Gap'
  BY DEF TypeOK, Ptr, Gap, WpEnd, Side, PcInv, WritePc, ReadPc,
         rb_get_fill_size, Wraps, WpAfter
<1>4. WpEnd'
  BY DEF TypeOK, Ptr, Gap, WpEnd, Side, PcInv, WritePc, ReadPc,
         rb_get_fill_size, Wraps, WpAfter
<1>5. Side'
  BY DEF Side, WritePc, ReadPc
<1>6. RingHoldsFifo'
  BY DEF TypeOK, Ptr, Gap, WpEnd, Side, PcInv, RingHoldsFifo, Uncopied, Cell,
         rb_get_fill_size, Wraps, WpAfter
<1>7. PcInv'
  BY DEF TypeOK, Ptr, Gap, WpEnd, Side, PcInv, WritePc, ReadPc, Holds,
         rb_get_fill_size, Wraps, WpAfter
<1> QED BY <1>1, <1>2, <1>3, <1>4, <1>5, <1>6, <1>7

\* The inductive invariant is kept by the second memcpy of rb_write.
LEMMA RbWriteWrapStep ==
    ASSUME IInv, RbWriteWrap
    PROVE  IInv'
<1> USE RingAssumption DEF IInv, RbWriteWrap, ring, client, Unread, Cells, Fits
<1>1. TypeOK'
  BY DEF TypeOK, Ptr, PcInv, WritePc, ReadPc, Status, rb_get_fill_size
<1>2. Ptr'
  BY DEF TypeOK, Ptr, Gap, WpEnd, Side, PcInv, WritePc, ReadPc,
         rb_get_fill_size
<1>3. Gap'
  BY DEF TypeOK, Ptr, Gap, WpEnd, Side, PcInv, WritePc, ReadPc,
         rb_get_fill_size
<1>4. WpEnd'
  BY DEF TypeOK, Ptr, Gap, WpEnd, Side, PcInv, WritePc, ReadPc,
         rb_get_fill_size
<1>5. Side'
  BY DEF Side, WritePc, ReadPc
<1>6. RingHoldsFifo'
  <2> SUFFICES ASSUME NEW k \in 0 .. Unread - 1
               PROVE  address'[Cell(k)] = delivered + 1 + k
    BY DEF RingHoldsFifo, Cell
  <2>1. /\ Cell(k) \in Cells
        /\ Cell(k) < wp => delivered + 1 + k = accepted - wp + 1 + Cell(k)
    BY DEF TypeOK, Ptr, Gap, rb_get_fill_size, Cell
  <2>2. Cell(k) >= wp => address[Cell(k)] = delivered + 1 + k
    BY <2>1 DEF RingHoldsFifo, Uncopied, TypeOK
  <2> QED BY <2>1, <2>2 DEF TypeOK
<1>7. PcInv'
  BY DEF TypeOK, Ptr, Gap, WpEnd, Side, PcInv, WritePc, ReadPc, Holds,
         rb_get_fill_size
<1> QED BY <1>1, <1>2, <1>3, <1>4, <1>5, <1>6, <1>7

\* The inductive invariant is kept by the end of rb_write.
LEMMA RbWriteEndStep ==
    ASSUME IInv, RbWriteEnd
    PROVE  IInv'
<1> USE RingAssumption DEF IInv, RbWriteEnd, ring, client, Unread, Cells, Fits
<1>1. TypeOK'
  BY DEF TypeOK, Ptr, PcInv, WritePc, ReadPc, Status, rb_get_fill_size,
         WpReset
<1>2. Ptr'
  BY DEF TypeOK, Ptr, Gap, WpEnd, Side, PcInv, WritePc, ReadPc,
         rb_get_fill_size, WpReset
<1>3. Gap'
  BY DEF TypeOK, Ptr, Gap, WpEnd, Side, PcInv, WritePc, ReadPc,
         rb_get_fill_size, WpReset
<1>4. WpEnd'
  BY DEF TypeOK, Ptr, Gap, WpEnd, Side, PcInv, WritePc, ReadPc,
         rb_get_fill_size, WpReset
<1>5. Side'
  BY DEF Side, WritePc, ReadPc
<1>6. RingHoldsFifo'
  BY DEF TypeOK, Ptr, Gap, WpEnd, Side, PcInv, RingHoldsFifo, Uncopied, Cell,
         rb_get_fill_size, WpReset
<1>7. PcInv'
  BY DEF TypeOK, Ptr, Gap, WpEnd, Side, PcInv, WritePc, ReadPc, Holds,
         rb_get_fill_size, WpReset
<1> QED BY <1>1, <1>2, <1>3, <1>4, <1>5, <1>6, <1>7

\* The inductive invariant is kept by the DAC interrupt.
LEMMA DacIsrStep ==
    ASSUME IInv, DacIsr
    PROVE  IInv'
<1> USE RingAssumption DEF IInv, DacIsr, ring, client, Unread, Cells, Fits
<1>1. TypeOK'
  BY DEF TypeOK, Ptr, PcInv, WritePc, ReadPc, Status, rb_get_fill_size,
         ReadBytes, AfterRead, Least
<1>2. Ptr'
  BY DEF TypeOK, Ptr, Gap, WpEnd, Side, PcInv, WritePc, ReadPc,
         rb_get_fill_size, ReadBytes, AfterRead, Least
<1>3. Gap'
  BY DEF TypeOK, Ptr, Gap, WpEnd, Side, PcInv, WritePc, ReadPc,
         rb_get_fill_size, ReadBytes, AfterRead, Least
<1>4. WpEnd'
  BY DEF TypeOK, Ptr, Gap, WpEnd, Side, PcInv, WritePc, ReadPc,
         rb_get_fill_size, ReadBytes, AfterRead, Least
<1>5. Side'
  BY DEF Side, WritePc, ReadPc
<1>6. RingHoldsFifo'
  <2> DEFINE m == ReadBytes(wp, SampleBytes)
  <2>1. /\ m \in Nat /\ m > 0 /\ m <= Unread
        /\ delivered' = delivered + m /\ Unread' = Unread - m
        /\ accepted \in Int /\ delivered \in Int
    BY DEF TypeOK, Ptr, rb_get_fill_size, ReadBytes, Least
  <2>2. ASSUME NEW k \in 0 .. Unread' - 1
        PROVE  Cell(k)' = Cell(k + m)
    BY <2>1 DEF TypeOK, Ptr, rb_get_fill_size, ReadBytes, AfterRead, Least, Cell
  <2> HIDE DEF m
  <2>3. ASSUME NEW k \in 0 .. Unread' - 1, ~Uncopied(Cell(k))'
        PROVE  address'[Cell(k)'] = delivered' + 1 + k
    <3>1. k + m \in 0 .. Unread - 1
      BY <2>1
    <3>2. ~Uncopied(Cell(k + m))
      BY <2>2, <2>3 DEF Uncopied
    <3>3. address[Cell(k + m)] = delivered + 1 + (k + m)
      BY <3>1, <3>2 DEF RingHoldsFifo
    <3> QED BY <2>1, <2>2, <3>3
  <2> QED BY <2>3 DEF RingHoldsFifo
<1>7. PcInv'
  BY DEF TypeOK, Ptr, Gap, WpEnd, Side, PcInv, WritePc, ReadPc, Holds,
         rb_get_fill_size, ReadBytes, AfterRead, Least
<1> QED BY <1>1, <1>2, <1>3, <1>4, <1>5, <1>6, <1>7

\* The inductive invariant is kept by the call of audio_adc_read.
LEMMA AdcReadStep ==
    ASSUME IInv, NEW count \in Counts, AdcRead(count)
    PROVE  IInv'
<1> USE RingAssumption DEF IInv, AdcRead, ring, client, Unread, Cells, Fits
<1>1. TypeOK'
  BY DEF TypeOK, Ptr, PcInv, WritePc, ReadPc, Status, rb_get_fill_size, Least
<1>2. Ptr'
  BY DEF TypeOK, Ptr, Gap, WpEnd, Side, PcInv, WritePc, ReadPc,
         rb_get_fill_size, Least
<1>3. Gap'
  BY DEF TypeOK, Ptr, Gap, WpEnd, Side, PcInv, WritePc, ReadPc,
         rb_get_fill_size, Least
<1>4. WpEnd'
  BY DEF TypeOK, Ptr, Gap, WpEnd, Side, PcInv, WritePc, ReadPc,
         rb_get_fill_size, Least
<1>5. Side'
  BY DEF Side, WritePc, ReadPc
<1>6. RingHoldsFifo'
  BY DEF TypeOK, Ptr, Gap, WpEnd, Side, PcInv, RingHoldsFifo, Uncopied, Cell,
         rb_get_fill_size
<1>7. PcInv'
  BY DEF TypeOK, Ptr, Gap, WpEnd, Side, PcInv, WritePc, ReadPc, Holds,
         rb_get_fill_size, Least
<1> QED BY <1>1, <1>2, <1>3, <1>4, <1>5, <1>6, <1>7

\* The inductive invariant is kept by the size check of rb_read.
LEMMA RbReadLoadStep ==
    ASSUME IInv, RbReadLoad
    PROVE  IInv'
<1> USE RingAssumption DEF IInv, RbReadLoad, ring, client, Unread, Cells, Fits
<1>1. TypeOK'
  BY DEF TypeOK, Ptr, PcInv, WritePc, ReadPc, Status, rb_get_fill_size
<1>2. Ptr'
  BY DEF TypeOK, Ptr, Gap, WpEnd, Side, PcInv, WritePc, ReadPc,
         rb_get_fill_size
<1>3. Gap'
  BY DEF TypeOK, Ptr, Gap, WpEnd, Side, PcInv, WritePc, ReadPc,
         rb_get_fill_size
<1>4. WpEnd'
  BY DEF TypeOK, Ptr, Gap, WpEnd, Side, PcInv, WritePc, ReadPc,
         rb_get_fill_size
<1>5. Side'
  BY DEF Side, WritePc, ReadPc
<1>6. RingHoldsFifo'
  BY DEF TypeOK, Ptr, Gap, WpEnd, Side, PcInv, RingHoldsFifo, Uncopied, Cell,
         rb_get_fill_size
<1>7. PcInv'
  BY DEF TypeOK, Ptr, Gap, WpEnd, Side, PcInv, WritePc, ReadPc, Holds,
         rb_get_fill_size
<1> QED BY <1>1, <1>2, <1>3, <1>4, <1>5, <1>6, <1>7

\* The inductive invariant is kept by the memcpy of rb_read.
LEMMA RbReadCopyStep ==
    ASSUME IInv, RbReadCopy
    PROVE  IInv'
<1> USE RingAssumption DEF IInv, RbReadCopy, ring, client, Unread, Cells, Fits
<1>1. TypeOK'
  BY DEF TypeOK, Ptr, PcInv, WritePc, ReadPc, Status, rb_get_fill_size
<1>2. Ptr'
  BY DEF TypeOK, Ptr, Gap, WpEnd, Side, PcInv, WritePc, ReadPc,
         rb_get_fill_size
<1>3. Gap'
  BY DEF TypeOK, Ptr, Gap, WpEnd, Side, PcInv, WritePc, ReadPc,
         rb_get_fill_size
<1>4. WpEnd'
  BY DEF TypeOK, Ptr, Gap, WpEnd, Side, PcInv, WritePc, ReadPc,
         rb_get_fill_size
<1>5. Side'
  BY DEF Side, WritePc, ReadPc
<1>6. RingHoldsFifo'
  BY DEF TypeOK, Ptr, Gap, WpEnd, Side, PcInv, RingHoldsFifo, Uncopied, Cell,
         rb_get_fill_size
<1>7. PcInv'
  BY DEF TypeOK, Ptr, Gap, WpEnd, Side, PcInv, WritePc, ReadPc, Holds,
         rb_get_fill_size
<1> QED BY <1>1, <1>2, <1>3, <1>4, <1>5, <1>6, <1>7

\* The inductive invariant is kept by the store of rp in rb_read.
LEMMA RbReadAdvanceStep ==
    ASSUME IInv, RbReadAdvance
    PROVE  IInv'
<1> USE RingAssumption DEF IInv, RbReadAdvance, ring, client, Unread, Cells, Fits
<1>0. /\ ReadBytes(snap, n) = n
      /\ n \in Nat /\ n > 0 /\ n <= Unread
      /\ AfterRead(snap, n) \in 0 .. capacity
  BY DEF TypeOK, PcInv, Holds, ReadBytes, AfterRead, Least
<1>1. TypeOK'
  BY <1>0 DEF TypeOK, Ptr, PcInv, WritePc, ReadPc, Status, rb_get_fill_size
<1>2. Ptr'
  BY <1>0 DEF TypeOK, Ptr, Gap, WpEnd, Side, PcInv, WritePc, ReadPc, Holds,
         rb_get_fill_size, ReadBytes, AfterRead, Least
<1>3. Gap'
  BY <1>0 DEF TypeOK, Ptr, Gap, WpEnd, Side, PcInv, WritePc, ReadPc, Holds,
         rb_get_fill_size, ReadBytes, AfterRead, Least
<1>4. WpEnd'
  BY <1>0 DEF TypeOK, Ptr, Gap, WpEnd, Side, PcInv, WritePc, ReadPc, Holds,
         rb_get_fill_size, ReadBytes, AfterRead, Least
<1>5. Side'
  BY DEF Side, WritePc, ReadPc
<1>6. RingHoldsFifo'
  <2> DEFINE m == n
  <2>1. /\ m \in Nat /\ m > 0 /\ m <= Unread
        /\ delivered' = delivered + m /\ Unread' = Unread - m
        /\ accepted \in Int /\ delivered \in Int
    BY <1>0 DEF TypeOK, PcInv
  <2>2. ASSUME NEW k \in 0 .. Unread' - 1
        PROVE  Cell(k)' = Cell(k + m)
    BY <2>1, <1>0 DEF TypeOK, Ptr, PcInv, Holds, rb_get_fill_size, AfterRead, Cell
  <2> HIDE DEF m
  <2>3. ASSUME NEW k \in 0 .. Unread' - 1, ~Uncopied(Cell(k))'
        PROVE  address'[Cell(k)'] = delivered' + 1 + k
    <3>1. k + m \in 0 .. Unread - 1
      BY <2>1
    <3>2. ~Uncopied(Cell(k + m))
      BY <2>2, <2>3 DEF Uncopied
    <3>3. address[Cell(k + m)] = delivered + 1 + (k + m)
      BY <3>1, <3>2 DEF RingHoldsFifo
    <3> QED BY <2>1, <2>2, <3>3
  <2> QED BY <2>3 DEF RingHoldsFifo
<1>7. PcInv'
  BY <1>0 DEF TypeOK, Ptr, Gap, WpEnd, Side, PcInv, WritePc, ReadPc, Holds,
         rb_get_fill_size
<1> QED BY <1>1, <1>2, <1>3, <1>4, <1>5, <1>6, <1>7

\* The inductive invariant is kept by the ADC interrupt.
LEMMA AdcIsrStep ==
    ASSUME IInv, AdcIsr
    PROVE  IInv'
<1> USE RingAssumption DEF IInv, AdcIsr, ring, client, Unread, Cells, Fits
<1>1. TypeOK'
  BY DEF TypeOK, Ptr, PcInv, WritePc, ReadPc, Status, rb_get_fill_size, Room,
         Wraps, WpAfter, WpReset, FirstCopy, BothCopies
<1>2. Ptr'
  BY DEF TypeOK, Ptr, Gap, WpEnd, Side, PcInv, WritePc, ReadPc,
         rb_get_fill_size, Room, Wraps, WpAfter, WpReset, FirstCopy,
         BothCopies
<1>3. Gap'
  BY DEF TypeOK, Ptr, Gap, WpEnd, Side, PcInv, WritePc, ReadPc,
         rb_get_fill_size, Room, Wraps, WpAfter, WpReset, FirstCopy,
         BothCopies
<1>4. WpEnd'
  BY DEF TypeOK, Ptr, Gap, WpEnd, Side, PcInv, WritePc, ReadPc,
         rb_get_fill_size, Room, Wraps, WpAfter, WpReset, FirstCopy,
         BothCopies
<1>5. Side'
  BY DEF Side, WritePc, ReadPc
<1>6. RingHoldsFifo'
  <2> DEFINE m == SampleBytes
  <2>1. /\ Unread + m + RWP_SAFE_INTERVAL <= capacity
        /\ Unread \in Nat /\ Unread' = Unread + m /\ capacity = Capacity
        /\ Wraps(rp, m) <=> capacity - wp < m
    BY DEF TypeOK, Ptr, WpEnd, rb_get_fill_size, Room, Wraps
  <2>2. ASSUME NEW k \in 0 .. Unread' - 1
        PROVE  /\ Cell(k)' = Cell(k) /\ Cell(k) \in Cells
               /\ k >= Unread => Cell(k) = IF wp + (k - Unread) < capacity
                                         THEN wp + (k - Unread)
                                         ELSE wp + (k - Unread) - capacity
               /\ k < Unread => /\ ~(Cell(k) >= wp /\ Cell(k) < wp + m)
                                /\ Cell(k) >= m - (capacity - wp)
    BY <2>1 DEF TypeOK, Ptr, WpEnd, rb_get_fill_size, Cell
  <2>3. ASSUME NEW k \in 0 .. Unread' - 1
        PROVE  address'[Cell(k)'] = delivered' + 1 + k
    <3>1. CASE k < Unread
      <4>1. address[Cell(k)] = delivered + 1 + k
        BY <3>1 DEF RingHoldsFifo, Uncopied, Side, WritePc, TypeOK
      <4> QED BY <2>1, <2>2, <3>1, <4>1 DEF FirstCopy, BothCopies, TypeOK
    <3>2. CASE k >= Unread /\ wp + (k - Unread) < capacity
      BY <2>1, <2>2, <3>2 DEF FirstCopy, BothCopies, TypeOK
    <3>3. CASE k >= Unread /\ ~(wp + (k - Unread) < capacity)
      <4>1. Wraps(rp, m) /\ address' = BothCopies(m)
        <5>1. capacity - wp < m
          BY <2>1, <3>3 DEF TypeOK
        <5> QED BY <2>1, <5>1
      <4>2. /\ ~(Cell(k) >= wp) /\ Cell(k) < m - (capacity - wp)
            /\ Cell(k) = wp + (k - Unread) - capacity
        <5>1. Cell(k) = wp + (k - Unread) - capacity
          BY <2>2, <3>3
        <5>2. k \in Nat /\ k < Unread + m
          BY <2>1 DEF TypeOK
        <5> QED BY <2>1, <3>3, <5>1, <5>2 DEF TypeOK
      <4> QED BY <2>2, <4>1, <4>2 DEF BothCopies, TypeOK
    <3> QED BY <3>1, <3>2, <3>3 DEF TypeOK
  <2> QED BY <2>3 DEF RingHoldsFifo
<1>7. PcInv'
  BY DEF TypeOK, Ptr, Gap, WpEnd, Side, PcInv, WritePc, ReadPc, Holds,
         rb_get_fill_size, Room, Wraps, WpAfter, WpReset, FirstCopy,
         BothCopies
<1> QED BY <1>1, <1>2, <1>3, <1>4, <1>5, <1>6, <1>7

\* The inductive invariant is kept by a stuttering step.
LEMMA StutterStep ==
    ASSUME IInv, UNCHANGED vars
    PROVE  IInv'
BY DEF IInv, vars, TypeOK, Ptr, Gap, WpEnd, Side, RingHoldsFifo, Uncopied, PcInv,
       Fits, Holds, Unread, Cells, Cell, rb_get_fill_size

\* The inductive invariant holds initially.
LEMMA InitInv == Init => IInv
BY RingAssumption DEF Init, IInv, TypeOK, Ptr, Gap, WpEnd, Side, RingHoldsFifo,
   PcInv, Unread, Cells, WritePc, ReadPc, Status, rb_get_fill_size

\* Every step keeps the inductive invariant.
LEMMA NextInv == IInv /\ [Next]_vars => IInv'
BY OpenStep, CloseStep, PlayStep, PauseStep, DacWriteStep, RbWriteRefusedStep,
   RbWriteCheckStep, RbWriteCopyStep, RbWritePublishStep, RbWriteWrapStep,
   RbWriteEndStep, DacIsrStep, AdcReadStep, RbReadLoadStep, RbReadCopyStep,
   RbReadAdvanceStep, AdcIsrStep, StutterStep DEF Next

(* The inductive invariant holds throughout, for every capacity, interval, *)
(* sample size and set of counts (ring_buffer.c with both of its users).   *)
THEOREM Invariance == Spec => []IInv
BY InitInv, NextInv, PTL DEF Spec

(* Type correctness: rb_read and rb_write keep both pointers within the    *)
(* buffer and one past its end.                                            *)
THEOREM TypeCorrect == Spec => []TypeOK
<1>1. IInv => TypeOK
  BY DEF IInv
<1> QED BY <1>1, Invariance, PTL

(* rb_get_fill_size is the number of unread bytes in every interleaving of *)
(* the client and the interrupt, and the ring is never full.               *)
THEOREM FillSizeIsTrue == Spec => []FillIsTrue
<1>1. IInv => FillIsTrue
  BY RingAssumption DEF IInv, TypeOK, Ptr, Gap, FillIsTrue, Unread
<1> QED BY <1>1, Invariance, PTL

(* No write reaches an unread byte: the unread cells hold the accepted     *)
(* bytes in order, but for a wrapped part that is published and not yet    *)
(* copied (rb_write, ring_buffer.c:139-142).                               *)
THEOREM UnreadBytesKept == Spec => []RingHoldsFifo
<1>1. IInv => RingHoldsFifo
  BY DEF IInv
<1> QED BY <1>1, Invariance, PTL

(* The cells a memcpy of rb_write writes are free while it runs, although  *)
(* rp was loaded before and the interrupt moves it.                        *)
THEOREM CopyTargetsFree == Spec => []CopyIsClear
<1>1. IInv => CopyIsClear
  <2> SUFFICES ASSUME IInv, NEW k \in 0 .. Unread - 1
               PROVE  /\ pc = "w_copy" => ~(Cell(k) >= wp /\ Cell(k) < wp + n)
                      /\ pc = "w_copy" /\ Wraps(snap, n) => Cell(k) >= n - (capacity - wp)
                      /\ pc = "w_wrap" /\ k < Unread - wp => Cell(k) >= wp
    BY DEF CopyIsClear
  <2> QED BY RingAssumption DEF IInv, TypeOK, Ptr, PcInv, Fits, Unread, Cell, Wraps,
                                rb_get_fill_size
<1> QED BY <1>1, Invariance, PTL

(* What audio_dac_write and audio_adc_read report is what rb_write and     *)
(* rb_read moved.                                                          *)
THEOREM ReportsAreTrue == Spec => []ReportedIsMoved
<1>1. IInv => ReportedIsMoved
  BY DEF IInv, PcInv, ReportedIsMoved
<1> QED BY <1>1, Invariance, PTL

(* rb_read hands out the next accepted bytes in order, except cells of a   *)
(* wrapped write that are not copied yet.                                  *)
THEOREM ReadsInOrder == Spec => DeliveredInOrder
<1>1. ASSUME IInv, DacIsr \/ RbReadCopy, NEW k \in DOMAIN out', ~Uncopied(Cell(k))
      PROVE  out'[k] = delivered + 1 + k
  <2>1. CASE DacIsr
    <3>1. /\ out' = Bytes(ReadBytes(wp, SampleBytes))
          /\ ReadBytes(wp, SampleBytes) <= Unread
          /\ ReadBytes(wp, SampleBytes) \in Nat
      BY <1>1, <2>1, RingAssumption DEF DacIsr, IInv, TypeOK, Ptr, Unread,
         rb_get_fill_size, ReadBytes, Least
    <3>2. k \in 0 .. Unread - 1 /\ out'[k] = address[Cell(k)]
      BY <1>1, <3>1 DEF Bytes, IInv, TypeOK, Unread
    <3> QED BY <1>1, <3>2 DEF IInv, RingHoldsFifo
  <2>2. CASE RbReadCopy
    <3>1. /\ out' = Bytes(ReadBytes(snap, n))
          /\ ReadBytes(snap, n) <= Unread
          /\ ReadBytes(snap, n) \in Nat
      BY <1>1, <2>2, RingAssumption DEF RbReadCopy, IInv, TypeOK, PcInv, Holds,
         Unread, ReadBytes, Least
    <3>2. k \in 0 .. Unread - 1 /\ out'[k] = address[Cell(k)]
      BY <1>1, <3>1 DEF Bytes, IInv, TypeOK, Unread
    <3> QED BY <1>1, <3>2 DEF IInv, RingHoldsFifo
  <2> QED BY <1>1, <2>1, <2>2
<1>2. IInv => [DacIsr \/ RbReadCopy => \A k \in DOMAIN out' :
                  ~Uncopied(Cell(k)) => out'[k] = delivered + 1 + k]_vars
  BY <1>1
<1> QED BY <1>2, Invariance, PTL DEF DeliveredInOrder
=============================================================================
