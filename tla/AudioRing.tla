----------------------------- MODULE AudioRing -----------------------------
(***************************************************************************)
(* The byte ring between the audio client and the audio interrupt          *)
(* (src/driver/audio/ring_buffer.c), with the two drivers that use it      *)
(* without DMA:                                                            *)
(*                                                                         *)
(*   dac   audio_dac.c: the client writes (audio_dac_write, rb_write), the *)
(*         interrupt reads one sample at a time (audio_dac_isr, rb_read);  *)
(*   adc   audio_adc.c: the interrupt writes one sample at a time          *)
(*         (audio_adc_isr, rb_write), the client reads (audio_adc_read,    *)
(*         rb_read).                                                       *)
(*                                                                         *)
(* The ring takes no lock: the interrupt may run between any two steps of  *)
(* the client, and runs to its end.  The client's calls are therefore cut  *)
(* at the loads and stores of a shared field; what the interrupt does is   *)
(* one step.  One exception: rb_get_fill_size and rb_get_free_size load    *)
(* each field once, in one step, as the -Os build does, although their     *)
(* text names rp and wp twice and neither is volatile.  One client thread  *)
(* uses a device, as audio_intf.c does.                                    *)
(*                                                                         *)
(* Bytes carry no samples here but their number: the i-th byte ever        *)
(* accepted into the ring is i, so that a byte out of order, lost,         *)
(* repeated or never written is seen by its number.                        *)
(***************************************************************************)
EXTENDS Integers

CONSTANTS Capacity,           \* buf_len of the device's configuration
          RWP_SAFE_INTERVAL,  \* bytes always kept free between wp and rp
          SampleBytes,        \* what the interrupt moves: sizeof(int16) * channels
          Counts,             \* the byte counts the client asks for
          MaxBytes            \* bound: bytes accepted in a behaviour

ASSUME RingAssumption ==
    /\ Capacity \in Nat
    /\ RWP_SAFE_INTERVAL \in Nat
    /\ RWP_SAFE_INTERVAL > 0
    /\ SampleBytes \in Nat
    /\ SampleBytes > 0
    /\ Counts \subseteq Nat
    /\ MaxBytes \in Nat

VARIABLES
    dev,        \* "dac" or "adc": the device, fixed by Init
    status,     \* aud_dac.status, aud_adc.status
    capacity,   \* rb->capacity, 0 in a closed device
    address,    \* rb->address[]: the number of the byte in each cell
    wp, rp,     \* rb->wp, rb->rp
    accepted,   \* number of the last byte accepted (history)
    delivered,  \* number of the last byte read or discarded (history)
    out,        \* what the last rb_read copied to its caller
    pc,         \* where the client is
    n,          \* its free_size / fill_size cut to count: bytes to move
    snap,       \* its local copy of rp (rb_write) or of wp (rb_read)
    ret,        \* what its last audio_dac_write / audio_adc_read returned
    moved       \* what the rb_write / rb_read inside that call returned

vars == <<dev, status, capacity, address, wp, rp, accepted, delivered, out,
          pc, n, snap, ret, moved>>

ring   == <<capacity, address, wp, rp, accepted, delivered>>
client == <<pc, n, snap, ret, moved>>

Cells  == 0 .. Capacity - 1
Status == {"closed", "opened", "playing", "pause"}
WritePc == {"w_check", "w_copy", "w_publish", "w_wrap", "w_end"}
ReadPc  == {"r_load", "r_copy", "r_advance"}

Least(a, b) == IF a <= b THEN a ELSE b
-----------------------------------------------------------------------------
(***************************************************************************)
(* What ring_buffer.c computes from the pointers.                          *)
(***************************************************************************)
rb_get_fill_size == IF wp >= rp THEN wp - rp ELSE capacity - rp + wp

(* Mutant: the interval is not taken off. *)
rb_get_free_size_all ==
    IF wp >= rp THEN capacity - wp + rp ELSE rp - wp

rb_get_free_size ==
    LET free_size == IF wp >= rp THEN capacity - wp + rp ELSE rp - wp
    IN  IF free_size > RWP_SAFE_INTERVAL THEN free_size - RWP_SAFE_INTERVAL ELSE 0

(* The cell of the k-th byte from rp on, k = 0, 1, ... *)
Cell(k) == IF rp + k < capacity THEN rp + k ELSE rp + k - capacity

(* rb_read of m bytes, w the write pointer it loaded: how many it copies,  *)
(* and where it leaves rp.  rp may come to rest at capacity.               *)
ReadBytes(w, m) ==
    IF w >= rp THEN Least(m, w - rp) ELSE Least(m, capacity - rp + w)

(* Mutant: rp is not wrapped when the read crosses the end. *)
AfterRead_nowrap(w, m) == rp + ReadBytes(w, m)

(* Mutant: a read that crosses the end leaves rp one byte too far. *)
AfterRead_off(w, m) ==
    IF w >= rp \/ m <= capacity - rp
    THEN rp + ReadBytes(w, m)
    ELSE ReadBytes(w, m) - (capacity - rp) + 1

AfterRead(w, m) ==
    IF w >= rp \/ m <= capacity - rp
    THEN rp + ReadBytes(w, m)
    ELSE ReadBytes(w, m) - (capacity - rp)

Bytes(m) == [k \in 0 .. m - 1 |-> address[Cell(k)]]

(* Mutant: the interval between wp and rp is not kept.                     *)
Room_nointerval(r, m) ==
    IF wp >= r THEN capacity - wp + r >= m ELSE r - wp >= m

(* rb_write of m bytes, r the read pointer it loaded: does it have room,   *)
(* does it cross the end, where does it leave wp.                          *)
Room(r, m) ==
    IF wp >= r THEN capacity - wp + r >= m + RWP_SAFE_INTERVAL
               ELSE r - wp >= m + RWP_SAFE_INTERVAL

Wraps(r, m) == wp >= r /\ capacity - wp < m

WpAfter(r, m) == IF Wraps(r, m) THEN m - (capacity - wp) ELSE wp + m

(* The end of rb_write: a write pointer at the end goes back to the start  *)
(* once the reader has left it.                                            *)
WpReset(w) == IF w >= capacity /\ rp /= 0 THEN 0 ELSE w

(* The buffer after the first, and after the second memcpy of rb_write.    *)
FirstCopy(m) ==
    [i \in Cells |-> IF i >= wp /\ i < wp + m /\ i < capacity
                     THEN accepted + 1 + (i - wp) ELSE address[i]]

BothCopies(m) ==
    [i \in Cells |-> IF i >= wp /\ i < wp + m /\ i < capacity
                     THEN accepted + 1 + (i - wp)
                     ELSE IF i < m - (capacity - wp)
                     THEN accepted + 1 + (capacity - wp) + i ELSE address[i]]
-----------------------------------------------------------------------------
Init ==
    /\ dev \in {"dac", "adc"}
    /\ status = "closed"
    /\ capacity = 0
    /\ address = [i \in Cells |-> 0]
    /\ wp = 0 /\ rp = 0
    /\ accepted = 0 /\ delivered = 0
    /\ out = [k \in {} |-> 0]
    /\ pc = "idle"
    /\ n = 0 /\ snap = 0 /\ ret = 0 /\ moved = 0

(***************************************************************************)
(* Open, close, play, pause.  audio_dac_open / audio_adc_open do not look  *)
(* at the status; rb_init discards what was in the ring.                   *)
(***************************************************************************)
Open ==
    /\ pc = "idle"
    /\ status' = "opened"
    /\ capacity' = Capacity
    /\ wp' = 0 /\ rp' = 0
    /\ delivered' = accepted
    /\ UNCHANGED <<dev, address, accepted, out, client>>

Close ==
    /\ pc = "idle"
    /\ status /= "closed"
    /\ status' = "closed"
    /\ capacity' = 0
    /\ wp' = 0 /\ rp' = 0
    /\ delivered' = accepted
    /\ UNCHANGED <<dev, address, accepted, out, client>>

Play ==
    /\ status /= "playing"
    /\ status' = "playing"
    /\ UNCHANGED <<dev, ring, out, client>>

Pause ==
    /\ status /= "pause"
    /\ status' = "pause"
    /\ UNCHANGED <<dev, ring, out, client>>
-----------------------------------------------------------------------------
(***************************************************************************)
(* audio_dac_write by the client: the free size, then rb_write.            *)
(***************************************************************************)
DacWrite(count) ==
    /\ dev = "dac" /\ pc = "idle"
    /\ status /= "closed"
    /\ accepted + count <= MaxBytes
    /\ n' = Least(rb_get_free_size, count)
    /\ pc' = "w_check"
    /\ UNCHANGED <<dev, status, ring, out, snap, ret, moved>>

RbWriteRefused ==
    /\ pc = "w_check"
    /\ n = 0 \/ ~Room(rp, n)
    /\ moved' = 0 /\ ret' = n
    /\ pc' = "idle"
    /\ UNCHANGED <<dev, status, ring, out, n, snap>>

(* Mutant: the new write pointer is published before the first memcpy.     *)
RbWriteCheck_early ==
    /\ pc = "w_check"
    /\ n /= 0 /\ Room(rp, n)
    /\ wp' = WpAfter(rp, n)
    /\ accepted' = accepted + n
    /\ pc' = IF Wraps(rp, n) THEN "w_wrap" ELSE "w_end"
    /\ UNCHANGED <<dev, status, capacity, address, rp, delivered, out, n,
                   snap, ret, moved>>

RbWriteCheck ==
    /\ pc = "w_check"
    /\ n /= 0 /\ Room(rp, n)
    /\ snap' = rp
    /\ pc' = "w_copy"
    /\ UNCHANGED <<dev, status, ring, out, n, ret, moved>>

RbWriteCopy ==
    /\ pc = "w_copy"
    /\ address' = FirstCopy(n)
    /\ pc' = "w_publish"
    /\ UNCHANGED <<dev, status, capacity, wp, rp, accepted, delivered, out,
                   n, snap, ret, moved>>

(* wp is stored; on a wrapped write the rest is copied only afterwards.    *)
RbWritePublish ==
    /\ pc = "w_publish"
    /\ wp' = WpAfter(snap, n)
    /\ accepted' = accepted + n
    /\ pc' = IF Wraps(snap, n) THEN "w_wrap" ELSE "w_end"
    /\ UNCHANGED <<dev, status, capacity, address, rp, delivered, out,
                   n, snap, ret, moved>>

RbWriteWrap ==
    /\ pc = "w_wrap"
    /\ address' = [i \in Cells |-> IF i < wp THEN accepted - wp + 1 + i
                                             ELSE address[i]]
    /\ pc' = "w_end"
    /\ UNCHANGED <<dev, status, capacity, wp, rp, accepted, delivered, out,
                   n, snap, ret, moved>>

RbWriteEnd ==
    /\ pc = "w_end"
    /\ wp' = WpReset(wp)
    /\ moved' = n /\ ret' = n
    /\ pc' = "idle"
    /\ UNCHANGED <<dev, status, capacity, address, rp, accepted, delivered,
                   out, n, snap>>

(* audio_dac_isr: one turn of its loop, a read of at most one sample.      *)
DacIsr ==
    LET m == ReadBytes(wp, SampleBytes) IN
    /\ dev = "dac" /\ status = "playing"
    /\ m > 0
    /\ out' = Bytes(m)
    /\ rp' = AfterRead(wp, SampleBytes)
    /\ delivered' = delivered + m
    /\ UNCHANGED <<dev, status, capacity, address, wp, accepted, client>>
-----------------------------------------------------------------------------
(***************************************************************************)
(* audio_adc_read by the client: the fill size, then rb_read.  The call    *)
(* returns the fill size it computed, not what rb_read returned.           *)
(***************************************************************************)
AdcRead(count) ==
    /\ dev = "adc" /\ pc = "idle"
    /\ status = "playing"
    /\ n' = Least(rb_get_fill_size, count)
    /\ pc' = "r_load"
    /\ UNCHANGED <<dev, status, ring, out, snap, ret, moved>>

RbReadLoad ==
    /\ pc = "r_load"
    /\ snap' = wp
    /\ IF n = 0 THEN pc' = "idle" /\ ret' = 0 /\ moved' = 0
                ELSE pc' = "r_copy" /\ UNCHANGED <<ret, moved>>
    /\ UNCHANGED <<dev, status, ring, out, n>>

RbReadCopy ==
    /\ pc = "r_copy"
    /\ out' = Bytes(ReadBytes(snap, n))
    /\ pc' = "r_advance"
    /\ UNCHANGED <<dev, status, ring, n, snap, ret, moved>>

RbReadAdvance ==
    /\ pc = "r_advance"
    /\ rp' = AfterRead(snap, n)
    /\ delivered' = delivered + ReadBytes(snap, n)
    /\ moved' = ReadBytes(snap, n) /\ ret' = n
    /\ pc' = "idle"
    /\ UNCHANGED <<dev, status, capacity, address, wp, accepted, out, n, snap>>

(* audio_adc_isr: one turn of its loop, a write of one sample; a sample    *)
(* that finds no room is dropped with the rest of the hardware FIFO.       *)
AdcIsr ==
    /\ dev = "adc" /\ status = "playing"
    /\ accepted + SampleBytes <= MaxBytes
    /\ Room(rp, SampleBytes)
    /\ address' = IF Wraps(rp, SampleBytes) THEN BothCopies(SampleBytes)
                                            ELSE FirstCopy(SampleBytes)
    /\ wp' = WpReset(WpAfter(rp, SampleBytes))
    /\ accepted' = accepted + SampleBytes
    /\ UNCHANGED <<dev, status, capacity, rp, delivered, out, client>>
-----------------------------------------------------------------------------
Next ==
    \/ Open \/ Close \/ Play \/ Pause
    \/ \E count \in Counts : DacWrite(count)
    \/ RbWriteRefused \/ RbWriteCheck \/ RbWriteCopy \/ RbWritePublish
    \/ RbWriteWrap \/ RbWriteEnd
    \/ DacIsr
    \/ \E count \in Counts : AdcRead(count)
    \/ RbReadLoad \/ RbReadCopy \/ RbReadAdvance
    \/ AdcIsr

Spec == Init /\ [][Next]_vars
-----------------------------------------------------------------------------
Unread == accepted - delivered

(* The bytes of a wrapped write that are published but not yet copied.     *)
Uncopied(i) == pc = "w_wrap" /\ i < wp

(* Every variable has its type; the pointers stay within the buffer and    *)
(* one past its end.                                                       *)
TypeOK ==
    /\ dev \in {"dac", "adc"}
    /\ status \in Status
    /\ capacity \in {0, Capacity}
    /\ address \in [Cells -> Nat]
    /\ wp \in 0 .. capacity
    /\ rp \in 0 .. capacity
    /\ accepted \in Nat
    /\ delivered \in Nat
    /\ pc \in {"idle"} \cup WritePc \cup ReadPc
    /\ n \in Nat
    /\ snap \in Nat
    /\ ret \in Nat
    /\ moved \in Nat

(* The fill size ring_buffer.c computes from the two pointers is the       *)
(* number of bytes accepted and not yet read, in every interleaving: a     *)
(* full ring is never taken for an empty one, although wp = rp would mean  *)
(* either and wp may come to rest at the end of the buffer.                *)
FillIsTrue ==
    /\ rb_get_fill_size = Unread
    /\ Unread <= capacity
    /\ Unread = capacity => capacity = 0

(* The unread cells hold the accepted bytes in order: no write of rb_write *)
(* touches a byte that is still to be read.  The only exception is the     *)
(* wrapped part of a write whose new wp is stored and whose second memcpy  *)
(* has not run (ring_buffer.c:139-142).                                    *)
RingHoldsFifo ==
    \A k \in 0 .. Unread - 1 :
        ~Uncopied(Cell(k)) => address[Cell(k)] = delivered + 1 + k

(* While a memcpy of rb_write is under way, the cells it writes are not    *)
(* cells of bytes accepted earlier and still unread, whatever the          *)
(* interrupt reads meanwhile: the copy need not be atomic.                 *)
CopyIsClear ==
    \A k \in 0 .. Unread - 1 :
        /\ pc = "w_copy" => ~(Cell(k) >= wp /\ Cell(k) < wp + n)
        /\ pc = "w_copy" /\ Wraps(snap, n) => Cell(k) >= n - (capacity - wp)
        /\ pc = "w_wrap" /\ k < Unread - wp => Cell(k) >= wp

(* The count the driver reports to its client is the count of bytes that   *)
(* really went through the ring, although it is computed before rb_write   *)
(* or rb_read loads the pointers again and their result is ignored.        *)
ReportedIsMoved == pc = "idle" => ret = moved

(* What rb_read copies out are the next bytes in the order they were       *)
(* accepted, none skipped, repeated or invented, whatever the other side   *)
(* does meanwhile; except cells of a wrapped write not copied yet.         *)
DeliveredInOrder ==
    [][DacIsr \/ RbReadCopy => \A k \in DOMAIN out' :
           ~Uncopied(Cell(k)) => out'[k] = delivered + 1 + k]_vars
=============================================================================
