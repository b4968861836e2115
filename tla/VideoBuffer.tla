---------------------------- MODULE VideoBuffer ----------------------------
(***************************************************************************)
(* video_buffer.c on top of VideoTransfer: the send function assembles the *)
(* packets of a frame in the buffer of a caller of                         *)
(* video_buffer_read_frame, checks that the result is a whole JPEG image   *)
(* and wakes the caller.  Three threads and the camera's interrupts run    *)
(* here: the transfer thread, one reader, and one thread that opens and    *)
(* closes.  The send function, the reader and the closer are cut at every  *)
(* access to g_vbuf that another thread may come between.                  *)
(*                                                                         *)
(* Lengths are in packets: the data of every packet has length 1.          *)
(***************************************************************************)
EXTENDS VideoTransfer

CONSTANTS Bufs,     \* buffers the reader passes
          BufLens,  \* the lengths it passes with them
          Lows,     \* whether its priority may be below the closer's, or not
          MaxLen    \* bound: how far a buffer is modelled

(* What RecvCopy puts into a buffer of a packet. *)
Data == [id : 0 .. MaxFrames, i : 1 .. MaxPkts, n : 0 .. MaxPkts]

ASSUME BufAssumption ==
    /\ None \notin Bufs \cup Data
    /\ MaxLen \in Nat
    /\ BufLens \subseteq 1 .. MaxLen
    /\ Lows \subseteq BOOLEAN

VARIABLES
    open,       \* g_vbuf is not NULL
    sem,        \* g_vbuf->aready_semaphore
    bufBase, bufLen, frmId, pktCnt, frameLen, startBuf,  \* g_vbuf
    bufPtr,     \* g_vbuf->buf_ptr: a buffer and a distance from its start
    mem,        \* the data in each buffer, by distance
    rd,         \* the reader: where it is, its buffer and length; low: its
                \* priority is below the closer's; late (history): it gave its
                \* buffer after the closer had looked for one
    ctl,        \* the opening and closing thread: where it is
    returned    \* history: no reader still lends the buffer the frame began in

vbuf == <<open, sem, bufBase, bufLen, frmId, pktCnt, frameLen, startBuf, bufPtr,
          returned>>
vars == <<tvars, vbuf, mem, rd, ctl>>

RdPc  == {"idle", "drain", "set", "wait", "len", "clear", "lost"}
CtlPc == {"idle", "deinit", "spin", "stuck", "free"}

(* Every variable has its type.  The semaphore is binary (aready_semaphore *)
(* is made with a maximum of 1): a frame signalled twice wakes one reader. *)
TypeOK ==
    /\ TransferTypeOK
    /\ open \in BOOLEAN /\ sem \in {0, 1}
    /\ bufBase \in Bufs \cup {None} /\ bufLen \in BufLens \cup {0}
    /\ frmId \in 0 .. MaxFrames \cup {None}   \* None stands for 0xffff
    /\ pktCnt \in 0 .. SeqMod - 1 /\ frameLen \in 0 .. SeqMod - 1
    /\ startBuf \in {"DONE", "COPY", "FULL"}
    /\ bufPtr \in [buf : Bufs \cup {None}, off : 0 .. SeqMod - 1]
    /\ mem \in [Bufs -> [0 .. MaxLen - 1 -> Data \cup {None}]]
    /\ rd \in [pc : RdPc, buf : Bufs \cup {None}, len : BufLens \cup {0},
               low : BOOLEAN, late : BOOLEAN]
    /\ ctl \in CtlPc
    /\ returned \in BOOLEAN

Init ==
    /\ TransferInit
    /\ open = FALSE /\ sem = 0
    /\ bufBase = None /\ bufLen = 0 /\ frmId = None
    /\ pktCnt = 0 /\ frameLen = 0 /\ startBuf = "DONE"
    /\ bufPtr = [buf |-> None, off |-> 0]
    /\ mem = [b \in Bufs |-> [k \in 0 .. MaxLen - 1 |-> None]]
    /\ rd = [pc |-> "idle", buf |-> None, len |-> 0,
             low |-> FALSE, late |-> FALSE]
    /\ ctl = "idle"
    /\ returned = TRUE
-----------------------------------------------------------------------------
(***************************************************************************)
(* video_buffer_recv_video_data, called by tvideo_poll_handler for the     *)
(* first packet of the ready list.                                         *)
(***************************************************************************)
Pkt == elem[cur]

Goto(l) == /\ thr' = l
           /\ UNCHANGED <<pool, frameId, pktSeq, cam, que, cur>>

RecvCall ==
    /\ thr = "poll" /\ ready /= <<>>
    /\ cur' = Head(ready)
    /\ thr' = IF bufBase /= None THEN "sof" ELSE "pop"
    /\ UNCHANGED <<pool, frameId, pktSeq, cam, que, vbuf, mem, rd, ctl>>

(* The first packet of a new frame starts it, at the start of the buffer   *)
(* the reader has given by now.                                            *)
RecvSof ==
    /\ thr = "sof"
    /\ IF Pkt.id /= frmId /\ Pkt.seq = 1
       THEN /\ frmId' = Pkt.id
            /\ frameLen' = 0 /\ pktCnt' = 0
            /\ bufPtr' = [buf |-> bufBase, off |-> 0]
            /\ startBuf' = "COPY"
            /\ returned' = (bufBase = None)
       ELSE UNCHANGED <<frmId, frameLen, pktCnt, bufPtr, startBuf, returned>>
    /\ Goto("match")
    /\ UNCHANGED <<open, sem, bufBase, bufLen, mem, rd, ctl>>

Expected == Pkt.id = frmId /\ pktCnt + 1 = Pkt.seq /\ startBuf = "COPY"

(* Mutant: the room left is taken to be that of the whole buffer.          *)
RecvMatch_room ==
    /\ thr = "match"
    /\ IF Expected
       THEN IF bufLen > 0
            THEN Goto("copy") /\ UNCHANGED startBuf
            ELSE Goto("pop") /\ startBuf' = "FULL"
       ELSE Goto("pop") /\ UNCHANGED startBuf
    /\ UNCHANGED <<open, sem, bufBase, bufLen, frmId, pktCnt, frameLen, bufPtr,
                   returned, mem, rd, ctl>>

(* left_len = buf_len - frame_len is unsigned: it is large, not negative,  *)
(* when buf_len has shrunk below frame_len meanwhile.                      *)
RecvMatch ==
    /\ thr = "match"
    /\ IF Expected
       THEN IF frameLen /= bufLen
            THEN Goto("copy") /\ UNCHANGED startBuf
            ELSE Goto("pop") /\ startBuf' = "FULL"
       ELSE Goto("pop") /\ UNCHANGED startBuf
    /\ UNCHANGED <<open, sem, bufBase, bufLen, frmId, pktCnt, frameLen, bufPtr,
                   returned, mem, rd, ctl>>

(* memcpy to buf_ptr; what lies outside the buffers is not modelled.       *)
RecvCopy ==
    /\ thr = "copy"
    /\ mem' = IF bufPtr.buf /= None /\ bufPtr.off < MaxLen
              THEN [mem EXCEPT ![bufPtr.buf][bufPtr.off] =
                       [id |-> Pkt.id, i |-> Pkt.i, n |-> Pkt.n]]
              ELSE mem
    /\ Goto("update")
    /\ UNCHANGED <<vbuf, rd, ctl>>

RecvUpdate ==
    /\ thr = "update"
    /\ frameLen' = frameLen + 1
    /\ pktCnt' = pktCnt + 1
    /\ bufPtr' = [bufPtr EXCEPT !.off = @ + 1]
    /\ Goto(IF Pkt.eof THEN "check" ELSE "pop")
    /\ UNCHANGED <<open, sem, bufBase, bufLen, frmId, startBuf, returned, mem, rd,
                   ctl>>

(* Mutant: the trailer's length is not compared.                           *)
RightImage_nolen ==
    /\ bufBase /= None /\ frameLen <= MaxLen
    /\ mem[bufBase][0] /= None /\ mem[bufBase][0].i = 1
    /\ mem[bufBase][frameLen - 1] /= None /\ mem[bufBase][frameLen - 1].n > 0

(* The JPEG start marker, the end marker and the length in the trailer, in *)
(* the first frame_len bytes of the buffer the reader has given by now.    *)
RightImage ==
    /\ bufBase /= None /\ frameLen <= MaxLen
    /\ mem[bufBase][0] /= None /\ mem[bufBase][0].i = 1
    /\ mem[bufBase][frameLen - 1] /= None
    /\ mem[bufBase][frameLen - 1].n = frameLen

RecvCheck ==
    /\ thr = "check"
    /\ IF RightImage THEN Goto("signal") /\ startBuf' = "DONE"
                     ELSE Goto("pop") /\ UNCHANGED startBuf
    /\ UNCHANGED <<open, sem, bufBase, bufLen, frmId, pktCnt, frameLen, bufPtr,
                   returned, mem, rd, ctl>>

(* Mutant: the semaphore is made with a larger maximum and counts.         *)
RecvSignal_counting ==
    /\ thr = "signal"
    /\ sem' = sem + 1
    /\ Goto("pop")
    /\ UNCHANGED <<open, bufBase, bufLen, frmId, pktCnt, frameLen, startBuf,
                   bufPtr, returned, mem, rd, ctl>>

(* rtos_set_semaphore.  The reader the frame was for may have gone by now, *)
(* and another may have come and drained the semaphore.                    *)
RecvSignal ==
    /\ thr = "signal"
    /\ sem' = 1
    /\ Goto("pop")
    /\ UNCHANGED <<open, bufBase, bufLen, frmId, pktCnt, frameLen, startBuf,
                   bufPtr, returned, mem, rd, ctl>>
-----------------------------------------------------------------------------
(***************************************************************************)
(* video_buffer_read_frame.  A reader that finds g_vbuf gone where the     *)
(* code does not look again is lost: what it does then is undefined.       *)
(***************************************************************************)
(* FreeRTOS runs the thread with the highest priority, and the busy wait   *)
(* of video_buffer_close never yields: a reader of a lower priority than   *)
(* the closer's does not run while the closer spins.                       *)
MayRun(low) == ~(low /\ ctl \in {"spin", "stuck"})

Blank == [k \in 0 .. MaxLen - 1 |-> None]

(* What a buffer holds before and after the call is its owner's, and no    *)
(* image: Blank.                                                           *)
ReadFrame(b, l, low) ==
    /\ rd.pc = "idle" /\ MayRun(low)
    /\ open /\ bufBase = None
    /\ rd' = [pc |-> "drain", buf |-> b, len |-> l, low |-> low, late |-> FALSE]
    /\ mem' = [mem EXCEPT ![b] = Blank]
    /\ UNCHANGED <<tvars, vbuf, ctl>>

ReadDrain ==
    /\ rd.pc = "drain" /\ open
    /\ sem' = 0
    /\ rd' = [rd EXCEPT !.pc = "set"]
    /\ UNCHANGED <<tvars, open, bufBase, bufLen, frmId, pktCnt, frameLen,
                   startBuf, bufPtr, returned, mem, ctl>>

ReadSet ==
    /\ rd.pc = "set" /\ open
    /\ bufBase' = rd.buf /\ bufLen' = rd.len
    /\ rd' = [rd EXCEPT !.pc = "wait", !.late = (ctl = "free")]
    /\ UNCHANGED <<tvars, open, sem, frmId, pktCnt, frameLen, startBuf, bufPtr,
                   returned, mem, ctl>>

ReadWoken ==
    /\ rd.pc = "wait" /\ open /\ sem = 1
    /\ sem' = 0
    /\ rd' = [rd EXCEPT !.pc = "len"]
    /\ UNCHANGED <<tvars, open, bufBase, bufLen, frmId, pktCnt, frameLen,
                   startBuf, bufPtr, returned, mem, ctl>>

ReadLen ==
    /\ rd.pc = "len" /\ open
    /\ rd' = [rd EXCEPT !.pc = "clear"]
    /\ UNCHANGED <<tvars, vbuf, mem, ctl>>

ReadClear ==
    /\ rd.pc = "clear" /\ open
    /\ bufBase' = None /\ bufLen' = 0 /\ returned' = TRUE
    /\ mem' = [mem EXCEPT ![rd.buf] = Blank]
    /\ rd' = [rd EXCEPT !.pc = "idle", !.buf = None, !.len = 0,
                        !.low = FALSE, !.late = FALSE]
    /\ UNCHANGED <<tvars, open, sem, frmId, pktCnt, frameLen, startBuf, bufPtr,
                   ctl>>

ReadLost ==
    /\ rd.pc \in {"drain", "set", "len", "clear"} /\ ~open
    /\ rd' = [rd EXCEPT !.pc = "lost"]
    /\ UNCHANGED <<tvars, vbuf, mem, ctl>>
-----------------------------------------------------------------------------
(***************************************************************************)
(* video_buffer_open and video_buffer_close.                               *)
(***************************************************************************)
ResetVbuf ==
    /\ sem' = 0
    /\ bufBase' = None /\ bufLen' = 0 /\ frmId' = None
    /\ pktCnt' = 0 /\ frameLen' = 0 /\ startBuf' = "DONE"
    /\ bufPtr' = [buf |-> None, off |-> 0]
    /\ returned' = TRUE

OpenVideo ==
    /\ ctl = "idle" /\ ~open
    /\ video_transfer_init
    /\ open' = TRUE
    /\ ResetVbuf
    /\ UNCHANGED <<mem, rd, ctl>>

CloseVideo ==
    /\ ctl = "idle" /\ open
    /\ video_transfer_deinit
    /\ ctl' = "deinit"
    /\ UNCHANGED <<vbuf, mem, rd>>

(* Mutant: a blocked reader is not woken.                                  *)
CloseWake_none ==
    /\ ctl = "deinit" /\ thr = None
    /\ ctl' = IF bufBase /= None THEN "spin" ELSE "free"
    /\ UNCHANGED <<tvars, vbuf, mem, rd>>

(* Mutant: the reader is woken but not waited for.                         *)
CloseWake_nowait ==
    /\ ctl = "deinit" /\ thr = None
    /\ sem' = IF bufBase /= None THEN 1 ELSE sem
    /\ ctl' = "free"
    /\ UNCHANGED <<tvars, open, bufBase, bufLen, frmId, pktCnt, frameLen,
                   startBuf, bufPtr, returned, mem, rd>>

(* The thread has gone; a reader that has given its buffer is woken.       *)
CloseWake ==
    /\ ctl = "deinit" /\ thr = None
    /\ IF bufBase /= None THEN sem' = 1 /\ ctl' = "spin"
                          ELSE ctl' = "free" /\ UNCHANGED sem
    /\ UNCHANGED <<tvars, open, bufBase, bufLen, frmId, pktCnt, frameLen,
                   startBuf, bufPtr, returned, mem, rd>>

CloseSpin ==
    /\ ctl = "spin" /\ bufBase = None
    /\ ctl' = "free"
    /\ UNCHANGED <<tvars, vbuf, mem, rd>>

(* while (g_vbuf->buf_base); reads a plain variable that another thread    *)
(* writes: compiled with -Os it may be loaded once, and the loop never     *)
(* ends when the reader has not cleared it by then.                        *)
CloseStuck ==
    /\ ctl = "spin" /\ bufBase /= None
    /\ ctl' = "stuck"
    /\ UNCHANGED <<tvars, vbuf, mem, rd>>

(* g_vbuf is freed: what it held counts as nothing.                        *)
CloseFree ==
    /\ ctl = "free"
    /\ open' = FALSE
    /\ ResetVbuf
    /\ ctl' = "idle"
    /\ rd' = [rd EXCEPT !.pc = IF @ = "wait" THEN "lost" ELSE @]
    /\ UNCHANGED <<tvars, mem>>
-----------------------------------------------------------------------------
Transfer == \/ ThreadStart \/ ThreadPop \/ PollEnd \/ PollPop \/ PollGive
            \/ ExitPool \/ ExitCamera \/ ExitQueue

Camera == (\E last \in BOOLEAN : CameraNode(last)) \/ CameraEnd

Receive == RecvCall \/ RecvSof \/ RecvMatch \/ RecvCopy \/ RecvUpdate \/ RecvCheck
           \/ RecvSignal

Thread == \/ Transfer /\ UNCHANGED <<vbuf, mem, rd, ctl>>
          \/ Receive

Reader == /\ MayRun(rd.low)
          /\ ReadDrain \/ ReadSet \/ ReadWoken \/ ReadLen \/ ReadClear \/ ReadLost

Closer == CloseWake \/ CloseSpin \/ CloseFree

Next == \/ Camera /\ UNCHANGED <<vbuf, mem, rd, ctl>>
        \/ Thread
        \/ \E b \in Bufs, l \in BufLens, low \in Lows : ReadFrame(b, l, low)
        \/ Reader
        \/ OpenVideo \/ CloseVideo
        \/ Closer \/ CloseStuck

Spec == Init /\ [][Next]_vars

(* The thread, the closer and a reader that MayRun go on when they can.    *)
(* The transfer thread never waits for one that spins: it has gone before  *)
(* the closer begins to.  The camera need not go on and nobody need call   *)
(* again.                                                                  *)
FairSpec == Spec /\ WF_vars(Thread) /\ WF_vars(Reader) /\ WF_vars(Closer)
-----------------------------------------------------------------------------
(* Every element of the pool is at one place, and once: free, ready, or in *)
(* the thread's hand between the two lists.  In particular the interrupt   *)
(* never fills an element while the send function reads it, although it    *)
(* moves elements between any two steps of the thread.                     *)
PoolConserved ==
    thr \notin {None, "start"} =>
        /\ IsInjective(free) /\ IsInjective(ready)
        /\ Range(free) \cap Range(ready) = {}
        /\ Range(free) \cup Range(ready) = IF thr = "give" THEN Elems \ {cur} ELSE Elems
        /\ thr \in SendPc => ready /= <<>> /\ cur = Head(ready)

(* d is a whole frame of l packets, in order and all of frame id. *)
Whole(d, l, id) ==
    /\ l \in 1 .. MaxLen
    /\ \A k \in 0 .. l - 1 : d[k] /= None /\ d[k].i = k + 1 /\ d[k].id = id
    /\ d[l - 1].n = l

(* The check at the end of a frame passes only for a whole frame, although *)
(* packets that found no element leave no gap in the sequence numbers; as  *)
(* long as the reader did not change its buffer in the middle of the       *)
(* frame.                                                                  *)
SignalledFrameIsWhole ==
    thr = "check" /\ RightImage /\ bufPtr = [buf |-> bufBase, off |-> frameLen]
        => Whole(mem[bufBase], frameLen, frmId)

(* Every copy goes into the buffer that the reader lends and stays within  *)
(* the length it gave, unless the reader that lent the buffer the frame    *)
(* began in has returned meanwhile: buf_ptr then still points into that    *)
(* buffer, which nobody lends, and buf_len is 0 or another reader's.       *)
CopyStaysInBuffer ==
    thr = "copy" /\ ~returned =>
        /\ bufBase /= None /\ bufPtr.buf = bufBase
        /\ bufPtr.off < bufLen

(* When video_buffer_close goes on past video_transfer_deinit, nothing is  *)
(* left that could call back: no thread, no camera, no queue, no pool.     *)
QuiescentAfterDeinit ==
    ctl \in {"spin", "stuck", "free"} \/ ~open =>
        thr = None /\ que = None /\ ~cam.open /\ ~hasPool

(* video_buffer_close does not free g_vbuf under a reader that gave its    *)
(* buffer before the closer's last look at buf_base: blocked or woken, it  *)
(* finds its own buffer there until it clears it.  One that gives it after *)
(* that look is not waited for, and may even be woken, by a signal of the  *)
(* transfer thread that came after it had drained the semaphore.           *)
WokenReaderSafe ==
    rd.pc \in {"wait", "len", "clear"} /\ ~rd.late => open /\ bufBase = rd.buf

(* The message that ends the thread is on its way or has been taken.       *)
ExitComing ==
    \/ thr \in {None, "exit", "exit_cam", "exit_que"}
    \/ que /= None /\ "exit" \in Range(que)

(* While packets are ready the thread goes on giving elements back, even   *)
(* if the messages that announced them were dropped at a full queue,       *)
(* unless the thread ends.                                                 *)
ReadyDrained == ready /= <<>> ~> (ready = <<>> \/ thr \in {"give", None})

(* The closer waits for a buf_base that a reader it had woken has cleared  *)
(* and, calling again before the closer looked, has set again: nobody is   *)
(* left to wake it.                                                        *)
CalledAgain == ctl = "spin" /\ rd.pc = "wait" /\ sem = 0

(* The closer waits for a reader of lower priority, which it keeps from    *)
(* running: the command line's video_buffer_close (priority 6) against a   *)
(* reader in an application (7).                                           *)
Starves == ctl = "spin" /\ bufBase /= None /\ rd.low

(* video_buffer_close ends.  The only other ends are these: TV_EXIT was    *)
(* lost to a full queue, and it waits for a thread that was never told; or *)
(* its busy wait does not end, because the reader called again, because    *)
(* the reader has a lower priority, or because buf_base was loaded once.   *)
CloseEnds ==
    ctl = "deinit" ~> \/ ctl = "idle"
                      \/ ctl = "deinit" /\ ~ExitComing
                      \/ CalledAgain \/ Starves \/ ctl = "stuck"

(* A reader blocked when the buffer is closed returns, even if no frame    *)
(* will ever come, if TV_EXIT got into the queue and the reader's priority *)
(* is not below the closer's.  One of a lower priority is woken and does   *)
(* not run (Starves).                                                      *)
BlockedReaderReleased ==
    (rd.pc = "wait" /\ ~rd.low /\ ctl = "deinit" /\ ExitComing) ~> rd.pc = "idle"

(* "all frame data have received, wakeup usr thread": the reader that is   *)
(* woken, and not by a close, finds a whole frame of frame_len.            *)
WokenReaderHasFrame ==
    rd.pc = "len" /\ ctl = "idle" => \E id \in 0 .. MaxFrames :
        Whole(mem[rd.buf], frameLen, id)
=============================================================================
