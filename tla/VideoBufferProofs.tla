------------------------- MODULE VideoBufferProofs -------------------------
(***************************************************************************)
(* Proofs about VideoBuffer, for any number of elements, any queue length, *)
(* packets per frame, frames and buffer lengths.                           *)
(*                                                                         *)
(* The inductive invariant IInv ties the control points of the three       *)
(* threads to what they share (ThrInv, CtlInv, RdInv), and follows the     *)
(* packets of a frame from the ready list (OrdInv) through the copy        *)
(* (CopyInv) into the buffer (FillInv).  FillInv is what the frame check   *)
(* rests on: the parts in the buffer are in increasing order, so that a    *)
(* trailer that names as many parts as there are leaves no room for a gap. *)
(* LentInv keeps the copy within the buffer that a reader lends.           *)
(***************************************************************************)
EXTENDS VideoBuffer, SequenceTheorems, FiniteSetTheorems, TLAPS

\* The thread serves a pool whose lists count.
Active == thr \in {"wait", "poll", "give"} \cup SendPc

\* What exists at each point of the transfer thread.
ThrInv ==
    /\ thr = None => que = None /\ ~cam.open /\ ~hasPool
    /\ thr /= None => que \in Seq({"poll", "exit"}) /\ Len(que) <= QItems
    /\ thr = "start" => ~cam.open /\ ~hasPool /\ bufPtr.buf = None
    /\ thr = "exit_cam" => ~hasPool
    /\ thr = "exit_que" => ~hasPool /\ ~cam.open
    /\ thr \in {"give"} \cup SendPc => cur \in Elems
    /\ ~cam.full => cam.got < MaxPkts

\* The closer passes video_transfer_deinit only when the thread has gone.
CtlInv ==
    /\ ctl \in {"spin", "stuck", "free"} => open /\ thr = None
    /\ ctl = "deinit" => open
    /\ ~open => ctl = "idle" /\ thr = None

\* A buffer that is given is the blocked or woken reader's, and the closer
\* reaches the free only under a reader that gave its buffer too late.
RdInv ==
    /\ rd.pc \in {"drain", "set", "wait", "len", "clear"} =>
          rd.buf \in Bufs /\ rd.len \in BufLens
    /\ rd.pc \in {"wait", "len", "clear"} /\ ~rd.late => open /\ bufBase = rd.buf
    /\ bufBase /= None => open /\ rd.pc \in {"wait", "len", "clear"}
    /\ ctl = "free" /\ rd.pc \in {"wait", "len", "clear"} => rd.late

\* The counters of the send function agree.
PosInv ==
    /\ pktCnt = frameLen /\ bufPtr.off = frameLen
    /\ thr \in {"copy", "update"} => Pkt.id = frmId /\ pktCnt + 1 = Pkt.seq
    /\ thr = "check" => frameLen > 0

\* p comes from the camera before q.
Before(p, q) == p.id < q.id \/ (p.id = q.id /\ p.i < q.i)

\* The ready list is in the order of the camera, and behind the camera.
OrdInv ==
    Active =>
        /\ \A k \in 1 .. Len(ready) :
              /\ \/ elem[ready[k]].id < frameId
                 \/ elem[ready[k]].id = frameId /\ elem[ready[k]].i <= cam.got
              /\ elem[ready[k]].n \in {0, elem[ready[k]].i}
        /\ \A j, k \in 1 .. Len(ready) : j < k => Before(elem[ready[j]], elem[ready[k]])

\* The data in the buffer being filled.
Got(k) == mem[bufPtr.buf][k]

\* A frame is being assembled and its buffer has not been taken away.
Filling ==
    Active /\ bufPtr.buf \in Bufs /\ frameLen \in 1 .. MaxLen /\ Got(0) /= None

\* The parts in the buffer are of one frame, in increasing order, and
\* older than what is still ready.
FillInv ==
    Filling =>
        /\ \A k \in 0 .. frameLen - 1 :
              /\ Got(k) /= None
              /\ Got(k).id = frmId /\ Got(k).n \in {0, Got(k).i}
              /\ Got(k).i >= k + 1
              /\ Got(frameLen - 1).i - Got(k).i >= frameLen - 1 - k
        /\ frmId < frameId \/ (frmId = frameId /\ Got(frameLen - 1).i <= cam.got)
        /\ \A k \in 1 .. Len(ready) :
              (k > 1 \/ thr \notin {"check", "signal", "pop"}) /\ elem[ready[k]].id = frmId
                  => elem[ready[k]].i > Got(frameLen - 1).i

\* Between the copy and the update, the packet is behind the frame.
CopyInv ==
    thr = "update" /\ bufPtr.buf \in Bufs /\ frameLen < MaxLen /\ Got(0) /= None
        => Got(frameLen) = [id |-> Pkt.id, i |-> Pkt.i, n |-> Pkt.n]

\* While a frame is assembled in the buffer of a reader that has not
\* returned, buf_ptr is in the buffer that is lent, and frame_len within its
\* length: there is room for the packet that is being copied.
LentInv ==
    /\ thr \in {"copy", "update"} => startBuf = "COPY"
    /\ startBuf = "COPY" /\ ~returned =>
          /\ bufBase /= None /\ bufPtr.buf = bufBase
          /\ frameLen <= bufLen
          /\ thr \in {"copy", "update"} => frameLen < bufLen

\* The inductive invariant.
IInv == /\ TypeOK /\ PoolConserved /\ ThrInv /\ CtlInv /\ RdInv
        /\ PosInv /\ OrdInv /\ FillInv /\ CopyInv /\ LentInv

\* A message posted to a queue leaves a queue of messages within its bound.
LEMMA PostedType ==
    ASSUME NEW q \in Seq({"poll", "exit"}), Len(q) <= QItems,
           NEW msg \in {"poll", "exit"}
    PROVE  Posted(q, msg) \in Seq({"poll", "exit"}) /\ Len(Posted(q, msg)) <= QItems
  BY VideoAssumption DEF Posted

\* The receive interrupt keeps the types of the pool.
LEMMA RxType ==
    ASSUME TransferTypeOK, NEW i \in 1 .. MaxPkts, NEW n \in 0 .. MaxPkts,
           NEW isEof \in BOOLEAN, RxHandler(i, n, isEof)
    PROVE  /\ free' \in Seq(Elems) /\ ready' \in Seq(Elems)
           /\ elem' \in [Elems -> Packet]
           /\ pktSeq' \in 0 .. SeqMod - 1
<1> DEFINE seq == (pktSeq + 1) % SeqMod
           p == [id |-> frameId, seq |-> seq, i |-> i, n |-> n, eof |-> isEof]
<1>1. CASE free = <<>>
  BY <1>1 DEF RxHandler, TransferTypeOK
<1>2. CASE free /= <<>>
  <2>1. seq \in 0 .. SeqMod - 1
    BY VideoAssumption DEF TransferTypeOK
  <2>2. p \in Packet
    BY <2>1 DEF Packet, TransferTypeOK
  <2>3. Head(free) \in Elems /\ Tail(free) \in Seq(Elems)
    BY <1>2 DEF TransferTypeOK
  <2>4. elem' = [elem EXCEPT ![Head(free)] = p] /\ pktSeq' = (IF isEof THEN 0 ELSE seq)
        /\ free' = Tail(free) /\ ready' = Append(ready, Head(free))
    BY <1>2 DEF RxHandler
  <2>5. pktSeq' \in 0 .. SeqMod - 1
    <3>1. CASE isEof
      BY <3>1, <2>4, VideoAssumption
    <3>2. CASE ~isEof
      BY <3>2, <2>4, <2>1
    <3> QED BY <3>1, <3>2
  <2>6. elem' \in [Elems -> Packet]
    <3> HIDE DEF p
    <3> QED BY <2>4, <2>2, <2>3 DEF TransferTypeOK
  <2>7. ready' \in Seq(Elems)
    BY <2>3, <2>4 DEF TransferTypeOK
  <2> QED BY <2>3, <2>4, <2>5, <2>6, <2>7
<1> QED BY <1>1, <1>2

\* The camera interrupts keep the type of cam, and count no further than a frame.
LEMMA CamType ==
    ASSUME IInv, (\E last \in BOOLEAN : CameraNode(last)) \/ CameraEnd
    PROVE  /\ cam' \in [open : BOOLEAN, got : 0 .. MaxPkts, full : BOOLEAN]
           /\ cam'.open /\ cam.open
           /\ ~cam'.full => cam'.got < MaxPkts
           /\ cam.got + 1 \in 1 .. MaxPkts \/ cam.full
<1>1. cam \in [open : BOOLEAN, got : 0 .. MaxPkts, full : BOOLEAN]
  BY DEF IInv, TypeOK, TransferTypeOK
<1>2. ASSUME NEW last \in BOOLEAN, CameraNode(last)
      PROVE  /\ cam' \in [open : BOOLEAN, got : 0 .. MaxPkts, full : BOOLEAN]
             /\ cam'.open /\ cam.open
             /\ ~cam'.full => cam'.got < MaxPkts
             /\ cam.got + 1 \in 1 .. MaxPkts \/ cam.full
  <2>1. cam.open /\ ~cam.full /\ (cam.got + 1 < MaxPkts \/ last) /\ cam' = [cam EXCEPT !.got = @ + 1, !.full = last]
    BY <1>2 DEF CameraNode
  <2>2. cam.got + 1 \in 1 .. MaxPkts
    BY <2>1, <1>1, VideoAssumption DEF IInv, ThrInv
  <2>3. cam' = [open |-> cam.open, got |-> cam.got + 1, full |-> last]
    BY <1>1, <2>1
  <2>4. cam'.open = cam.open /\ cam'.got = cam.got + 1 /\ cam'.full = last
    BY <2>3
  <2>5. cam.got + 1 \in 0 .. MaxPkts
    BY <2>2, VideoAssumption
  <2>6. cam.open \in BOOLEAN
    BY <1>1
  <2>7. cam' \in [open : BOOLEAN, got : 0 .. MaxPkts, full : BOOLEAN]
    BY <2>3, <2>5, <2>6
  <2>8. ~last => cam.got + 1 < MaxPkts
    BY <2>1
  <2> QED BY <2>1, <2>2, <2>4, <2>7, <2>8
<1>3. ASSUME CameraEnd
      PROVE  /\ cam' \in [open : BOOLEAN, got : 0 .. MaxPkts, full : BOOLEAN]
             /\ cam'.open /\ cam.open
             /\ ~cam'.full => cam'.got < MaxPkts
             /\ cam.got + 1 \in 1 .. MaxPkts \/ cam.full
  <2>1. cam.open /\ cam' = [cam EXCEPT !.got = 0, !.full = FALSE]
    BY <1>3 DEF CameraEnd
  <2>2. cam' = [open |-> cam.open, got |-> 0, full |-> FALSE]
    BY <1>1, <2>1
  <2>3. cam' \in [open : BOOLEAN, got : 0 .. MaxPkts, full : BOOLEAN]
    <3>1. cam.open \in BOOLEAN
      BY <1>1
    <3>2. 0 \in 0 .. MaxPkts
      BY VideoAssumption
    <3> QED BY <2>2, <3>1, <3>2
  <2>4. cam.got + 1 \in 1 .. MaxPkts \/ cam.full
    BY <1>1, VideoAssumption DEF IInv, ThrInv
  <2> QED BY <2>1, <2>2, <2>3, <2>4, VideoAssumption
<1> QED BY <1>2, <1>3

\* ThrInv is kept.
LEMMA ThrStep ==
    ASSUME IInv, [Next]_vars
    PROVE  ThrInv'
<1>1. ASSUME NEW last \in BOOLEAN, CameraNode(last) /\ UNCHANGED <<vbuf, mem, rd, ctl>>
      PROVE  ThrInv'
  <2>1. thr /= None => que' \in Seq({"poll", "exit"}) /\ Len(que') <= QItems
    BY <1>1, PostedType DEF IInv, ThrInv, CameraNode
  <2>2. cam'.open /\ cam.open /\ (~cam'.full => cam'.got < MaxPkts)
    BY <1>1, CamType
  <2>4. thr' = thr /\ cur' = cur /\ hasPool' = hasPool /\ bufPtr' = bufPtr
    BY <1>1 DEF vbuf, CameraNode
  <2>5. thr \notin {None, "start", "exit_que"}
    BY <2>2 DEF IInv, ThrInv
  <2> QED
    BY <2>1, <2>2, <2>4, <2>5 DEF IInv, ThrInv
<1>2. CASE CameraEnd /\ UNCHANGED <<vbuf, mem, rd, ctl>>
  <2>1. thr /= None => que' \in Seq({"poll", "exit"}) /\ Len(que') <= QItems
    BY <1>2, PostedType DEF IInv, ThrInv, CameraEnd
  <2>2. cam'.open /\ cam.open /\ (~cam'.full => cam'.got < MaxPkts)
    BY <1>2, CamType
  <2>4. thr' = thr /\ cur' = cur /\ hasPool' = hasPool /\ bufPtr' = bufPtr
    BY <1>2 DEF vbuf, CameraEnd
  <2>5. thr \notin {None, "start", "exit_que"}
    BY <2>2 DEF IInv, ThrInv
  <2> QED
    BY <2>1, <2>2, <2>4, <2>5 DEF IInv, ThrInv
<1>3. CASE ThreadStart /\ UNCHANGED <<vbuf, mem, rd, ctl>>
  BY <1>3, VideoAssumption, BufAssumption
  DEF IInv, TypeOK, TransferTypeOK, ThrInv, CtlInv, ThrPc, SendPc, tvars, pool, vbuf,
      ThreadStart
<1>4. CASE ThreadPop /\ UNCHANGED <<vbuf, mem, rd, ctl>>
  BY <1>4, VideoAssumption, BufAssumption
  DEF IInv, TypeOK, TransferTypeOK, ThrInv, CtlInv, ThrPc, SendPc, tvars, pool, vbuf,
      ThreadPop
<1>5. CASE PollEnd /\ UNCHANGED <<vbuf, mem, rd, ctl>>
  BY <1>5, VideoAssumption, BufAssumption
  DEF IInv, TypeOK, TransferTypeOK, ThrInv, CtlInv, ThrPc, SendPc, tvars, pool, vbuf,
      PollEnd
<1>6. CASE PollPop /\ UNCHANGED <<vbuf, mem, rd, ctl>>
  BY <1>6, VideoAssumption, BufAssumption
  DEF IInv, TypeOK, TransferTypeOK, ThrInv, CtlInv, ThrPc, SendPc, tvars, pool, vbuf,
      PollPop
<1>7. CASE PollGive /\ UNCHANGED <<vbuf, mem, rd, ctl>>
  BY <1>7, VideoAssumption, BufAssumption
  DEF IInv, TypeOK, TransferTypeOK, ThrInv, CtlInv, ThrPc, SendPc, tvars, pool, vbuf,
      PollGive
<1>8. CASE ExitPool /\ UNCHANGED <<vbuf, mem, rd, ctl>>
  BY <1>8, VideoAssumption, BufAssumption
  DEF IInv, TypeOK, TransferTypeOK, ThrInv, CtlInv, ThrPc, SendPc, tvars, pool, vbuf,
      ExitPool
<1>9. CASE ExitCamera /\ UNCHANGED <<vbuf, mem, rd, ctl>>
  BY <1>9, VideoAssumption, BufAssumption
  DEF IInv, TypeOK, TransferTypeOK, ThrInv, CtlInv, ThrPc, SendPc, tvars, pool, vbuf,
      ExitCamera
<1>10. CASE ExitQueue /\ UNCHANGED <<vbuf, mem, rd, ctl>>
  BY <1>10, VideoAssumption, BufAssumption
  DEF IInv, TypeOK, TransferTypeOK, ThrInv, CtlInv, ThrPc, SendPc, tvars, pool, vbuf,
      ExitQueue
<1>11. CASE RecvCall
  BY <1>11, VideoAssumption, BufAssumption
  DEF IInv, TypeOK, TransferTypeOK, ThrInv, CtlInv, ThrPc, SendPc, tvars, pool, vbuf,
      RecvCall
<1>12. CASE RecvSof
  BY <1>12, VideoAssumption, BufAssumption
  DEF IInv, TypeOK, TransferTypeOK, ThrInv, CtlInv, ThrPc, SendPc, tvars, pool, vbuf,
      RecvSof, Goto
<1>13. CASE RecvMatch
  BY <1>13, VideoAssumption, BufAssumption
  DEF IInv, TypeOK, TransferTypeOK, ThrInv, CtlInv, ThrPc, SendPc, tvars, pool, vbuf,
      RecvMatch, Goto
<1>14. CASE RecvCopy
  BY <1>14, VideoAssumption, BufAssumption
  DEF IInv, TypeOK, TransferTypeOK, ThrInv, CtlInv, ThrPc, SendPc, tvars, pool, vbuf,
      RecvCopy, Goto
<1>15. CASE RecvUpdate
  BY <1>15, VideoAssumption, BufAssumption
  DEF IInv, TypeOK, TransferTypeOK, ThrInv, CtlInv, ThrPc, SendPc, tvars, pool, vbuf,
      RecvUpdate, Goto
<1>16. CASE RecvCheck
  BY <1>16, VideoAssumption, BufAssumption
  DEF IInv, TypeOK, TransferTypeOK, ThrInv, CtlInv, ThrPc, SendPc, tvars, pool, vbuf,
      RecvCheck, Goto
<1>17. ASSUME NEW b \in Bufs, NEW l \in BufLens, NEW low \in Lows,
             ReadFrame(b, l, low)
      PROVE  ThrInv'
  BY <1>17, VideoAssumption, BufAssumption
  DEF IInv, TypeOK, TransferTypeOK, ThrInv, CtlInv, ThrPc, SendPc, tvars, pool, vbuf,
      ReadFrame
<1>18. CASE ReadDrain
  BY <1>18, VideoAssumption, BufAssumption
  DEF IInv, TypeOK, TransferTypeOK, ThrInv, CtlInv, ThrPc, SendPc, tvars, pool, vbuf,
      ReadDrain
<1>19. CASE ReadSet
  BY <1>19, VideoAssumption, BufAssumption
  DEF IInv, TypeOK, TransferTypeOK, ThrInv, CtlInv, ThrPc, SendPc, tvars, pool, vbuf,
      ReadSet
<1>20. CASE ReadWoken
  BY <1>20, VideoAssumption, BufAssumption
  DEF IInv, TypeOK, TransferTypeOK, ThrInv, CtlInv, ThrPc, SendPc, tvars, pool, vbuf,
      ReadWoken
<1>21. CASE ReadLen
  BY <1>21, VideoAssumption, BufAssumption
  DEF IInv, TypeOK, TransferTypeOK, ThrInv, CtlInv, ThrPc, SendPc, tvars, pool, vbuf,
      ReadLen
<1>22. CASE ReadClear
  BY <1>22, VideoAssumption, BufAssumption
  DEF IInv, TypeOK, TransferTypeOK, ThrInv, CtlInv, ThrPc, SendPc, tvars, pool, vbuf,
      ReadClear
<1>23. CASE ReadLost
  BY <1>23, VideoAssumption, BufAssumption
  DEF IInv, TypeOK, TransferTypeOK, ThrInv, CtlInv, ThrPc, SendPc, tvars, pool, vbuf,
      ReadLost
<1>24. CASE OpenVideo
  BY <1>24, VideoAssumption, BufAssumption
  DEF IInv, TypeOK, TransferTypeOK, ThrInv, CtlInv, ThrPc, SendPc, tvars, pool, vbuf,
      OpenVideo, ResetVbuf, video_transfer_init
<1>25. CASE CloseVideo
  BY <1>25, VideoAssumption, BufAssumption
  DEF IInv, TypeOK, TransferTypeOK, ThrInv, CtlInv, ThrPc, SendPc, tvars, pool, vbuf,
      CloseVideo, video_transfer_deinit, Posted
<1>26. CASE CloseWake
  BY <1>26, VideoAssumption, BufAssumption
  DEF IInv, TypeOK, TransferTypeOK, ThrInv, CtlInv, ThrPc, SendPc, tvars, pool, vbuf,
      CloseWake
<1>27. CASE CloseSpin
  BY <1>27, VideoAssumption, BufAssumption
  DEF IInv, TypeOK, TransferTypeOK, ThrInv, CtlInv, ThrPc, SendPc, tvars, pool, vbuf,
      CloseSpin
<1>28. CASE CloseStuck
  BY <1>28, VideoAssumption, BufAssumption
  DEF IInv, TypeOK, TransferTypeOK, ThrInv, CtlInv, ThrPc, SendPc, tvars, pool, vbuf,
      CloseStuck
<1>29. CASE CloseFree
  BY <1>29, VideoAssumption, BufAssumption
  DEF IInv, TypeOK, TransferTypeOK, ThrInv, CtlInv, ThrPc, SendPc, tvars, pool, vbuf,
      CloseFree, ResetVbuf
<1>30. CASE UNCHANGED vars
  BY <1>30, VideoAssumption, BufAssumption
  DEF IInv, TypeOK, TransferTypeOK, ThrInv, CtlInv, ThrPc, SendPc, tvars, pool, vbuf,
      vars
<1>31. CASE RecvSignal
  BY <1>31, VideoAssumption, BufAssumption
  DEF IInv, TypeOK, TransferTypeOK, ThrInv, CtlInv, ThrPc, SendPc, tvars, pool, vbuf,
      RecvSignal, Goto
<1> QED
  BY <1>1, <1>2, <1>3, <1>4, <1>5, <1>6, <1>7, <1>8, <1>9, <1>10, <1>11, <1>12,
      <1>13, <1>14, <1>15, <1>16, <1>17, <1>18, <1>19, <1>20, <1>21, <1>22, <1>23,
          <1>24, <1>25, <1>26, <1>27, <1>28, <1>29, <1>30, <1>31
  DEF Next, Camera, Thread, Transfer, Receive, Reader, Closer

\* CtlInv is kept.
LEMMA CtlStep ==
    ASSUME IInv, [Next]_vars
    PROVE  CtlInv'
<1>1. ASSUME NEW last \in BOOLEAN, CameraNode(last) /\ UNCHANGED <<vbuf, mem, rd, ctl>>
      PROVE  CtlInv'
  BY <1>1, VideoAssumption, BufAssumption
  DEF IInv, TypeOK, TransferTypeOK, ThrInv, CtlInv, ThrPc, SendPc, tvars, pool, vbuf,
      CameraNode, RxHandler, Posted
<1>2. CASE CameraEnd /\ UNCHANGED <<vbuf, mem, rd, ctl>>
  BY <1>2, VideoAssumption, BufAssumption
  DEF IInv, TypeOK, TransferTypeOK, ThrInv, CtlInv, ThrPc, SendPc, tvars, pool, vbuf,
      CameraEnd, RxHandler, Posted
<1>3. CASE ThreadStart /\ UNCHANGED <<vbuf, mem, rd, ctl>>
  BY <1>3, VideoAssumption, BufAssumption
  DEF IInv, TypeOK, TransferTypeOK, ThrInv, CtlInv, ThrPc, SendPc, tvars, pool, vbuf,
      ThreadStart
<1>4. CASE ThreadPop /\ UNCHANGED <<vbuf, mem, rd, ctl>>
  BY <1>4, VideoAssumption, BufAssumption
  DEF IInv, TypeOK, TransferTypeOK, ThrInv, CtlInv, ThrPc, SendPc, tvars, pool, vbuf,
      ThreadPop
<1>5. CASE PollEnd /\ UNCHANGED <<vbuf, mem, rd, ctl>>
  BY <1>5, VideoAssumption, BufAssumption
  DEF IInv, TypeOK, TransferTypeOK, ThrInv, CtlInv, ThrPc, SendPc, tvars, pool, vbuf,
      PollEnd
<1>6. CASE PollPop /\ UNCHANGED <<vbuf, mem, rd, ctl>>
  BY <1>6, VideoAssumption, BufAssumption
  DEF IInv, TypeOK, TransferTypeOK, ThrInv, CtlInv, ThrPc, SendPc, tvars, pool, vbuf,
      PollPop
<1>7. CASE PollGive /\ UNCHANGED <<vbuf, mem, rd, ctl>>
  BY <1>7, VideoAssumption, BufAssumption
  DEF IInv, TypeOK, TransferTypeOK, ThrInv, CtlInv, ThrPc, SendPc, tvars, pool, vbuf,
      PollGive
<1>8. CASE ExitPool /\ UNCHANGED <<vbuf, mem, rd, ctl>>
  BY <1>8, VideoAssumption, BufAssumption
  DEF IInv, TypeOK, TransferTypeOK, ThrInv, CtlInv, ThrPc, SendPc, tvars, pool, vbuf,
      ExitPool
<1>9. CASE ExitCamera /\ UNCHANGED <<vbuf, mem, rd, ctl>>
  BY <1>9, VideoAssumption, BufAssumption
  DEF IInv, TypeOK, TransferTypeOK, ThrInv, CtlInv, ThrPc, SendPc, tvars, pool, vbuf,
      ExitCamera
<1>10. CASE ExitQueue /\ UNCHANGED <<vbuf, mem, rd, ctl>>
  BY <1>10, VideoAssumption, BufAssumption
  DEF IInv, TypeOK, TransferTypeOK, ThrInv, CtlInv, ThrPc, SendPc, tvars, pool, vbuf,
      ExitQueue
<1>11. CASE RecvCall
  BY <1>11, VideoAssumption, BufAssumption
  DEF IInv, TypeOK, TransferTypeOK, ThrInv, CtlInv, ThrPc, SendPc, tvars, pool, vbuf,
      RecvCall
<1>12. CASE RecvSof
  BY <1>12, VideoAssumption, BufAssumption
  DEF IInv, TypeOK, TransferTypeOK, ThrInv, CtlInv, ThrPc, SendPc, tvars, pool, vbuf,
      RecvSof, Goto
<1>13. CASE RecvMatch
  BY <1>13, VideoAssumption, BufAssumption
  DEF IInv, TypeOK, TransferTypeOK, ThrInv, CtlInv, ThrPc, SendPc, tvars, pool, vbuf,
      RecvMatch, Goto
<1>14. CASE RecvCopy
  BY <1>14, VideoAssumption, BufAssumption
  DEF IInv, TypeOK, TransferTypeOK, ThrInv, CtlInv, ThrPc, SendPc, tvars, pool, vbuf,
      RecvCopy, Goto
<1>15. CASE RecvUpdate
  BY <1>15, VideoAssumption, BufAssumption
  DEF IInv, TypeOK, TransferTypeOK, ThrInv, CtlInv, ThrPc, SendPc, tvars, pool, vbuf,
      RecvUpdate, Goto
<1>16. CASE RecvCheck
  BY <1>16, VideoAssumption, BufAssumption
  DEF IInv, TypeOK, TransferTypeOK, ThrInv, CtlInv, ThrPc, SendPc, tvars, pool, vbuf,
      RecvCheck, Goto
<1>17. ASSUME NEW b \in Bufs, NEW l \in BufLens, NEW low \in Lows,
             ReadFrame(b, l, low)
      PROVE  CtlInv'
  BY <1>17, VideoAssumption, BufAssumption
  DEF IInv, TypeOK, TransferTypeOK, ThrInv, CtlInv, ThrPc, SendPc, tvars, pool, vbuf,
      ReadFrame
<1>18. CASE ReadDrain
  BY <1>18, VideoAssumption, BufAssumption
  DEF IInv, TypeOK, TransferTypeOK, ThrInv, CtlInv, ThrPc, SendPc, tvars, pool, vbuf,
      ReadDrain
<1>19. CASE ReadSet
  BY <1>19, VideoAssumption, BufAssumption
  DEF IInv, TypeOK, TransferTypeOK, ThrInv, CtlInv, ThrPc, SendPc, tvars, pool, vbuf,
      ReadSet
<1>20. CASE ReadWoken
  BY <1>20, VideoAssumption, BufAssumption
  DEF IInv, TypeOK, TransferTypeOK, ThrInv, CtlInv, ThrPc, SendPc, tvars, pool, vbuf,
      ReadWoken
<1>21. CASE ReadLen
  BY <1>21, VideoAssumption, BufAssumption
  DEF IInv, TypeOK, TransferTypeOK, ThrInv, CtlInv, ThrPc, SendPc, tvars, pool, vbuf,
      ReadLen
<1>22. CASE ReadClear
  BY <1>22, VideoAssumption, BufAssumption
  DEF IInv, TypeOK, TransferTypeOK, ThrInv, CtlInv, ThrPc, SendPc, tvars, pool, vbuf,
      ReadClear
<1>23. CASE ReadLost
  BY <1>23, VideoAssumption, BufAssumption
  DEF IInv, TypeOK, TransferTypeOK, ThrInv, CtlInv, ThrPc, SendPc, tvars, pool, vbuf,
      ReadLost
<1>24. CASE OpenVideo
  BY <1>24, VideoAssumption, BufAssumption
  DEF IInv, TypeOK, TransferTypeOK, ThrInv, CtlInv, ThrPc, SendPc, tvars, pool, vbuf,
      OpenVideo, ResetVbuf, video_transfer_init
<1>25. CASE CloseVideo
  BY <1>25, VideoAssumption, BufAssumption
  DEF IInv, TypeOK, TransferTypeOK, ThrInv, CtlInv, ThrPc, SendPc, tvars, pool, vbuf,
      CloseVideo, video_transfer_deinit, Posted
<1>26. CASE CloseWake
  BY <1>26, VideoAssumption, BufAssumption
  DEF IInv, TypeOK, TransferTypeOK, ThrInv, CtlInv, ThrPc, SendPc, tvars, pool, vbuf,
      CloseWake
<1>27. CASE CloseSpin
  BY <1>27, VideoAssumption, BufAssumption
  DEF IInv, TypeOK, TransferTypeOK, ThrInv, CtlInv, ThrPc, SendPc, tvars, pool, vbuf,
      CloseSpin
<1>28. CASE CloseStuck
  BY <1>28, VideoAssumption, BufAssumption
  DEF IInv, TypeOK, TransferTypeOK, ThrInv, CtlInv, ThrPc, SendPc, tvars, pool, vbuf,
      CloseStuck
<1>29. CASE CloseFree
  BY <1>29, VideoAssumption, BufAssumption
  DEF IInv, TypeOK, TransferTypeOK, ThrInv, CtlInv, ThrPc, SendPc, tvars, pool, vbuf,
      CloseFree, ResetVbuf
<1>30. CASE UNCHANGED vars
  BY <1>30, VideoAssumption, BufAssumption
  DEF IInv, TypeOK, TransferTypeOK, ThrInv, CtlInv, ThrPc, SendPc, tvars, pool, vbuf,
      vars
<1>31. CASE RecvSignal
  BY <1>31, VideoAssumption, BufAssumption
  DEF IInv, TypeOK, TransferTypeOK, ThrInv, CtlInv, ThrPc, SendPc, tvars, pool, vbuf,
      RecvSignal, Goto
<1> QED
  BY <1>1, <1>2, <1>3, <1>4, <1>5, <1>6, <1>7, <1>8, <1>9, <1>10, <1>11, <1>12,
      <1>13, <1>14, <1>15, <1>16, <1>17, <1>18, <1>19, <1>20, <1>21, <1>22, <1>23,
          <1>24, <1>25, <1>26, <1>27, <1>28, <1>29, <1>30, <1>31
  DEF Next, Camera, Thread, Transfer, Receive, Reader, Closer

\* RdInv is kept.
LEMMA RdStep ==
    ASSUME IInv, [Next]_vars
    PROVE  RdInv'
<1>1. ASSUME NEW last \in BOOLEAN, CameraNode(last) /\ UNCHANGED <<vbuf, mem, rd, ctl>>
      PROVE  RdInv'
  BY <1>1, VideoAssumption, BufAssumption
  DEF IInv, TypeOK, CtlInv, RdInv, tvars, pool, vbuf, CameraNode, RxHandler, Posted
<1>2. CASE CameraEnd /\ UNCHANGED <<vbuf, mem, rd, ctl>>
  BY <1>2, VideoAssumption, BufAssumption
  DEF IInv, TypeOK, CtlInv, RdInv, tvars, pool, vbuf, CameraEnd, RxHandler, Posted
<1>3. CASE ThreadStart /\ UNCHANGED <<vbuf, mem, rd, ctl>>
  BY <1>3, VideoAssumption, BufAssumption
  DEF IInv, TypeOK, CtlInv, RdInv, tvars, pool, vbuf, ThreadStart
<1>4. CASE ThreadPop /\ UNCHANGED <<vbuf, mem, rd, ctl>>
  BY <1>4, VideoAssumption, BufAssumption
  DEF IInv, TypeOK, CtlInv, RdInv, tvars, pool, vbuf, ThreadPop
<1>5. CASE PollEnd /\ UNCHANGED <<vbuf, mem, rd, ctl>>
  BY <1>5, VideoAssumption, BufAssumption
  DEF IInv, TypeOK, CtlInv, RdInv, tvars, pool, vbuf, PollEnd
<1>6. CASE PollPop /\ UNCHANGED <<vbuf, mem, rd, ctl>>
  BY <1>6, VideoAssumption, BufAssumption
  DEF IInv, TypeOK, CtlInv, RdInv, tvars, pool, vbuf, PollPop
<1>7. CASE PollGive /\ UNCHANGED <<vbuf, mem, rd, ctl>>
  BY <1>7, VideoAssumption, BufAssumption
  DEF IInv, TypeOK, CtlInv, RdInv, tvars, pool, vbuf, PollGive
<1>8. CASE ExitPool /\ UNCHANGED <<vbuf, mem, rd, ctl>>
  BY <1>8, VideoAssumption, BufAssumption
  DEF IInv, TypeOK, CtlInv, RdInv, tvars, pool, vbuf, ExitPool
<1>9. CASE ExitCamera /\ UNCHANGED <<vbuf, mem, rd, ctl>>
  BY <1>9, VideoAssumption, BufAssumption
  DEF IInv, TypeOK, CtlInv, RdInv, tvars, pool, vbuf, ExitCamera
<1>10. CASE ExitQueue /\ UNCHANGED <<vbuf, mem, rd, ctl>>
  BY <1>10, VideoAssumption, BufAssumption
  DEF IInv, TypeOK, CtlInv, RdInv, tvars, pool, vbuf, ExitQueue
<1>11. CASE RecvCall
  BY <1>11, VideoAssumption, BufAssumption
  DEF IInv, TypeOK, CtlInv, RdInv, tvars, pool, vbuf, RecvCall
<1>12. CASE RecvSof
  BY <1>12, VideoAssumption, BufAssumption
  DEF IInv, TypeOK, CtlInv, RdInv, tvars, pool, vbuf, RecvSof, Goto
<1>13. CASE RecvMatch
  BY <1>13, VideoAssumption, BufAssumption
  DEF IInv, TypeOK, CtlInv, RdInv, tvars, pool, vbuf, RecvMatch, Goto
<1>14. CASE RecvCopy
  BY <1>14, VideoAssumption, BufAssumption
  DEF IInv, TypeOK, CtlInv, RdInv, tvars, pool, vbuf, RecvCopy, Goto
<1>15. CASE RecvUpdate
  BY <1>15, VideoAssumption, BufAssumption
  DEF IInv, TypeOK, CtlInv, RdInv, tvars, pool, vbuf, RecvUpdate, Goto
<1>16. CASE RecvCheck
  BY <1>16, VideoAssumption, BufAssumption
  DEF IInv, TypeOK, CtlInv, RdInv, ThrPc, SendPc, RightImage, Goto, vbuf, RecvCheck
<1>17. ASSUME NEW b \in Bufs, NEW l \in BufLens, NEW low \in Lows,
             ReadFrame(b, l, low)
      PROVE  RdInv'
  BY <1>17, VideoAssumption, BufAssumption
  DEF IInv, TypeOK, CtlInv, RdInv, tvars, pool, vbuf, ReadFrame
<1>18. CASE ReadDrain
  BY <1>18, VideoAssumption, BufAssumption
  DEF IInv, TypeOK, CtlInv, RdInv, tvars, pool, vbuf, ReadDrain
<1>19. CASE ReadSet
  BY <1>19, VideoAssumption, BufAssumption
  DEF IInv, TypeOK, CtlInv, RdInv, tvars, pool, vbuf, ReadSet
<1>20. CASE ReadWoken
  BY <1>20, VideoAssumption, BufAssumption
  DEF IInv, TypeOK, CtlInv, RdInv, tvars, pool, vbuf, ReadWoken
<1>21. CASE ReadLen
  BY <1>21, VideoAssumption, BufAssumption
  DEF IInv, TypeOK, CtlInv, RdInv, tvars, pool, vbuf, ReadLen
<1>22. CASE ReadClear
  BY <1>22, VideoAssumption, BufAssumption
  DEF IInv, TypeOK, CtlInv, RdInv, tvars, pool, vbuf, ReadClear
<1>23. CASE ReadLost
  BY <1>23, VideoAssumption, BufAssumption
  DEF IInv, TypeOK, CtlInv, RdInv, tvars, pool, vbuf, ReadLost
<1>24. CASE OpenVideo
  BY <1>24, VideoAssumption, BufAssumption
  DEF IInv, TypeOK, CtlInv, RdInv, tvars, pool, vbuf, OpenVideo, ResetVbuf,
      video_transfer_init
<1>25. CASE CloseVideo
  BY <1>25, VideoAssumption, BufAssumption
  DEF IInv, TypeOK, CtlInv, RdInv, tvars, pool, vbuf, CloseVideo,
      video_transfer_deinit, Posted
<1>26. CASE CloseWake
  BY <1>26, VideoAssumption, BufAssumption
  DEF IInv, TypeOK, CtlInv, RdInv, tvars, pool, vbuf, CloseWake
<1>27. CASE CloseSpin
  BY <1>27, VideoAssumption, BufAssumption
  DEF IInv, TypeOK, CtlInv, RdInv, tvars, pool, vbuf, CloseSpin
<1>28. CASE CloseStuck
  BY <1>28, VideoAssumption, BufAssumption
  DEF IInv, TypeOK, CtlInv, RdInv, tvars, pool, vbuf, CloseStuck
<1>29. CASE CloseFree
  BY <1>29, VideoAssumption, BufAssumption
  DEF IInv, TypeOK, CtlInv, RdInv, tvars, pool, vbuf, CloseFree, ResetVbuf
<1>30. CASE UNCHANGED vars
  BY <1>30, VideoAssumption, BufAssumption
  DEF IInv, TypeOK, CtlInv, RdInv, tvars, pool, vbuf, vars
<1>31. CASE RecvSignal
  BY <1>31, VideoAssumption, BufAssumption
  DEF IInv, TypeOK, CtlInv, RdInv, ThrPc, SendPc, RightImage, Goto, vbuf, RecvSignal
<1> QED
  BY <1>1, <1>2, <1>3, <1>4, <1>5, <1>6, <1>7, <1>8, <1>9, <1>10, <1>11, <1>12,
      <1>13, <1>14, <1>15, <1>16, <1>17, <1>18, <1>19, <1>20, <1>21, <1>22, <1>23,
          <1>24, <1>25, <1>26, <1>27, <1>28, <1>29, <1>30, <1>31
  DEF Next, Camera, Thread, Transfer, Receive, Reader, Closer

\* The content of a free element is a packet.
LEMMA NoPacketType == NoPacket \in Packet
<1>1. 0 \in 0 .. MaxFrames /\ 0 \in 0 .. SeqMod - 1 /\ 1 \in 1 .. MaxPkts /\ 0 \in 0 .. MaxPkts
  BY VideoAssumption
<1> QED BY <1>1 DEF NoPacket, Packet

\* tvideo_pool_init puts every element on the free list, once.
LEMMA ElemOrderType ==
    ElemOrder \in Seq(Elems) /\ IsInjective(ElemOrder) /\ Range(ElemOrder) = Elems
<1> DEFINE n == Cardinality(Elems)
<1>1. n \in Nat /\ ExistsBijection(1 .. n, Elems)
  BY VideoAssumption, FS_CardinalityType
<1>2. PICK f \in [1 .. n -> Elems] : IsInjective(f) /\ Range(f) = Elems
  BY <1>1 DEF ExistsBijection, Bijection, Injection, Surjection, IsInjective, Range
<1>3. /\ ElemOrder \in [1 .. n -> Elems] /\ IsInjective(ElemOrder)
      /\ Range(ElemOrder) = Elems
  BY <1>2 DEF ElemOrder
<1>4. [1 .. n -> Elems] \subseteq Seq(Elems)
  BY <1>1
<1> QED BY <1>3, <1>4

\* The types of the transfer component's variables are kept.
LEMMA TransferStep ==
    ASSUME IInv, [Next]_vars
    PROVE  TransferTypeOK'
<1>1. ASSUME NEW last \in BOOLEAN, CameraNode(last) /\ UNCHANGED <<vbuf, mem, rd, ctl>>
      PROVE  TransferTypeOK'
  <2>1. free' \in Seq(Elems) /\ ready' \in Seq(Elems) /\ elem' \in [Elems -> Packet]
        /\ pktSeq' \in 0 .. SeqMod - 1
    <3>1. cam.got + 1 \in 1 .. MaxPkts
      BY <1>1, CamType DEF CameraNode
    <3>2. (IF last THEN cam.got + 1 ELSE 0) \in 0 .. MaxPkts
      BY <3>1, VideoAssumption
    <3> QED
      BY <1>1, <3>1, <3>2, RxType DEF CameraNode, IInv, TypeOK
  <2>2. cam' \in [open : BOOLEAN, got : 0 .. MaxPkts, full : BOOLEAN] /\ cam.open
    BY <1>1, CamType
  <2>3. thr /= None
    BY <2>2 DEF IInv, ThrInv
  <2>4. que' \in Seq({"poll", "exit"}) /\ Len(que') <= QItems
    BY <1>1, <2>3, PostedType DEF IInv, ThrInv, CameraNode
  <2>5. thr' = thr /\ cur' = cur /\ hasPool' = hasPool
    BY <1>1 DEF CameraNode
  <2>6. frameId' \in 0 .. MaxFrames
    BY <1>1, VideoAssumption DEF IInv, TypeOK, TransferTypeOK, CameraNode
  <2> QED
    BY <2>1, <2>2, <2>4, <2>5, <2>6 DEF IInv, TypeOK, TransferTypeOK
<1>2. CASE CameraEnd /\ UNCHANGED <<vbuf, mem, rd, ctl>>
  <2>1. free' \in Seq(Elems) /\ ready' \in Seq(Elems) /\ elem' \in [Elems -> Packet]
        /\ pktSeq' \in 0 .. SeqMod - 1
    <3>1. CASE cam.full
      BY <1>2, <3>1 DEF CameraEnd, IInv, TypeOK, TransferTypeOK
    <3>2. CASE ~cam.full
      <4>1. cam.got + 1 \in 1 .. MaxPkts /\ cam.got + 1 \in 0 .. MaxPkts
        BY <1>2, <3>2, CamType, VideoAssumption
      <4>2. RxHandler(cam.got + 1, cam.got + 1, TRUE)
        BY <1>2, <3>2 DEF CameraEnd
      <4> QED
        BY <4>1, <4>2, RxType DEF IInv, TypeOK
    <3> QED BY <3>1, <3>2
  <2>2. cam' \in [open : BOOLEAN, got : 0 .. MaxPkts, full : BOOLEAN] /\ cam.open
    BY <1>2, CamType
  <2>3. thr /= None
    BY <2>2 DEF IInv, ThrInv
  <2>4. que' \in Seq({"poll", "exit"}) /\ Len(que') <= QItems
    BY <1>2, <2>3, PostedType DEF IInv, ThrInv, CameraEnd
  <2>5. thr' = thr /\ cur' = cur /\ hasPool' = hasPool
    BY <1>2 DEF CameraEnd
  <2>6. frameId' \in 0 .. MaxFrames
    BY <1>2, VideoAssumption DEF IInv, TypeOK, TransferTypeOK, CameraEnd
  <2> QED
    BY <2>1, <2>2, <2>4, <2>5, <2>6 DEF IInv, TypeOK, TransferTypeOK
<1>3. CASE ThreadStart /\ UNCHANGED <<vbuf, mem, rd, ctl>>
  <2>1. elem' \in [Elems -> Packet] /\ 0 \in 0 .. MaxFrames /\ 0 \in 0 .. MaxPkts
    BY <1>3, NoPacketType, VideoAssumption DEF ThreadStart
  <2>2. free' \in Seq(Elems) /\ ready' \in Seq(Elems)
    BY <1>3, ElemOrderType DEF ThreadStart
  <2>3. cam' \in [open : BOOLEAN, got : 0 .. MaxPkts, full : BOOLEAN]
    BY <1>3, <2>1 DEF ThreadStart
  <2> QED
    BY <1>3, <2>1, <2>2, <2>3 DEF IInv, TypeOK, TransferTypeOK, ThreadStart, ThrPc
<1>4. CASE ThreadPop /\ UNCHANGED <<vbuf, mem, rd, ctl>>
  BY <1>4, VideoAssumption
  DEF IInv, TypeOK, TransferTypeOK, ThrInv, ThrPc, SendPc, tvars, pool, ThreadPop
<1>5. CASE PollEnd /\ UNCHANGED <<vbuf, mem, rd, ctl>>
  BY <1>5, VideoAssumption
  DEF IInv, TypeOK, TransferTypeOK, ThrInv, ThrPc, SendPc, tvars, pool, PollEnd
<1>6. CASE PollPop /\ UNCHANGED <<vbuf, mem, rd, ctl>>
  <2>1. ready \in Seq(Elems) /\ ready /= <<>>
    BY <1>6, VideoAssumption
    DEF IInv, TypeOK, TransferTypeOK, PoolConserved, SendPc, ThrPc, PollPop
  <2> QED
    BY <1>6, <2>1 DEF IInv, TypeOK, TransferTypeOK, PollPop, ThrPc
<1>7. CASE PollGive /\ UNCHANGED <<vbuf, mem, rd, ctl>>
  <2>1. cur \in Elems
    BY <1>7 DEF IInv, ThrInv, PollGive
  <2> QED
    BY <1>7, <2>1, NoPacketType
    DEF IInv, TypeOK, TransferTypeOK, PollGive, ThrPc, SendPc
<1>8. CASE ExitPool /\ UNCHANGED <<vbuf, mem, rd, ctl>>
  BY <1>8, VideoAssumption
  DEF IInv, TypeOK, TransferTypeOK, ThrInv, ThrPc, SendPc, tvars, pool, ExitPool
<1>9. CASE ExitCamera /\ UNCHANGED <<vbuf, mem, rd, ctl>>
  <2>1. cam' \in [open : BOOLEAN, got : 0 .. MaxPkts, full : BOOLEAN]
    BY <1>9, VideoAssumption DEF ExitCamera
  <2> QED
    BY <1>9, <2>1 DEF IInv, TypeOK, TransferTypeOK, ExitCamera, ThrPc, pool
<1>10. CASE ExitQueue /\ UNCHANGED <<vbuf, mem, rd, ctl>>
  BY <1>10, VideoAssumption
  DEF IInv, TypeOK, TransferTypeOK, ThrInv, ThrPc, SendPc, tvars, pool, ExitQueue
<1>11. CASE RecvCall
  BY <1>11, VideoAssumption
  DEF IInv, TypeOK, TransferTypeOK, ThrInv, ThrPc, SendPc, tvars, pool, RecvCall
<1>12. CASE RecvSof
  BY <1>12, VideoAssumption
  DEF IInv, TypeOK, TransferTypeOK, ThrInv, ThrPc, SendPc, tvars, pool, RecvSof, Goto
<1>13. CASE RecvMatch
  BY <1>13, VideoAssumption
  DEF IInv, TypeOK, TransferTypeOK, ThrInv, ThrPc, SendPc, tvars, pool, RecvMatch, Goto
<1>14. CASE RecvCopy
  BY <1>14, VideoAssumption
  DEF IInv, TypeOK, TransferTypeOK, ThrInv, ThrPc, SendPc, tvars, pool, RecvCopy, Goto
<1>15. CASE RecvUpdate
  BY <1>15, VideoAssumption
  DEF IInv, TypeOK, TransferTypeOK, ThrInv, ThrPc, SendPc, tvars, pool, RecvUpdate, Goto
<1>16. CASE RecvCheck
  BY <1>16 DEF IInv, TypeOK, TransferTypeOK, ThrPc, SendPc, Goto, pool, RecvCheck
<1>17. ASSUME NEW b \in Bufs, NEW l \in BufLens, NEW low \in Lows,
             ReadFrame(b, l, low)
      PROVE  TransferTypeOK'
  BY <1>17, VideoAssumption
  DEF IInv, TypeOK, TransferTypeOK, ThrInv, ThrPc, SendPc, tvars, pool, ReadFrame
<1>18. CASE ReadDrain
  BY <1>18, VideoAssumption
  DEF IInv, TypeOK, TransferTypeOK, ThrInv, ThrPc, SendPc, tvars, pool, ReadDrain
<1>19. CASE ReadSet
  BY <1>19, VideoAssumption
  DEF IInv, TypeOK, TransferTypeOK, ThrInv, ThrPc, SendPc, tvars, pool, ReadSet
<1>20. CASE ReadWoken
  BY <1>20, VideoAssumption
  DEF IInv, TypeOK, TransferTypeOK, ThrInv, ThrPc, SendPc, tvars, pool, ReadWoken
<1>21. CASE ReadLen
  BY <1>21, VideoAssumption
  DEF IInv, TypeOK, TransferTypeOK, ThrInv, ThrPc, SendPc, tvars, pool, ReadLen
<1>22. CASE ReadClear
  BY <1>22, VideoAssumption
  DEF IInv, TypeOK, TransferTypeOK, ThrInv, ThrPc, SendPc, tvars, pool, ReadClear
<1>23. CASE ReadLost
  BY <1>23, VideoAssumption
  DEF IInv, TypeOK, TransferTypeOK, ThrInv, ThrPc, SendPc, tvars, pool, ReadLost
<1>24. CASE OpenVideo
  BY <1>24, VideoAssumption
  DEF IInv, TypeOK, TransferTypeOK, ThrInv, ThrPc, SendPc, tvars, pool, OpenVideo,
      ResetVbuf, video_transfer_init
<1>25. CASE CloseVideo
  <2>1. que' = None \/ (que' \in Seq({"poll", "exit"}) /\ Len(que') <= QItems)
    BY <1>25, PostedType
    DEF CloseVideo, video_transfer_deinit, IInv, TypeOK, TransferTypeOK, Posted
  <2> QED
    BY <1>25, <2>1
    DEF IInv, TypeOK, TransferTypeOK, CloseVideo, video_transfer_deinit, pool
<1>26. CASE CloseWake
  BY <1>26, VideoAssumption
  DEF IInv, TypeOK, TransferTypeOK, ThrInv, ThrPc, SendPc, tvars, pool, CloseWake
<1>27. CASE CloseSpin
  BY <1>27, VideoAssumption
  DEF IInv, TypeOK, TransferTypeOK, ThrInv, ThrPc, SendPc, tvars, pool, CloseSpin
<1>28. CASE CloseStuck
  BY <1>28, VideoAssumption
  DEF IInv, TypeOK, TransferTypeOK, ThrInv, ThrPc, SendPc, tvars, pool, CloseStuck
<1>29. CASE CloseFree
  BY <1>29, VideoAssumption
  DEF IInv, TypeOK, TransferTypeOK, ThrInv, ThrPc, SendPc, tvars, pool, CloseFree,
      ResetVbuf
<1>30. CASE UNCHANGED vars
  BY <1>30, VideoAssumption
  DEF IInv, TypeOK, TransferTypeOK, ThrInv, ThrPc, SendPc, tvars, pool, vars
<1>31. CASE RecvSignal
  BY <1>31 DEF IInv, TypeOK, TransferTypeOK, ThrPc, SendPc, Goto, pool, RecvSignal
<1> QED
  BY <1>1, <1>2, <1>3, <1>4, <1>5, <1>6, <1>7, <1>8, <1>9, <1>10, <1>11, <1>12,
      <1>13, <1>14, <1>15, <1>16, <1>17, <1>18, <1>19, <1>20, <1>21, <1>22, <1>23,
          <1>24, <1>25, <1>26, <1>27, <1>28, <1>29, <1>30, <1>31
  DEF Next, Camera, Thread, Transfer, Receive, Reader, Closer

\* TypeOK for the variables of g_vbuf and the buffers.
VbufTypeOK ==
    /\ open \in BOOLEAN /\ sem \in {0, 1}
    /\ bufBase \in Bufs \cup {None} /\ bufLen \in BufLens \cup {0}
    /\ frmId \in 0 .. MaxFrames \cup {None}
    /\ pktCnt \in 0 .. SeqMod - 1 /\ frameLen \in 0 .. SeqMod - 1
    /\ startBuf \in {"DONE", "COPY", "FULL"}
    /\ bufPtr \in [buf : Bufs \cup {None}, off : 0 .. SeqMod - 1]
    /\ mem \in [Bufs -> [0 .. MaxLen - 1 -> Data \cup {None}]]
    /\ returned \in BOOLEAN

\* TypeOK for the reader and the closer.
RdTypeOK ==
    /\ rd \in [pc : RdPc, buf : Bufs \cup {None}, len : BufLens \cup {0},
               low : BOOLEAN, late : BOOLEAN]
    /\ ctl \in CtlPc

\* TypeOK by components.
LEMMA TypeSplit == TypeOK <=> TransferTypeOK /\ VbufTypeOK /\ RdTypeOK
  BY DEF TypeOK, VbufTypeOK, RdTypeOK

\* A blank buffer is a buffer.
LEMMA BlankType == Blank \in [0 .. MaxLen - 1 -> Data \cup {None}]
  BY DEF Blank

\* The packet in the hand of the send function is a packet.
LEMMA PktType == ASSUME IInv, thr \in SendPc PROVE Pkt \in Packet
  BY DEF IInv, ThrInv, TypeOK, TransferTypeOK, Pkt

\* A g_vbuf that is reset has its type.
LEMMA ResetType ==
    ASSUME ResetVbuf, open' \in BOOLEAN,
           mem' \in [Bufs -> [0 .. MaxLen - 1 -> Data \cup {None}]]
    PROVE  VbufTypeOK'
<1>1. 0 \in 0 .. SeqMod - 1
  BY VideoAssumption
<1>2. bufPtr' \in [buf : Bufs \cup {None}, off : 0 .. SeqMod - 1]
  BY <1>1 DEF ResetVbuf
<1> QED BY <1>1, <1>2 DEF ResetVbuf, VbufTypeOK

\* VbufTypeOK is kept.
LEMMA VbufStep ==
    ASSUME IInv, [Next]_vars
    PROVE  VbufTypeOK'
<1>1. ASSUME NEW last \in BOOLEAN, CameraNode(last) /\ UNCHANGED <<vbuf, mem, rd, ctl>>
      PROVE  VbufTypeOK'
  BY <1>1, TypeSplit, VideoAssumption
  DEF IInv, VbufTypeOK, tvars, vbuf, CameraNode, RxHandler, Posted
<1>2. CASE CameraEnd /\ UNCHANGED <<vbuf, mem, rd, ctl>>
  BY <1>2, TypeSplit, VideoAssumption
  DEF IInv, VbufTypeOK, tvars, vbuf, CameraEnd, RxHandler, Posted
<1>3. CASE ThreadStart /\ UNCHANGED <<vbuf, mem, rd, ctl>>
  BY <1>3, TypeSplit, VideoAssumption DEF IInv, VbufTypeOK, tvars, vbuf, ThreadStart
<1>4. CASE ThreadPop /\ UNCHANGED <<vbuf, mem, rd, ctl>>
  BY <1>4, TypeSplit, VideoAssumption DEF IInv, VbufTypeOK, tvars, vbuf, ThreadPop
<1>5. CASE PollEnd /\ UNCHANGED <<vbuf, mem, rd, ctl>>
  BY <1>5, TypeSplit, VideoAssumption DEF IInv, VbufTypeOK, tvars, vbuf, PollEnd
<1>6. CASE PollPop /\ UNCHANGED <<vbuf, mem, rd, ctl>>
  BY <1>6, TypeSplit, VideoAssumption DEF IInv, VbufTypeOK, tvars, vbuf, PollPop
<1>7. CASE PollGive /\ UNCHANGED <<vbuf, mem, rd, ctl>>
  BY <1>7, TypeSplit, VideoAssumption DEF IInv, VbufTypeOK, tvars, vbuf, PollGive
<1>8. CASE ExitPool /\ UNCHANGED <<vbuf, mem, rd, ctl>>
  BY <1>8, TypeSplit, VideoAssumption DEF IInv, VbufTypeOK, tvars, vbuf, ExitPool
<1>9. CASE ExitCamera /\ UNCHANGED <<vbuf, mem, rd, ctl>>
  BY <1>9, TypeSplit, VideoAssumption DEF IInv, VbufTypeOK, tvars, vbuf, ExitCamera
<1>10. CASE ExitQueue /\ UNCHANGED <<vbuf, mem, rd, ctl>>
  BY <1>10, TypeSplit, VideoAssumption DEF IInv, VbufTypeOK, tvars, vbuf, ExitQueue
<1>11. CASE RecvCall
  BY <1>11, TypeSplit, VideoAssumption DEF IInv, VbufTypeOK, tvars, vbuf, RecvCall
<1>12. CASE RecvSof
  <2>1. Pkt.id \in 0 .. MaxFrames /\ 0 \in 0 .. SeqMod - 1
    BY <1>12, PktType, VideoAssumption DEF RecvSof, SendPc, Packet
  <2>2. returned' \in BOOLEAN
    <3>1. CASE Pkt.id /= frmId /\ Pkt.seq = 1
      BY <1>12, <3>1 DEF RecvSof
    <3>2. CASE ~(Pkt.id /= frmId /\ Pkt.seq = 1)
      BY <1>12, <3>2, TypeSplit DEF IInv, VbufTypeOK, RecvSof
    <3> QED BY <3>1, <3>2
  <2>3. bufPtr' \in [buf : Bufs \cup {None}, off : 0 .. SeqMod - 1]
    BY <1>12, <2>1, TypeSplit DEF IInv, VbufTypeOK, RecvSof
  <2> QED
    BY <1>12, <2>1, <2>2, <2>3, TypeSplit DEF IInv, VbufTypeOK, RecvSof, Goto
<1>13. CASE RecvMatch
  BY <1>13, TypeSplit DEF IInv, VbufTypeOK, RecvMatch, Goto
<1>14. CASE RecvCopy
  <2>1. Pkt.id \in 0 .. MaxFrames /\ Pkt.i \in 1 .. MaxPkts /\ Pkt.n \in 0 .. MaxPkts
    BY <1>14, PktType DEF RecvCopy, SendPc, Packet
  <2>2. [id |-> Pkt.id, i |-> Pkt.i, n |-> Pkt.n] \in Data \cup {None}
    BY <2>1 DEF Data
  <2>3. VbufTypeOK
    BY TypeSplit DEF IInv
  <2>4. mem' \in [Bufs -> [0 .. MaxLen - 1 -> Data \cup {None}]]
    <3>1. CASE bufPtr.buf /= None /\ bufPtr.off < MaxLen
      <4>1. bufPtr.buf \in Bufs /\ bufPtr.off \in 0 .. MaxLen - 1
        BY <3>1, <2>3, VideoAssumption, BufAssumption DEF VbufTypeOK
      <4>2. mem \in [Bufs -> [0 .. MaxLen - 1 -> Data \cup {None}]]
        BY <2>3 DEF VbufTypeOK
      <4>3. mem' = [mem EXCEPT ![bufPtr.buf][bufPtr.off] =
                       [id |-> Pkt.id, i |-> Pkt.i, n |-> Pkt.n]]
        BY <1>14, <3>1 DEF RecvCopy
      <4> QED BY <4>1, <4>2, <4>3, <2>2
    <3>2. CASE ~(bufPtr.buf /= None /\ bufPtr.off < MaxLen)
      BY <1>14, <3>2, <2>3 DEF RecvCopy, VbufTypeOK
    <3> QED BY <3>1, <3>2
  <2> QED
    BY <1>14, <2>3, <2>4 DEF VbufTypeOK, RecvCopy, Goto, vbuf
<1>15. CASE RecvUpdate
  <2>1. Pkt.seq \in 0 .. SeqMod - 1 /\ pktCnt + 1 = Pkt.seq /\ pktCnt = frameLen /\ bufPtr.off = frameLen
    BY <1>15, PktType DEF RecvUpdate, SendPc, Packet, IInv, PosInv
  <2>2. VbufTypeOK
    BY TypeSplit DEF IInv
  <2>3. bufPtr' = [buf |-> bufPtr.buf,
      off |-> bufPtr.off + 1] /\ bufPtr.buf \in Bufs \cup {None}
    BY <1>15, <2>2 DEF VbufTypeOK, RecvUpdate
  <2>4. bufPtr' \in [buf : Bufs \cup {None}, off : 0 .. SeqMod - 1]
    BY <2>1, <2>3
  <2>5. pktCnt' \in 0 .. SeqMod - 1 /\ frameLen' \in 0 .. SeqMod - 1
    BY <1>15, <2>1 DEF RecvUpdate
  <2> QED
    BY <1>15, <2>2, <2>4, <2>5 DEF VbufTypeOK, RecvUpdate
<1>16. CASE RecvCheck
  BY <1>16, TypeSplit DEF IInv, VbufTypeOK, RecvCheck, Goto
<1>17. ASSUME NEW b \in Bufs, NEW l \in BufLens, NEW low \in Lows,
             ReadFrame(b, l, low)
      PROVE  VbufTypeOK'
  BY <1>17, TypeSplit, BlankType DEF IInv, VbufTypeOK, ReadFrame, vbuf
<1>18. CASE ReadDrain
  BY <1>18, TypeSplit, VideoAssumption DEF IInv, VbufTypeOK, tvars, vbuf, ReadDrain
<1>19. CASE ReadSet
  BY <1>19, TypeSplit DEF IInv, VbufTypeOK, RdInv, ReadSet
<1>20. CASE ReadWoken
  BY <1>20, TypeSplit, VideoAssumption DEF IInv, VbufTypeOK, tvars, vbuf, ReadWoken
<1>21. CASE ReadLen
  BY <1>21, TypeSplit, VideoAssumption DEF IInv, VbufTypeOK, tvars, vbuf, ReadLen
<1>22. CASE ReadClear
  <2>1. rd.buf \in Bufs
    BY <1>22 DEF IInv, RdInv, ReadClear
  <2>2. mem' \in [Bufs -> [0 .. MaxLen - 1 -> Data \cup {None}]]
    BY <1>22, <2>1, TypeSplit, BlankType DEF IInv, VbufTypeOK, ReadClear
  <2> QED
    BY <1>22, <2>2, TypeSplit DEF IInv, VbufTypeOK, ReadClear
<1>23. CASE ReadLost
  BY <1>23, TypeSplit, VideoAssumption DEF IInv, VbufTypeOK, tvars, vbuf, ReadLost
<1>24. CASE OpenVideo
  BY <1>24, TypeSplit, ResetType DEF IInv, VbufTypeOK, OpenVideo
<1>25. CASE CloseVideo
  BY <1>25, TypeSplit, VideoAssumption
  DEF IInv, VbufTypeOK, tvars, vbuf, CloseVideo, video_transfer_deinit, Posted
<1>26. CASE CloseWake
  BY <1>26, TypeSplit, VideoAssumption DEF IInv, VbufTypeOK, tvars, vbuf, CloseWake
<1>27. CASE CloseSpin
  BY <1>27, TypeSplit, VideoAssumption DEF IInv, VbufTypeOK, tvars, vbuf, CloseSpin
<1>28. CASE CloseStuck
  BY <1>28, TypeSplit, VideoAssumption DEF IInv, VbufTypeOK, tvars, vbuf, CloseStuck
<1>29. CASE CloseFree
  BY <1>29, TypeSplit, ResetType DEF IInv, VbufTypeOK, CloseFree
<1>30. CASE UNCHANGED vars
  BY <1>30, TypeSplit, VideoAssumption DEF IInv, VbufTypeOK, tvars, vbuf, vars
<1>31. CASE RecvSignal
  BY <1>31, TypeSplit DEF IInv, VbufTypeOK, RecvSignal, Goto
<1> QED
  BY <1>1, <1>2, <1>3, <1>4, <1>5, <1>6, <1>7, <1>8, <1>9, <1>10, <1>11, <1>12,
      <1>13, <1>14, <1>15, <1>16, <1>17, <1>18, <1>19, <1>20, <1>21, <1>22, <1>23,
          <1>24, <1>25, <1>26, <1>27, <1>28, <1>29, <1>30, <1>31
  DEF Next, Camera, Thread, Transfer, Receive, Reader, Closer

\* RdTypeOK is kept.
LEMMA RdTypeStep ==
    ASSUME IInv, [Next]_vars
    PROVE  RdTypeOK'
<1>1. ASSUME NEW last \in BOOLEAN, CameraNode(last) /\ UNCHANGED <<vbuf, mem, rd, ctl>>
      PROVE  RdTypeOK'
  BY <1>1, TypeSplit
  DEF IInv, RdTypeOK, RdPc, CtlPc, vars, CameraNode, RxHandler, Posted
<1>2. CASE CameraEnd /\ UNCHANGED <<vbuf, mem, rd, ctl>>
  BY <1>2, TypeSplit DEF IInv, RdTypeOK, RdPc, CtlPc, vars, CameraEnd, RxHandler, Posted
<1>3. CASE ThreadStart /\ UNCHANGED <<vbuf, mem, rd, ctl>>
  BY <1>3, TypeSplit DEF IInv, RdTypeOK, RdPc, CtlPc, vars, ThreadStart
<1>4. CASE ThreadPop /\ UNCHANGED <<vbuf, mem, rd, ctl>>
  BY <1>4, TypeSplit DEF IInv, RdTypeOK, RdPc, CtlPc, vars, ThreadPop
<1>5. CASE PollEnd /\ UNCHANGED <<vbuf, mem, rd, ctl>>
  BY <1>5, TypeSplit DEF IInv, RdTypeOK, RdPc, CtlPc, vars, PollEnd
<1>6. CASE PollPop /\ UNCHANGED <<vbuf, mem, rd, ctl>>
  BY <1>6, TypeSplit DEF IInv, RdTypeOK, RdPc, CtlPc, vars, PollPop
<1>7. CASE PollGive /\ UNCHANGED <<vbuf, mem, rd, ctl>>
  BY <1>7, TypeSplit DEF IInv, RdTypeOK, RdPc, CtlPc, vars, PollGive
<1>8. CASE ExitPool /\ UNCHANGED <<vbuf, mem, rd, ctl>>
  BY <1>8, TypeSplit DEF IInv, RdTypeOK, RdPc, CtlPc, vars, ExitPool
<1>9. CASE ExitCamera /\ UNCHANGED <<vbuf, mem, rd, ctl>>
  BY <1>9, TypeSplit DEF IInv, RdTypeOK, RdPc, CtlPc, vars, ExitCamera
<1>10. CASE ExitQueue /\ UNCHANGED <<vbuf, mem, rd, ctl>>
  BY <1>10, TypeSplit DEF IInv, RdTypeOK, RdPc, CtlPc, vars, ExitQueue
<1>11. CASE RecvCall
  BY <1>11, TypeSplit DEF IInv, RdTypeOK, RdPc, CtlPc, vars, RecvCall
<1>12. CASE RecvSof
  BY <1>12, TypeSplit DEF IInv, RdTypeOK, RdPc, CtlPc, vars, RecvSof, Goto
<1>13. CASE RecvMatch
  BY <1>13, TypeSplit DEF IInv, RdTypeOK, RdPc, CtlPc, vars, RecvMatch, Goto
<1>14. CASE RecvCopy
  BY <1>14, TypeSplit DEF IInv, RdTypeOK, RdPc, CtlPc, vars, RecvCopy, Goto
<1>15. CASE RecvUpdate
  BY <1>15, TypeSplit DEF IInv, RdTypeOK, RdPc, CtlPc, vars, RecvUpdate, Goto
<1>16. CASE RecvCheck
  BY <1>16, TypeSplit DEF IInv, RdTypeOK, RdPc, CtlPc, vars, RecvCheck, Goto
<1>17. ASSUME NEW b \in Bufs, NEW l \in BufLens, NEW low \in Lows,
             ReadFrame(b, l, low)
      PROVE  RdTypeOK'
  <2>1. low \in BOOLEAN
    BY BufAssumption
  <2> QED
    BY <1>17, <2>1, TypeSplit DEF IInv, RdTypeOK, RdPc, CtlPc, ReadFrame
<1>18. CASE ReadDrain
  <2>1. /\ rd' = [pc |-> "set", buf |-> rd.buf, len |-> rd.len, low |-> rd.low,
                 late |-> rd.late]
        /\ ctl' = ctl
    BY <1>18, TypeSplit DEF IInv, RdTypeOK, ReadDrain
  <2>2. /\ rd.buf \in Bufs \cup {None} /\ rd.len \in BufLens \cup {0} /\ ctl \in CtlPc
        /\ rd.low \in BOOLEAN /\ rd.late \in BOOLEAN
    BY TypeSplit DEF IInv, RdTypeOK
  <2> QED
    BY <2>1, <2>2 DEF RdTypeOK, RdPc
<1>19. CASE ReadSet
  <2>1. /\ rd' = [pc |-> "wait", buf |-> rd.buf, len |-> rd.len, low |-> rd.low,
                 late |-> (ctl = "free")]
        /\ ctl' = ctl
    BY <1>19, TypeSplit DEF IInv, RdTypeOK, ReadSet
  <2>2. /\ rd.buf \in Bufs \cup {None} /\ rd.len \in BufLens \cup {0} /\ ctl \in CtlPc
        /\ rd.low \in BOOLEAN /\ rd.late \in BOOLEAN
    BY TypeSplit DEF IInv, RdTypeOK
  <2> QED
    BY <2>1, <2>2 DEF RdTypeOK, RdPc
<1>20. CASE ReadWoken
  <2>1. /\ rd' = [pc |-> "len", buf |-> rd.buf, len |-> rd.len, low |-> rd.low,
                 late |-> rd.late]
        /\ ctl' = ctl
    BY <1>20, TypeSplit DEF IInv, RdTypeOK, ReadWoken
  <2>2. /\ rd.buf \in Bufs \cup {None} /\ rd.len \in BufLens \cup {0} /\ ctl \in CtlPc
        /\ rd.low \in BOOLEAN /\ rd.late \in BOOLEAN
    BY TypeSplit DEF IInv, RdTypeOK
  <2> QED
    BY <2>1, <2>2 DEF RdTypeOK, RdPc
<1>21. CASE ReadLen
  <2>1. /\ rd' = [pc |-> "clear", buf |-> rd.buf, len |-> rd.len, low |-> rd.low,
                 late |-> rd.late]
        /\ ctl' = ctl
    BY <1>21, TypeSplit DEF IInv, RdTypeOK, ReadLen
  <2>2. /\ rd.buf \in Bufs \cup {None} /\ rd.len \in BufLens \cup {0} /\ ctl \in CtlPc
        /\ rd.low \in BOOLEAN /\ rd.late \in BOOLEAN
    BY TypeSplit DEF IInv, RdTypeOK
  <2> QED
    BY <2>1, <2>2 DEF RdTypeOK, RdPc
<1>22. CASE ReadClear
  <2>1. /\ rd' = [pc |-> "idle", buf |-> None, len |-> 0, low |-> FALSE, late |-> FALSE]
        /\ ctl' = ctl
    BY <1>22, TypeSplit DEF IInv, RdTypeOK, ReadClear
  <2> QED
    BY <2>1, TypeSplit DEF IInv, RdTypeOK, RdPc
<1>23. CASE ReadLost
  <2>1. /\ rd' = [pc |-> "lost", buf |-> rd.buf, len |-> rd.len, low |-> rd.low,
                 late |-> rd.late]
        /\ ctl' = ctl
    BY <1>23, TypeSplit DEF IInv, RdTypeOK, ReadLost
  <2>2. /\ rd.buf \in Bufs \cup {None} /\ rd.len \in BufLens \cup {0} /\ ctl \in CtlPc
        /\ rd.low \in BOOLEAN /\ rd.late \in BOOLEAN
    BY TypeSplit DEF IInv, RdTypeOK
  <2> QED
    BY <2>1, <2>2 DEF RdTypeOK, RdPc
<1>24. CASE OpenVideo
  BY <1>24, TypeSplit
  DEF IInv, RdTypeOK, RdPc, CtlPc, vars, OpenVideo, ResetVbuf, video_transfer_init
<1>25. CASE CloseVideo
  BY <1>25, TypeSplit
  DEF IInv, RdTypeOK, RdPc, CtlPc, vars, CloseVideo, video_transfer_deinit, Posted
<1>26. CASE CloseWake
  BY <1>26, TypeSplit DEF IInv, RdTypeOK, RdPc, CtlPc, vars, CloseWake
<1>27. CASE CloseSpin
  BY <1>27, TypeSplit DEF IInv, RdTypeOK, RdPc, CtlPc, vars, CloseSpin
<1>28. CASE CloseStuck
  BY <1>28, TypeSplit DEF IInv, RdTypeOK, RdPc, CtlPc, vars, CloseStuck
<1>29. CASE CloseFree
  <2>1. /\ rd' = [pc |-> IF rd.pc = "wait" THEN "lost" ELSE rd.pc, buf |-> rd.buf,
                 len |-> rd.len, low |-> rd.low, late |-> rd.late]
        /\ ctl' = "idle"
    BY <1>29, TypeSplit DEF IInv, RdTypeOK, CloseFree
  <2>2. /\ rd.buf \in Bufs \cup {None} /\ rd.len \in BufLens \cup {0} /\ rd.pc \in RdPc
        /\ rd.low \in BOOLEAN /\ rd.late \in BOOLEAN
    BY TypeSplit DEF IInv, RdTypeOK
  <2>3. (IF rd.pc = "wait" THEN "lost" ELSE rd.pc) \in RdPc
    BY <2>2 DEF RdPc
  <2> QED
    BY <2>1, <2>2, <2>3 DEF RdTypeOK, CtlPc
<1>30. CASE UNCHANGED vars
  BY <1>30, TypeSplit DEF IInv, RdTypeOK, RdPc, CtlPc, vars, vars
<1>31. CASE RecvSignal
  BY <1>31, TypeSplit DEF IInv, RdTypeOK, RdPc, CtlPc, vars, RecvSignal, Goto
<1> QED
  BY <1>1, <1>2, <1>3, <1>4, <1>5, <1>6, <1>7, <1>8, <1>9, <1>10, <1>11, <1>12,
      <1>13, <1>14, <1>15, <1>16, <1>17, <1>18, <1>19, <1>20, <1>21, <1>22, <1>23,
          <1>24, <1>25, <1>26, <1>27, <1>28, <1>29, <1>30, <1>31
  DEF Next, Camera, Thread, Transfer, Receive, Reader, Closer

\* What taking the head off a list without duplicates leaves.
LEMMA TailFacts ==
    ASSUME NEW S, NEW s \in Seq(S), s /= <<>>, IsInjective(s)
    PROVE  /\ Tail(s) \in Seq(S) /\ IsInjective(Tail(s))
           /\ Range(Tail(s)) = Range(s) \ {Head(s)}
           /\ Head(s) \in Range(s)
           /\ Len(Tail(s)) = Len(s) - 1
           /\ \A k \in 1 .. Len(s) - 1 : Tail(s)[k] = s[k + 1]
<1>1. /\ DOMAIN s = 1 .. Len(s) /\ Len(s) \in Nat /\ Len(s) > 0 /\ Head(s) = s[1]
      /\ Tail(s) \in Seq(S) /\ Len(Tail(s)) = Len(s) - 1 /\ DOMAIN Tail(s) = 1 .. Len(s) - 1
      /\ \A k \in 1 .. Len(s) - 1 : Tail(s)[k] = s[k + 1]
  OBVIOUS
<1>2. IsInjective(Tail(s))
  BY <1>1 DEF IsInjective
<1>3. Range(Tail(s)) \subseteq Range(s) \ {Head(s)}
  <2> SUFFICES ASSUME NEW k \in 1 .. Len(s) - 1
               PROVE  Tail(s)[k] \in Range(s) \ {Head(s)}
    BY <1>1 DEF Range
  <2> QED BY <1>1 DEF Range, IsInjective
<1>4. Range(s) \ {Head(s)} \subseteq Range(Tail(s))
  <2> SUFFICES ASSUME NEW k \in 1 .. Len(s), k /= 1
               PROVE  s[k] \in Range(Tail(s))
    BY <1>1 DEF Range
  <2>1. k - 1 \in 1 .. Len(s) - 1 /\ Tail(s)[k - 1] = s[k]
    BY <1>1
  <2> QED BY <1>1, <2>1 DEF Range
<1>5. Head(s) \in Range(s)
  BY <1>1 DEF Range
<1>6. Range(Tail(s)) = Range(s) \ {Head(s)}
  BY <1>3, <1>4
<1> QED BY <1>1, <1>2, <1>5, <1>6

\* What a list without duplicates is after a new element.
LEMMA AppendFacts ==
    ASSUME NEW S, NEW s \in Seq(S), IsInjective(s), NEW e \in S, e \notin Range(s)
    PROVE  /\ Append(s, e) \in Seq(S) /\ IsInjective(Append(s, e))
           /\ Range(Append(s, e)) = Range(s) \cup {e}
           /\ s /= <<>> => Head(Append(s, e)) = Head(s)
           /\ Append(s, e) /= <<>>
           /\ Len(Append(s, e)) = Len(s) + 1
           /\ Append(s, e)[Len(s) + 1] = e
           /\ \A k \in 1 .. Len(s) : Append(s, e)[k] = s[k]
<1> DEFINE t == Append(s, e)
<1>1. /\ DOMAIN s = 1 .. Len(s) /\ Len(s) \in Nat
      /\ t \in Seq(S) /\ Len(t) = Len(s) + 1 /\ DOMAIN t = 1 .. Len(s) + 1
      /\ \A k \in 1 .. Len(s) : t[k] = s[k]
      /\ t[Len(s) + 1] = e
  OBVIOUS
<1>2. Range(t) = Range(s) \cup {e}
  <2>1. Range(t) \subseteq Range(s) \cup {e}
    <3> SUFFICES ASSUME NEW k \in 1 .. Len(s) + 1 PROVE t[k] \in Range(s) \cup {e}
      BY <1>1 DEF Range
    <3> QED BY <1>1 DEF Range
  <2>2. Range(s) \subseteq Range(t)
    <3> SUFFICES ASSUME NEW k \in 1 .. Len(s) PROVE s[k] \in Range(t)
      BY <1>1 DEF Range
    <3> QED BY <1>1 DEF Range
  <2>3. e \in Range(t)
    BY <1>1 DEF Range
  <2> QED BY <2>1, <2>2, <2>3
<1>3. IsInjective(t)
  <2> SUFFICES ASSUME NEW j \in 1 .. Len(s) + 1, NEW k \in 1 .. Len(s) + 1, t[j] = t[k]
               PROVE  j = k
    BY <1>1 DEF IsInjective
  <2>1. \A m \in 1 .. Len(s) : t[m] /= e
    BY <1>1 DEF Range
  <2> QED BY <1>1, <2>1 DEF IsInjective
<1>4. s /= <<>> => Head(t) = Head(s)
  BY <1>1
<1>5. t /= <<>>
  BY <1>1
<1> HIDE DEF t
<1>6. /\ t \in Seq(S) /\ IsInjective(t) /\ Range(t) = Range(s) \cup {e}
      /\ s /= <<>> => Head(t) = Head(s)
      /\ t /= <<>> /\ Len(t) = Len(s) + 1 /\ t[Len(s) + 1] = e
      /\ \A k \in 1 .. Len(s) : t[k] = s[k]
  BY <1>1, <1>2, <1>3, <1>4, <1>5
<1> QED BY <1>6 DEF t

\* The two lists share no element, hold none twice, and together hold U.
Apart(U) ==
    /\ IsInjective(free) /\ IsInjective(ready)
    /\ Range(free) \cap Range(ready) = {}
    /\ Range(free) \cup Range(ready) = U

\* The receive interrupt moves an element from one list to the other and
\* writes no other element than a free one.
LEMMA RxPool ==
    ASSUME TransferTypeOK, NEW U, Apart(U), NEW i, NEW n, NEW isEof, RxHandler(i, n,
        isEof)
    PROVE  /\ Apart(U)'
           /\ ready /= <<>> => ready' /= <<>> /\ Head(ready') = Head(ready)
           /\ \A e \in Elems \ Range(free) : elem'[e] = elem[e]
<1>1. CASE free = <<>>
  BY <1>1 DEF RxHandler, Apart
<1>2. CASE free /= <<>>
  <2>1. free' = Tail(free) /\ ready' = Append(ready, Head(free))
    BY <1>2 DEF RxHandler
  <2>2. free \in Seq(Elems) /\ ready \in Seq(Elems) /\ Head(free) \in Elems
    BY <1>2 DEF TransferTypeOK
  <2>3. IsInjective(free') /\ Range(free') = Range(free) \ {Head(free)} /\ Head(free) \in Range(free)
    BY <1>2, <2>1, <2>2, TailFacts DEF Apart
  <2>4. Head(free) \notin Range(ready)
    BY <2>3 DEF Apart
  <2>5. /\ IsInjective(ready') /\ Range(ready') = Range(ready) \cup {Head(free)}
        /\ ready /= <<>> => Head(ready') = Head(ready)
        /\ ready' /= <<>>
    BY <2>1, <2>2, <2>4, AppendFacts DEF Apart
  <2>6. Apart(U)'
    BY <2>3, <2>5 DEF Apart
  <2>7. \A e \in Elems \ Range(free) : elem'[e] = elem[e]
    BY <1>2, <2>2, <2>3 DEF RxHandler, TransferTypeOK
  <2> QED BY <2>5, <2>6, <2>7
<1> QED BY <1>1, <1>2

\* The elements that are on one of the lists.
PoolAll == IF thr = "give" THEN Elems \ {cur} ELSE Elems

\* PoolConserved in these terms.
LEMMA PoolSplit ==
    PoolConserved <=> (thr \notin {None, "start"} =>
        Apart(PoolAll) /\ (thr \in SendPc => ready /= <<>> /\ cur = Head(ready)))
  BY DEF PoolConserved, Apart, PoolAll

\* A camera interrupt keeps the pool, the head of the ready list and every
\* packet that is not free.
LEMMA CamPool ==
    ASSUME IInv, (\E last \in BOOLEAN : CameraNode(last)) \/ CameraEnd
    PROVE  /\ thr \notin {None, "start"} /\ Apart(PoolAll)
           /\ Apart(PoolAll)'
           /\ ready /= <<>> => ready' /= <<>> /\ Head(ready') = Head(ready)
           /\ \A e \in Elems \ Range(free) : elem'[e] = elem[e]
           /\ thr' = thr /\ cur' = cur
<1>1. TransferTypeOK /\ thr' = thr /\ cur' = cur
  BY DEF IInv, TypeOK, CameraNode, CameraEnd
<1>2. cam.open
  BY DEF CameraNode, CameraEnd
<1>3. thr \notin {None, "start"} /\ Apart(PoolAll)
  BY <1>2, PoolSplit DEF IInv, ThrInv
<1>4. PoolAll' = PoolAll
  BY <1>1 DEF PoolAll
<1>5. CASE UNCHANGED <<elem, pktSeq, free, ready>>
  BY <1>1, <1>3, <1>4, <1>5 DEF Apart
<1>6. ASSUME NEW i, NEW n, NEW isEof, RxHandler(i, n, isEof)
      PROVE  /\ Apart(PoolAll)'
             /\ ready /= <<>> => ready' /= <<>> /\ Head(ready') = Head(ready)
             /\ \A e \in Elems \ Range(free) : elem'[e] = elem[e]
  <2> DEFINE U == PoolAll
  <2>1. Apart(U)
    BY <1>3
  <2> HIDE DEF U
  <2>2. /\ IsInjective(free') /\ IsInjective(ready')
        /\ Range(free') \cap Range(ready') = {}
        /\ Range(free') \cup Range(ready') = U
        /\ ready /= <<>> => ready' /= <<>> /\ Head(ready') = Head(ready)
        /\ \A e \in Elems \ Range(free) : elem'[e] = elem[e]
    BY <1>1, <1>6, <2>1, RxPool DEF Apart
  <2> QED BY <2>2, <1>4 DEF Apart, U
<1>7. UNCHANGED <<elem, pktSeq, free, ready>> \/ \E i, n, isEof : RxHandler(i, n, isEof)
  BY DEF CameraNode, CameraEnd
<1> QED BY <1>1, <1>3, <1>5, <1>6, <1>7

\* PoolConserved is kept.
LEMMA PoolStep ==
    ASSUME IInv, [Next]_vars
    PROVE  PoolConserved'
<1>1. ASSUME NEW last \in BOOLEAN, CameraNode(last) /\ UNCHANGED <<vbuf, mem, rd, ctl>>
      PROVE  PoolConserved'
  <2>1. Apart(PoolAll)' /\ (ready /= <<>> => ready' /= <<>> /\ Head(ready') = Head(ready))
        /\ thr' = thr /\ cur' = cur
    BY <1>1, CamPool
  <2>2. thr' \in SendPc => ready' /= <<>> /\ cur' = Head(ready')
    BY <2>1, PoolSplit, VideoAssumption DEF IInv, SendPc, ThrPc
  <2>3. (thr' \notin {None, "start"} =>
        Apart(PoolAll)' /\ (thr' \in SendPc => ready' /= <<>> /\ cur' = Head(ready')))
    BY <2>1, <2>2
  <2> QED BY <2>3, PoolSplit DEF PoolConserved, Apart, PoolAll
<1>2. CASE CameraEnd /\ UNCHANGED <<vbuf, mem, rd, ctl>>
  <2>1. Apart(PoolAll)' /\ (ready /= <<>> => ready' /= <<>> /\ Head(ready') = Head(ready))
        /\ thr' = thr /\ cur' = cur
    BY <1>2, CamPool
  <2>2. thr' \in SendPc => ready' /= <<>> /\ cur' = Head(ready')
    BY <2>1, PoolSplit, VideoAssumption DEF IInv, SendPc, ThrPc
  <2>3. (thr' \notin {None, "start"} =>
        Apart(PoolAll)' /\ (thr' \in SendPc => ready' /= <<>> /\ cur' = Head(ready')))
    BY <2>1, <2>2
  <2> QED BY <2>3, PoolSplit DEF PoolConserved, Apart, PoolAll
<1>3. CASE ThreadStart /\ UNCHANGED <<vbuf, mem, rd, ctl>>
  <2>1. free' = ElemOrder /\ ready' = <<>> /\ thr' = "wait"
    BY <1>3 DEF ThreadStart
  <2>2. Range(ready') = {} /\ IsInjective(ready')
    BY <2>1 DEF Range, IsInjective
  <2> QED BY <2>1, <2>2, ElemOrderType DEF PoolConserved, SendPc
<1>4. CASE ThreadPop /\ UNCHANGED <<vbuf, mem, rd, ctl>>
  BY <1>4, VideoAssumption
  DEF IInv, PoolConserved, ThrPc, SendPc, vars, tvars, pool, ThreadPop
<1>5. CASE PollEnd /\ UNCHANGED <<vbuf, mem, rd, ctl>>
  BY <1>5, VideoAssumption
  DEF IInv, PoolConserved, ThrPc, SendPc, vars, tvars, pool, PollEnd
<1>6. CASE PollPop /\ UNCHANGED <<vbuf, mem, rd, ctl>>
  <2>1. thr = "pop" /\ ready' = Tail(ready) /\ thr' = "give" /\ cur' = cur /\ free' = free
    BY <1>6 DEF PollPop
  <2>2. /\ IsInjective(free) /\ IsInjective(ready) /\ Range(free) \cap Range(ready) = {}
        /\ Range(free) \cup Range(ready) = Elems
        /\ ready /= <<>> /\ cur = Head(ready)
    BY <2>1, VideoAssumption DEF IInv, PoolConserved, SendPc, ThrPc
  <2>3. ready \in Seq(Elems)
    BY DEF IInv, TypeOK, TransferTypeOK
  <2>4. IsInjective(ready') /\ Range(ready') = Range(ready) \ {cur} /\ cur \in Range(ready)
    BY <2>1, <2>2, <2>3, TailFacts
  <2> QED BY <2>1, <2>2, <2>4 DEF PoolConserved, SendPc
<1>7. CASE PollGive /\ UNCHANGED <<vbuf, mem, rd, ctl>>
  <2>1. thr = "give" /\ free' = Append(free, cur) /\ thr' = "poll" /\ ready' = ready
    BY <1>7 DEF PollGive
  <2>2. /\ IsInjective(free) /\ IsInjective(ready) /\ Range(free) \cap Range(ready) = {}
        /\ Range(free) \cup Range(ready) = Elems \ {cur} /\ cur \in Elems
    BY <2>1, VideoAssumption DEF IInv, PoolConserved, ThrInv, ThrPc
  <2>3. free \in Seq(Elems)
    BY DEF IInv, TypeOK, TransferTypeOK
  <2>4. IsInjective(free') /\ Range(free') = Range(free) \cup {cur}
    BY <2>1, <2>2, <2>3, AppendFacts
  <2> QED BY <2>1, <2>2, <2>4 DEF PoolConserved, SendPc
<1>8. CASE ExitPool /\ UNCHANGED <<vbuf, mem, rd, ctl>>
  BY <1>8, VideoAssumption
  DEF IInv, PoolConserved, ThrPc, SendPc, vars, tvars, pool, ExitPool
<1>9. CASE ExitCamera /\ UNCHANGED <<vbuf, mem, rd, ctl>>
  BY <1>9, VideoAssumption
  DEF IInv, PoolConserved, ThrPc, SendPc, vars, tvars, pool, ExitCamera
<1>10. CASE ExitQueue /\ UNCHANGED <<vbuf, mem, rd, ctl>>
  BY <1>10, VideoAssumption
  DEF IInv, PoolConserved, ThrPc, SendPc, vars, tvars, pool, ExitQueue
<1>11. CASE RecvCall
  BY <1>11, VideoAssumption
  DEF IInv, PoolConserved, ThrPc, SendPc, vars, tvars, pool, RecvCall
<1>12. CASE RecvSof
  BY <1>12, VideoAssumption
  DEF IInv, PoolConserved, ThrPc, SendPc, vars, tvars, pool, RecvSof, Goto
<1>13. CASE RecvMatch
  BY <1>13, VideoAssumption
  DEF IInv, PoolConserved, ThrPc, SendPc, vars, tvars, pool, RecvMatch, Goto
<1>14. CASE RecvCopy
  BY <1>14, VideoAssumption
  DEF IInv, PoolConserved, ThrPc, SendPc, vars, tvars, pool, RecvCopy, Goto
<1>15. CASE RecvUpdate
  BY <1>15, VideoAssumption
  DEF IInv, PoolConserved, ThrPc, SendPc, vars, tvars, pool, RecvUpdate, Goto
<1>16. CASE RecvCheck
  BY <1>16, VideoAssumption
  DEF IInv, PoolConserved, ThrPc, SendPc, vars, tvars, pool, RecvCheck, Goto
<1>17. ASSUME NEW b \in Bufs, NEW l \in BufLens, NEW low \in Lows,
             ReadFrame(b, l, low)
      PROVE  PoolConserved'
  BY <1>17, VideoAssumption
  DEF IInv, PoolConserved, ThrPc, SendPc, vars, tvars, pool, ReadFrame
<1>18. CASE ReadDrain
  BY <1>18, VideoAssumption
  DEF IInv, PoolConserved, ThrPc, SendPc, vars, tvars, pool, ReadDrain
<1>19. CASE ReadSet
  BY <1>19, VideoAssumption
  DEF IInv, PoolConserved, ThrPc, SendPc, vars, tvars, pool, ReadSet
<1>20. CASE ReadWoken
  BY <1>20, VideoAssumption
  DEF IInv, PoolConserved, ThrPc, SendPc, vars, tvars, pool, ReadWoken
<1>21. CASE ReadLen
  BY <1>21, VideoAssumption
  DEF IInv, PoolConserved, ThrPc, SendPc, vars, tvars, pool, ReadLen
<1>22. CASE ReadClear
  BY <1>22, VideoAssumption
  DEF IInv, PoolConserved, ThrPc, SendPc, vars, tvars, pool, ReadClear
<1>23. CASE ReadLost
  BY <1>23, VideoAssumption
  DEF IInv, PoolConserved, ThrPc, SendPc, vars, tvars, pool, ReadLost
<1>24. CASE OpenVideo
  BY <1>24, VideoAssumption
  DEF IInv, PoolConserved, ThrPc, SendPc, vars, tvars, pool, OpenVideo, ResetVbuf,
      video_transfer_init
<1>25. CASE CloseVideo
  BY <1>25, VideoAssumption
  DEF IInv, PoolConserved, ThrPc, SendPc, vars, tvars, pool, CloseVideo,
      video_transfer_deinit, Posted
<1>26. CASE CloseWake
  BY <1>26, VideoAssumption
  DEF IInv, PoolConserved, ThrPc, SendPc, vars, tvars, pool, CloseWake
<1>27. CASE CloseSpin
  BY <1>27, VideoAssumption
  DEF IInv, PoolConserved, ThrPc, SendPc, vars, tvars, pool, CloseSpin
<1>28. CASE CloseStuck
  BY <1>28, VideoAssumption
  DEF IInv, PoolConserved, ThrPc, SendPc, vars, tvars, pool, CloseStuck
<1>29. CASE CloseFree
  BY <1>29, VideoAssumption
  DEF IInv, PoolConserved, ThrPc, SendPc, vars, tvars, pool, CloseFree, ResetVbuf
<1>30. CASE UNCHANGED vars
  BY <1>30, VideoAssumption
  DEF IInv, PoolConserved, ThrPc, SendPc, vars, tvars, pool, vars
<1>31. CASE RecvSignal
  BY <1>31, VideoAssumption
  DEF IInv, PoolConserved, ThrPc, SendPc, vars, tvars, pool, RecvSignal, Goto
<1> QED
  BY <1>1, <1>2, <1>3, <1>4, <1>5, <1>6, <1>7, <1>8, <1>9, <1>10, <1>11, <1>12,
      <1>13, <1>14, <1>15, <1>16, <1>17, <1>18, <1>19, <1>20, <1>21, <1>22, <1>23,
          <1>24, <1>25, <1>26, <1>27, <1>28, <1>29, <1>30, <1>31
  DEF Next, Camera, Thread, Transfer, Receive, Reader, Closer

\* PosInv is kept.
LEMMA PosStep ==
    ASSUME IInv, [Next]_vars
    PROVE  PosInv'
<1>1. ASSUME NEW last \in BOOLEAN, CameraNode(last) /\ UNCHANGED <<vbuf, mem, rd, ctl>>
      PROVE  PosInv'
  <2>1. /\ Apart(PoolAll) /\ thr \notin {None, "start"} /\ thr' = thr /\ cur' = cur
        /\ \A e \in Elems \ Range(free) : elem'[e] = elem[e]
    BY <1>1, CamPool
  <2>2. thr \in SendPc => elem'[cur] = elem[cur]
    <3> HAVE thr \in SendPc
    <3>1. ready /= <<>> /\ cur = Head(ready) /\ cur \in Elems /\ ready \in Seq(Elems)
      BY <2>1, PoolSplit DEF IInv, ThrInv, TypeOK, TransferTypeOK
    <3>2. cur \in Range(ready)
      BY <3>1, <2>1, TailFacts DEF Apart
    <3> QED BY <2>1, <3>1, <3>2 DEF Apart
  <2>3. UNCHANGED vbuf
    BY <1>1
  <2> QED BY <2>1, <2>2, <2>3 DEF IInv, PosInv, Pkt, vbuf, SendPc
<1>2. CASE CameraEnd /\ UNCHANGED <<vbuf, mem, rd, ctl>>
  <2>1. /\ Apart(PoolAll) /\ thr \notin {None, "start"} /\ thr' = thr /\ cur' = cur
        /\ \A e \in Elems \ Range(free) : elem'[e] = elem[e]
    BY <1>2, CamPool
  <2>2. thr \in SendPc => elem'[cur] = elem[cur]
    <3> HAVE thr \in SendPc
    <3>1. ready /= <<>> /\ cur = Head(ready) /\ cur \in Elems /\ ready \in Seq(Elems)
      BY <2>1, PoolSplit DEF IInv, ThrInv, TypeOK, TransferTypeOK
    <3>2. cur \in Range(ready)
      BY <3>1, <2>1, TailFacts DEF Apart
    <3> QED BY <2>1, <3>1, <3>2 DEF Apart
  <2>3. UNCHANGED vbuf
    BY <1>2
  <2> QED BY <2>1, <2>2, <2>3 DEF IInv, PosInv, Pkt, vbuf, SendPc
<1>3. CASE ThreadStart /\ UNCHANGED <<vbuf, mem, rd, ctl>>
  BY <1>3, VideoAssumption, BufAssumption
  DEF IInv, TypeOK, TransferTypeOK, PosInv, ThrInv, CtlInv, Pkt, ThrPc, SendPc,
      tvars, pool, vbuf, ThreadStart
<1>4. CASE ThreadPop /\ UNCHANGED <<vbuf, mem, rd, ctl>>
  BY <1>4, VideoAssumption, BufAssumption
  DEF IInv, TypeOK, TransferTypeOK, PosInv, ThrInv, CtlInv, Pkt, ThrPc, SendPc,
      tvars, pool, vbuf, ThreadPop
<1>5. CASE PollEnd /\ UNCHANGED <<vbuf, mem, rd, ctl>>
  BY <1>5, VideoAssumption, BufAssumption
  DEF IInv, TypeOK, TransferTypeOK, PosInv, ThrInv, CtlInv, Pkt, ThrPc, SendPc,
      tvars, pool, vbuf, PollEnd
<1>6. CASE PollPop /\ UNCHANGED <<vbuf, mem, rd, ctl>>
  BY <1>6, VideoAssumption, BufAssumption
  DEF IInv, TypeOK, TransferTypeOK, PosInv, ThrInv, CtlInv, Pkt, ThrPc, SendPc,
      tvars, pool, vbuf, PollPop
<1>7. CASE PollGive /\ UNCHANGED <<vbuf, mem, rd, ctl>>
  BY <1>7, VideoAssumption, BufAssumption
  DEF IInv, TypeOK, TransferTypeOK, PosInv, ThrInv, CtlInv, Pkt, ThrPc, SendPc,
      tvars, pool, vbuf, PollGive
<1>8. CASE ExitPool /\ UNCHANGED <<vbuf, mem, rd, ctl>>
  BY <1>8, VideoAssumption, BufAssumption
  DEF IInv, TypeOK, TransferTypeOK, PosInv, ThrInv, CtlInv, Pkt, ThrPc, SendPc,
      tvars, pool, vbuf, ExitPool
<1>9. CASE ExitCamera /\ UNCHANGED <<vbuf, mem, rd, ctl>>
  BY <1>9, VideoAssumption, BufAssumption
  DEF IInv, TypeOK, TransferTypeOK, PosInv, ThrInv, CtlInv, Pkt, ThrPc, SendPc,
      tvars, pool, vbuf, ExitCamera
<1>10. CASE ExitQueue /\ UNCHANGED <<vbuf, mem, rd, ctl>>
  BY <1>10, VideoAssumption, BufAssumption
  DEF IInv, TypeOK, TransferTypeOK, PosInv, ThrInv, CtlInv, Pkt, ThrPc, SendPc,
      tvars, pool, vbuf, ExitQueue
<1>11. CASE RecvCall
  BY <1>11, VideoAssumption, BufAssumption
  DEF IInv, TypeOK, TransferTypeOK, PosInv, ThrInv, CtlInv, Pkt, ThrPc, SendPc,
      tvars, pool, vbuf, RecvCall
<1>12. CASE RecvSof
  BY <1>12, VideoAssumption, BufAssumption
  DEF IInv, TypeOK, TransferTypeOK, PosInv, ThrInv, CtlInv, Pkt, ThrPc, SendPc,
      tvars, pool, vbuf, RecvSof, Goto
<1>13. CASE RecvMatch
  BY <1>13 DEF IInv, PosInv, Pkt, Expected, RecvMatch, Goto, pool
<1>14. CASE RecvCopy
  BY <1>14, VideoAssumption, BufAssumption
  DEF IInv, TypeOK, TransferTypeOK, PosInv, ThrInv, CtlInv, Pkt, ThrPc, SendPc,
      tvars, pool, vbuf, RecvCopy, Goto
<1>15. CASE RecvUpdate
  BY <1>15, VideoAssumption, BufAssumption
  DEF IInv, TypeOK, TransferTypeOK, PosInv, ThrInv, CtlInv, Pkt, ThrPc, SendPc,
      tvars, pool, vbuf, RecvUpdate, Goto
<1>16. CASE RecvCheck
  BY <1>16, VideoAssumption, BufAssumption
  DEF IInv, TypeOK, TransferTypeOK, PosInv, ThrInv, CtlInv, Pkt, ThrPc, SendPc,
      tvars, pool, vbuf, RecvCheck, Goto
<1>17. ASSUME NEW b \in Bufs, NEW l \in BufLens, NEW low \in Lows,
             ReadFrame(b, l, low)
      PROVE  PosInv'
  BY <1>17, VideoAssumption, BufAssumption
  DEF IInv, TypeOK, TransferTypeOK, PosInv, ThrInv, CtlInv, Pkt, ThrPc, SendPc,
      tvars, pool, vbuf, ReadFrame
<1>18. CASE ReadDrain
  BY <1>18, VideoAssumption, BufAssumption
  DEF IInv, TypeOK, TransferTypeOK, PosInv, ThrInv, CtlInv, Pkt, ThrPc, SendPc,
      tvars, pool, vbuf, ReadDrain
<1>19. CASE ReadSet
  BY <1>19, VideoAssumption, BufAssumption
  DEF IInv, TypeOK, TransferTypeOK, PosInv, ThrInv, CtlInv, Pkt, ThrPc, SendPc,
      tvars, pool, vbuf, ReadSet
<1>20. CASE ReadWoken
  BY <1>20, VideoAssumption, BufAssumption
  DEF IInv, TypeOK, TransferTypeOK, PosInv, ThrInv, CtlInv, Pkt, ThrPc, SendPc,
      tvars, pool, vbuf, ReadWoken
<1>21. CASE ReadLen
  BY <1>21, VideoAssumption, BufAssumption
  DEF IInv, TypeOK, TransferTypeOK, PosInv, ThrInv, CtlInv, Pkt, ThrPc, SendPc,
      tvars, pool, vbuf, ReadLen
<1>22. CASE ReadClear
  BY <1>22, VideoAssumption, BufAssumption
  DEF IInv, TypeOK, TransferTypeOK, PosInv, ThrInv, CtlInv, Pkt, ThrPc, SendPc,
      tvars, pool, vbuf, ReadClear
<1>23. CASE ReadLost
  BY <1>23, VideoAssumption, BufAssumption
  DEF IInv, TypeOK, TransferTypeOK, PosInv, ThrInv, CtlInv, Pkt, ThrPc, SendPc,
      tvars, pool, vbuf, ReadLost
<1>24. CASE OpenVideo
  BY <1>24, VideoAssumption, BufAssumption
  DEF IInv, TypeOK, TransferTypeOK, PosInv, ThrInv, CtlInv, Pkt, ThrPc, SendPc,
      tvars, pool, vbuf, OpenVideo, ResetVbuf, video_transfer_init
<1>25. CASE CloseVideo
  BY <1>25, VideoAssumption, BufAssumption
  DEF IInv, TypeOK, TransferTypeOK, PosInv, ThrInv, CtlInv, Pkt, ThrPc, SendPc,
      tvars, pool, vbuf, CloseVideo, video_transfer_deinit, Posted
<1>26. CASE CloseWake
  BY <1>26, VideoAssumption, BufAssumption
  DEF IInv, TypeOK, TransferTypeOK, PosInv, ThrInv, CtlInv, Pkt, ThrPc, SendPc,
      tvars, pool, vbuf, CloseWake
<1>27. CASE CloseSpin
  BY <1>27, VideoAssumption, BufAssumption
  DEF IInv, TypeOK, TransferTypeOK, PosInv, ThrInv, CtlInv, Pkt, ThrPc, SendPc,
      tvars, pool, vbuf, CloseSpin
<1>28. CASE CloseStuck
  BY <1>28, VideoAssumption, BufAssumption
  DEF IInv, TypeOK, TransferTypeOK, PosInv, ThrInv, CtlInv, Pkt, ThrPc, SendPc,
      tvars, pool, vbuf, CloseStuck
<1>29. CASE CloseFree
  BY <1>29, VideoAssumption, BufAssumption
  DEF IInv, TypeOK, TransferTypeOK, PosInv, ThrInv, CtlInv, Pkt, ThrPc, SendPc,
      tvars, pool, vbuf, CloseFree, ResetVbuf
<1>30. CASE UNCHANGED vars
  BY <1>30, VideoAssumption, BufAssumption
  DEF IInv, TypeOK, TransferTypeOK, PosInv, ThrInv, CtlInv, Pkt, ThrPc, SendPc,
      tvars, pool, vbuf, vars
<1>31. CASE RecvSignal
  BY <1>31, VideoAssumption, BufAssumption
  DEF IInv, TypeOK, TransferTypeOK, PosInv, ThrInv, CtlInv, Pkt, ThrPc, SendPc,
      tvars, pool, vbuf, RecvSignal, Goto
<1> QED
  BY <1>1, <1>2, <1>3, <1>4, <1>5, <1>6, <1>7, <1>8, <1>9, <1>10, <1>11, <1>12,
      <1>13, <1>14, <1>15, <1>16, <1>17, <1>18, <1>19, <1>20, <1>21, <1>22, <1>23,
          <1>24, <1>25, <1>26, <1>27, <1>28, <1>29, <1>30, <1>31
  DEF Next, Camera, Thread, Transfer, Receive, Reader, Closer

\* The ready list after the receive interrupt: as before, or longer by the
\* new packet.
LEMMA RxReady ==
    ASSUME TransferTypeOK, NEW U, Apart(U), NEW i, NEW n, NEW isEof, RxHandler(i, n,
        isEof)
    PROVE  /\ Len(ready') \in {Len(ready), Len(ready) + 1}
           /\ \A k \in 1 .. Len(ready) : ready'[k] = ready[k] /\ elem'[ready[k]] = elem[ready[k]]
           /\ Len(ready') = Len(ready) + 1 =>
                 /\ elem'[ready'[Len(ready) + 1]].id = frameId
                 /\ elem'[ready'[Len(ready) + 1]].i = i
                 /\ elem'[ready'[Len(ready) + 1]].n = n
<1>0. ready \in Seq(Elems) /\ free \in Seq(Elems) /\ Len(ready) \in Nat
  BY DEF TransferTypeOK
<1>1. CASE free = <<>>
  BY <1>0, <1>1 DEF RxHandler
<1>2. CASE free /= <<>>
  <2> DEFINE e == Head(free)
  <2>1. ready' = Append(ready, e) /\ e \in Elems
    BY <1>0, <1>2 DEF RxHandler
  <2>2. e \in Range(free)
    BY <1>0, <1>2, TailFacts DEF Apart
  <2>3. e \notin Range(ready)
    BY <2>2 DEF Apart
  <2>4. /\ Len(ready') = Len(ready) + 1 /\ ready'[Len(ready) + 1] = e
        /\ \A k \in 1 .. Len(ready) : ready'[k] = ready[k]
    BY <1>0, <2>1, <2>3, AppendFacts DEF Apart
  <2>5. \A k \in 1 .. Len(ready) : ready[k] \in Elems /\ ready[k] /= e
    BY <1>0, <2>3 DEF Range
  <2>6. \A x \in Elems : x /= e => elem'[x] = elem[x]
    BY <1>2, <2>1 DEF RxHandler, TransferTypeOK
  <2>7. elem'[e].id = frameId /\ elem'[e].i = i /\ elem'[e].n = n
    BY <1>2, <2>1 DEF RxHandler, TransferTypeOK
  <2> HIDE DEF e
  <2> QED BY <2>4, <2>5, <2>6, <2>7
<1> QED BY <1>1, <1>2

\* The ready list after a camera interrupt: as before, or longer by part i
\* of frame id, the latter only if new.
CamReady(i, id, new) ==
    /\ Len(ready') \in {Len(ready), Len(ready) + 1}
    /\ \A k \in 1 .. Len(ready) : ready'[k] = ready[k] /\ elem'[ready[k]] = elem[ready[k]]
    /\ Len(ready') = Len(ready) + 1 =>
          new /\ elem'[ready'[Len(ready) + 1]].id = id
              /\ elem'[ready'[Len(ready) + 1]].i = i
              /\ elem'[ready'[Len(ready) + 1]].n \in {0, i}

\* A camera interrupt adds at most the next part of the frame, and goes to
\* the next part or the next frame.
LEMMA CamNext ==
    ASSUME IInv, (\E last \in BOOLEAN : CameraNode(last)) \/ CameraEnd
    PROVE  /\ CamReady(cam.got + 1, frameId, ~cam.full)
           /\ \/ frameId' = frameId /\ cam'.got = cam.got + 1
              \/ frameId' = frameId + 1
<1>1. TransferTypeOK /\ Apart(PoolAll)
  BY CamPool DEF IInv, TypeOK
<1>2. ready \in Seq(Elems) /\ Len(ready) \in Nat /\ cam \in [open : BOOLEAN,
    got : 0 .. MaxPkts, full : BOOLEAN]
  BY <1>1 DEF TransferTypeOK
<1>3. ASSUME NEW last \in BOOLEAN, CameraNode(last)
      PROVE  CamReady(cam.got + 1, frameId,
          ~cam.full) /\ frameId' = frameId /\ cam'.got = cam.got + 1
  <2>1. RxHandler(cam.got + 1, IF last THEN cam.got + 1 ELSE 0, FALSE)
    BY <1>3 DEF CameraNode
  <2>2. ~cam.full /\ frameId' = frameId /\ cam'.got = cam.got + 1
    BY <1>2, <1>3 DEF CameraNode
  <2> DEFINE n == IF last THEN cam.got + 1 ELSE 0
  <2>3. n \in {0, cam.got + 1}
    OBVIOUS
  <2> HIDE DEF n
  <2>4. RxHandler(cam.got + 1, n, FALSE)
    BY <2>1 DEF n
  <2> QED BY <1>1, <2>2, <2>3, <2>4, RxReady DEF CamReady
<1>4. ASSUME CameraEnd
      PROVE  CamReady(cam.got + 1, frameId, ~cam.full) /\ frameId' = frameId + 1
  <2>1. frameId' = frameId + 1
    BY <1>4 DEF CameraEnd
  <2>2. CASE cam.full
    BY <1>2, <1>4, <2>1, <2>2 DEF CameraEnd, CamReady
  <2>3. CASE ~cam.full
    <3>1. RxHandler(cam.got + 1, cam.got + 1, TRUE)
      BY <1>4, <2>3 DEF CameraEnd
    <3> QED BY <1>1, <2>1, <2>3, <3>1, RxReady DEF CamReady
  <2> QED BY <2>2, <2>3
<1> QED BY <1>3, <1>4

\* The numbers in the ready packets are numbers.
LEMMA ReadyTypes ==
    ASSUME TransferTypeOK
    PROVE  /\ Len(ready) \in Nat
           /\ \A k \in 1 .. Len(ready) :
                /\ ready[k] \in Elems
                /\ elem[ready[k]].id \in Nat /\ elem[ready[k]].i \in Nat /\ elem[ready[k]].i >= 1
           /\ frameId \in Nat /\ cam.got \in Nat
<1>1. ready \in Seq(Elems) /\ elem \in [Elems -> Packet]
  BY DEF TransferTypeOK
<1>2. \A p \in Packet : p.id \in Nat /\ p.i \in Nat /\ p.i >= 1
  BY VideoAssumption DEF Packet
<1> QED BY <1>1, <1>2, VideoAssumption DEF TransferTypeOK

\* OrdInv is kept.
LEMMA OrdStep ==
    ASSUME IInv, [Next]_vars
    PROVE  OrdInv'
<1>1. ASSUME NEW last \in BOOLEAN, CameraNode(last) /\ UNCHANGED <<vbuf, mem, rd, ctl>>
      PROVE  OrdInv'
  <2>1. CamReady(cam.got + 1, frameId, ~cam.full) /\ thr' = thr
        /\ (\/ frameId' = frameId /\ cam'.got = cam.got + 1
            \/ frameId' = frameId + 1)
    BY <1>1, CamNext, CamPool
  <2>2. TransferTypeOK
    BY DEF IInv, TypeOK
  <2> SUFFICES ASSUME Active'
               PROVE  OrdInv'
    BY DEF OrdInv
  <2>3. Active
    BY <2>1 DEF Active
  <2>4. ASSUME NEW k \in 1 .. Len(ready')
        PROVE  /\ \/ elem'[ready'[k]].id < frameId'
                  \/ elem'[ready'[k]].id = frameId' /\ elem'[ready'[k]].i <= cam'.got
               /\ elem'[ready'[k]].n \in {0, elem'[ready'[k]].i}
    <3>1. CASE k \in 1 .. Len(ready)
      BY <2>1, <2>2, <2>3, <3>1, ReadyTypes DEF IInv, OrdInv, CamReady
    <3>2. CASE k \notin 1 .. Len(ready)
      <4>1. Len(ready') = Len(ready) + 1 /\ k = Len(ready) + 1
        BY <2>1, <2>2, <3>2, ReadyTypes DEF CamReady
      <4> QED BY <2>1, <2>2, <4>1, ReadyTypes DEF CamReady
    <3> QED BY <3>1, <3>2
  <2>5. ASSUME NEW j \in 1 .. Len(ready'), NEW k \in 1 .. Len(ready'), j < k
        PROVE  Before(elem'[ready'[j]], elem'[ready'[k]])
    <3>0. j \in 1 .. Len(ready)
      BY <2>1, <2>2, <2>5, ReadyTypes DEF CamReady
    <3>1. CASE k \in 1 .. Len(ready)
      BY <2>1, <2>3, <2>5, <3>0, <3>1 DEF IInv, OrdInv, CamReady
    <3>2. CASE k \notin 1 .. Len(ready)
      <4>1. Len(ready') = Len(ready) + 1 /\ k = Len(ready) + 1
        BY <2>1, <2>2, <3>2, ReadyTypes DEF CamReady
      <4> QED BY <2>1, <2>2, <2>3, <3>0, <4>1, ReadyTypes DEF CamReady, IInv, OrdInv,
          Before
    <3> QED BY <3>1, <3>2
  <2> QED BY <2>4, <2>5 DEF OrdInv
<1>2. CASE CameraEnd /\ UNCHANGED <<vbuf, mem, rd, ctl>>
  <2>1. CamReady(cam.got + 1, frameId, ~cam.full) /\ thr' = thr
        /\ (\/ frameId' = frameId /\ cam'.got = cam.got + 1
            \/ frameId' = frameId + 1)
    BY <1>2, CamNext, CamPool
  <2>2. TransferTypeOK
    BY DEF IInv, TypeOK
  <2> SUFFICES ASSUME Active'
               PROVE  OrdInv'
    BY DEF OrdInv
  <2>3. Active
    BY <2>1 DEF Active
  <2>4. ASSUME NEW k \in 1 .. Len(ready')
        PROVE  /\ \/ elem'[ready'[k]].id < frameId'
                  \/ elem'[ready'[k]].id = frameId' /\ elem'[ready'[k]].i <= cam'.got
               /\ elem'[ready'[k]].n \in {0, elem'[ready'[k]].i}
    <3>1. CASE k \in 1 .. Len(ready)
      BY <2>1, <2>2, <2>3, <3>1, ReadyTypes DEF IInv, OrdInv, CamReady
    <3>2. CASE k \notin 1 .. Len(ready)
      <4>1. Len(ready') = Len(ready) + 1 /\ k = Len(ready) + 1
        BY <2>1, <2>2, <3>2, ReadyTypes DEF CamReady
      <4> QED BY <2>1, <2>2, <4>1, ReadyTypes DEF CamReady
    <3> QED BY <3>1, <3>2
  <2>5. ASSUME NEW j \in 1 .. Len(ready'), NEW k \in 1 .. Len(ready'), j < k
        PROVE  Before(elem'[ready'[j]], elem'[ready'[k]])
    <3>0. j \in 1 .. Len(ready)
      BY <2>1, <2>2, <2>5, ReadyTypes DEF CamReady
    <3>1. CASE k \in 1 .. Len(ready)
      BY <2>1, <2>3, <2>5, <3>0, <3>1 DEF IInv, OrdInv, CamReady
    <3>2. CASE k \notin 1 .. Len(ready)
      <4>1. Len(ready') = Len(ready) + 1 /\ k = Len(ready) + 1
        BY <2>1, <2>2, <3>2, ReadyTypes DEF CamReady
      <4> QED BY <2>1, <2>2, <2>3, <3>0, <4>1, ReadyTypes DEF CamReady, IInv, OrdInv,
          Before
    <3> QED BY <3>1, <3>2
  <2> QED BY <2>4, <2>5 DEF OrdInv
<1>3. CASE ThreadStart /\ UNCHANGED <<vbuf, mem, rd, ctl>>
  BY <1>3 DEF OrdInv, ThreadStart
<1>4. CASE ThreadPop /\ UNCHANGED <<vbuf, mem, rd, ctl>>
  BY <1>4, VideoAssumption
  DEF IInv, OrdInv, Active, CtlInv, ThrPc, SendPc, vars, tvars, pool, ThreadPop
<1>5. CASE PollEnd /\ UNCHANGED <<vbuf, mem, rd, ctl>>
  BY <1>5, VideoAssumption
  DEF IInv, OrdInv, Active, CtlInv, ThrPc, SendPc, vars, tvars, pool, PollEnd
<1>6. CASE PollPop /\ UNCHANGED <<vbuf, mem, rd, ctl>>
  <2>1. thr = "pop" /\ ready' = Tail(ready) /\ elem' = elem /\ frameId' = frameId /\ cam' = cam
    BY <1>6 DEF PollPop
  <2>2. ready \in Seq(Elems) /\ ready /= <<>> /\ IsInjective(ready) /\ Len(ready) \in Nat
    BY <2>1, VideoAssumption
    DEF IInv, PoolConserved, SendPc, ThrPc, TypeOK, TransferTypeOK
  <2>3. Len(ready') = Len(ready) - 1 /\ \A k \in 1 .. Len(ready) - 1 : ready'[k] = ready[k + 1]
    BY <2>1, <2>2, TailFacts
  <2>4. Active
    BY <2>1 DEF Active, SendPc
  <2> QED BY <2>1, <2>2, <2>3, <2>4 DEF IInv, OrdInv
<1>7. CASE PollGive /\ UNCHANGED <<vbuf, mem, rd, ctl>>
  <2>1. thr = "give" /\ ready' = ready /\ elem' = [elem EXCEPT ![cur] = NoPacket] /\ frameId' = frameId /\ cam' = cam
    BY <1>7 DEF PollGive
  <2>2. ready \in Seq(Elems) /\ cur \notin Range(ready)
    BY <2>1, VideoAssumption DEF IInv, PoolConserved, ThrPc, TypeOK, TransferTypeOK
  <2>3. \A k \in 1 .. Len(ready) : elem'[ready[k]] = elem[ready[k]]
    BY <2>1, <2>2 DEF Range, IInv, TypeOK, TransferTypeOK
  <2>4. Active
    BY <2>1 DEF Active
  <2> QED BY <2>1, <2>3, <2>4 DEF IInv, OrdInv
<1>8. CASE ExitPool /\ UNCHANGED <<vbuf, mem, rd, ctl>>
  BY <1>8, VideoAssumption
  DEF IInv, OrdInv, Active, CtlInv, ThrPc, SendPc, vars, tvars, pool, ExitPool
<1>9. CASE ExitCamera /\ UNCHANGED <<vbuf, mem, rd, ctl>>
  BY <1>9, VideoAssumption
  DEF IInv, OrdInv, Active, CtlInv, ThrPc, SendPc, vars, tvars, pool, ExitCamera
<1>10. CASE ExitQueue /\ UNCHANGED <<vbuf, mem, rd, ctl>>
  BY <1>10, VideoAssumption
  DEF IInv, OrdInv, Active, CtlInv, ThrPc, SendPc, vars, tvars, pool, ExitQueue
<1>11. CASE RecvCall
  BY <1>11, VideoAssumption
  DEF IInv, OrdInv, Active, CtlInv, ThrPc, SendPc, vars, tvars, pool, RecvCall
<1>12. CASE RecvSof
  BY <1>12, VideoAssumption
  DEF IInv, OrdInv, Active, CtlInv, ThrPc, SendPc, vars, tvars, pool, RecvSof, Goto
<1>13. CASE RecvMatch
  BY <1>13, VideoAssumption
  DEF IInv, OrdInv, Active, CtlInv, ThrPc, SendPc, vars, tvars, pool, RecvMatch, Goto
<1>14. CASE RecvCopy
  BY <1>14, VideoAssumption
  DEF IInv, OrdInv, Active, CtlInv, ThrPc, SendPc, vars, tvars, pool, RecvCopy, Goto
<1>15. CASE RecvUpdate
  BY <1>15, VideoAssumption
  DEF IInv, OrdInv, Active, CtlInv, ThrPc, SendPc, vars, tvars, pool, RecvUpdate, Goto
<1>16. CASE RecvCheck
  BY <1>16, VideoAssumption
  DEF IInv, OrdInv, Active, CtlInv, ThrPc, SendPc, vars, tvars, pool, RecvCheck, Goto
<1>17. ASSUME NEW b \in Bufs, NEW l \in BufLens, NEW low \in Lows,
             ReadFrame(b, l, low)
      PROVE  OrdInv'
  BY <1>17, VideoAssumption
  DEF IInv, OrdInv, Active, CtlInv, ThrPc, SendPc, vars, tvars, pool, ReadFrame
<1>18. CASE ReadDrain
  BY <1>18, VideoAssumption
  DEF IInv, OrdInv, Active, CtlInv, ThrPc, SendPc, vars, tvars, pool, ReadDrain
<1>19. CASE ReadSet
  BY <1>19, VideoAssumption
  DEF IInv, OrdInv, Active, CtlInv, ThrPc, SendPc, vars, tvars, pool, ReadSet
<1>20. CASE ReadWoken
  BY <1>20, VideoAssumption
  DEF IInv, OrdInv, Active, CtlInv, ThrPc, SendPc, vars, tvars, pool, ReadWoken
<1>21. CASE ReadLen
  BY <1>21, VideoAssumption
  DEF IInv, OrdInv, Active, CtlInv, ThrPc, SendPc, vars, tvars, pool, ReadLen
<1>22. CASE ReadClear
  BY <1>22, VideoAssumption
  DEF IInv, OrdInv, Active, CtlInv, ThrPc, SendPc, vars, tvars, pool, ReadClear
<1>23. CASE ReadLost
  BY <1>23, VideoAssumption
  DEF IInv, OrdInv, Active, CtlInv, ThrPc, SendPc, vars, tvars, pool, ReadLost
<1>24. CASE OpenVideo
  BY <1>24, VideoAssumption
  DEF IInv, OrdInv, Active, CtlInv, ThrPc, SendPc, vars, tvars, pool, OpenVideo,
      ResetVbuf, video_transfer_init
<1>25. CASE CloseVideo
  BY <1>25, VideoAssumption
  DEF IInv, OrdInv, Active, CtlInv, ThrPc, SendPc, vars, tvars, pool, CloseVideo,
      video_transfer_deinit, Posted
<1>26. CASE CloseWake
  BY <1>26, VideoAssumption
  DEF IInv, OrdInv, Active, CtlInv, ThrPc, SendPc, vars, tvars, pool, CloseWake
<1>27. CASE CloseSpin
  BY <1>27, VideoAssumption
  DEF IInv, OrdInv, Active, CtlInv, ThrPc, SendPc, vars, tvars, pool, CloseSpin
<1>28. CASE CloseStuck
  BY <1>28, VideoAssumption
  DEF IInv, OrdInv, Active, CtlInv, ThrPc, SendPc, vars, tvars, pool, CloseStuck
<1>29. CASE CloseFree
  BY <1>29, VideoAssumption
  DEF IInv, OrdInv, Active, CtlInv, ThrPc, SendPc, vars, tvars, pool, CloseFree,
      ResetVbuf
<1>30. CASE UNCHANGED vars
  BY <1>30, VideoAssumption
  DEF IInv, OrdInv, Active, CtlInv, ThrPc, SendPc, vars, tvars, pool, vars
<1>31. CASE RecvSignal
  BY <1>31, VideoAssumption
  DEF IInv, OrdInv, Active, CtlInv, ThrPc, SendPc, vars, tvars, pool, RecvSignal, Goto
<1> QED
  BY <1>1, <1>2, <1>3, <1>4, <1>5, <1>6, <1>7, <1>8, <1>9, <1>10, <1>11, <1>12,
      <1>13, <1>14, <1>15, <1>16, <1>17, <1>18, <1>19, <1>20, <1>21, <1>22, <1>23,
          <1>24, <1>25, <1>26, <1>27, <1>28, <1>29, <1>30, <1>31
  DEF Next, Camera, Thread, Transfer, Receive, Reader, Closer

\* While the send function runs, its packet is the first of the ready list.
LEMMA HeadFacts ==
    ASSUME IInv, thr \in SendPc
    PROVE  Active /\ cur = ready[1] /\ cur \in Elems /\ 1 \in 1 .. Len(ready) /\ Pkt = elem[ready[1]]
<1>1. ready \in Seq(Elems) /\ ready /= <<>> /\ cur = Head(ready) /\ cur \in Elems
  BY VideoAssumption
  DEF IInv, PoolConserved, SendPc, ThrPc, ThrInv, TypeOK, TransferTypeOK
<1> QED BY <1>1 DEF Active, Pkt

\* The numbers in the buffer are numbers.
LEMMA GotTypes ==
    ASSUME IInv, bufPtr.buf \in Bufs, NEW k \in 0 .. MaxLen - 1, Got(k) /= None
    PROVE  Got(k) \in Data /\ Got(k).i \in Nat /\ Got(k).i >= 1 /\ Got(k).id \in Nat
<1>1. mem \in [Bufs -> [0 .. MaxLen - 1 -> Data \cup {None}]]
  BY DEF IInv, TypeOK
<1>2. Got(k) \in Data
  BY <1>1 DEF Got
<1> QED BY <1>2, VideoAssumption DEF Data

\* The length of the frame is a number, and buf_ptr is at its end.
LEMMA LenTypes ==
    ASSUME IInv
    PROVE  frameLen \in Nat /\ bufLen \in Nat /\ bufPtr.off = frameLen /\ MaxLen \in Nat
  BY VideoAssumption, BufAssumption DEF IInv, TypeOK, PosInv

\* Data copied from a packet is not the blank.
LEMMA NoneNotData ==
    ASSUME NEW p \in Packet PROVE [id |-> p.id, i |-> p.i, n |-> p.n] /= None
<1>1. [id |-> p.id, i |-> p.i, n |-> p.n] \in Data
  BY DEF Packet, Data
<1> QED BY <1>1, BufAssumption

\* FillInv is kept.
LEMMA FillStep ==
    ASSUME IInv, [Next]_vars
    PROVE  FillInv'
<1>1. ASSUME NEW last \in BOOLEAN, CameraNode(last) /\ UNCHANGED <<vbuf, mem, rd, ctl>>
      PROVE  FillInv'
  <2>1. CamReady(cam.got + 1, frameId, ~cam.full) /\ thr' = thr
        /\ (\/ frameId' = frameId /\ cam'.got = cam.got + 1
            \/ frameId' = frameId + 1)
    BY <1>1, CamNext, CamPool
  <2>2. TransferTypeOK
    BY DEF IInv, TypeOK
  <2>3. UNCHANGED <<bufPtr, mem, frameLen, frmId>>
    BY <1>1 DEF vbuf
  <2> SUFFICES ASSUME Filling'
               PROVE  FillInv'
    BY DEF FillInv
  <2>4. Filling
    BY <2>1, <2>3 DEF Filling, Active, Got
  <2>5. frameLen - 1 \in 0 .. MaxLen - 1 /\ frameLen - 1 \in 0 .. frameLen - 1 /\ bufPtr.buf \in Bufs
    BY <2>4, LenTypes DEF Filling
  <2>6. Got(frameLen - 1) /= None
    BY <2>4, <2>5 DEF IInv, FillInv
  <2>7. Got(frameLen - 1).i \in Nat
    BY <2>5, <2>6, GotTypes
  <2>8. frmId < frameId \/ (frmId = frameId /\ Got(frameLen - 1).i <= cam.got)
    BY <2>4 DEF IInv, FillInv
  <2>9. \A k \in 0 .. MaxLen - 1 : Got(k)' = Got(k)
    BY <2>3 DEF Got
  <2>a. frmId \in Nat
    BY <2>4, <2>5, <2>6, GotTypes DEF IInv, FillInv
  <2>10. frmId < frameId' \/ (frmId = frameId' /\ Got(frameLen - 1).i <= cam'.got)
    BY <2>1, <2>2, <2>7, <2>8, <2>a, ReadyTypes
  <2>11. ASSUME NEW k \in 1 .. Len(ready'), k > 1 \/ thr \notin {"check", "signal", "pop"},
      elem'[ready'[k]].id = frmId
         PROVE  elem'[ready'[k]].i > Got(frameLen - 1).i
    <3>1. CASE k \in 1 .. Len(ready)
      BY <2>1, <2>4, <2>11, <3>1 DEF CamReady, IInv, FillInv
    <3>2. CASE k \notin 1 .. Len(ready)
      <4>1. Len(ready') = Len(ready) + 1 /\ k = Len(ready) + 1
        BY <2>1, <2>2, <3>2, ReadyTypes DEF CamReady
      <4>2. elem'[ready'[k]].id = frameId /\ elem'[ready'[k]].i = cam.got + 1
        BY <2>1, <4>1 DEF CamReady
      <4> QED BY <2>2, <2>7, <2>8, <2>a, <2>11, <4>2, ReadyTypes
    <3> QED BY <3>1, <3>2
  <2> QED BY <2>1, <2>3, <2>4, <2>10, <2>11 DEF FillInv, IInv, Got
<1>2. CASE CameraEnd /\ UNCHANGED <<vbuf, mem, rd, ctl>>
  <2>1. CamReady(cam.got + 1, frameId, ~cam.full) /\ thr' = thr
        /\ (\/ frameId' = frameId /\ cam'.got = cam.got + 1
            \/ frameId' = frameId + 1)
    BY <1>2, CamNext, CamPool
  <2>2. TransferTypeOK
    BY DEF IInv, TypeOK
  <2>3. UNCHANGED <<bufPtr, mem, frameLen, frmId>>
    BY <1>2 DEF vbuf
  <2> SUFFICES ASSUME Filling'
               PROVE  FillInv'
    BY DEF FillInv
  <2>4. Filling
    BY <2>1, <2>3 DEF Filling, Active, Got
  <2>5. frameLen - 1 \in 0 .. MaxLen - 1 /\ frameLen - 1 \in 0 .. frameLen - 1 /\ bufPtr.buf \in Bufs
    BY <2>4, LenTypes DEF Filling
  <2>6. Got(frameLen - 1) /= None
    BY <2>4, <2>5 DEF IInv, FillInv
  <2>7. Got(frameLen - 1).i \in Nat
    BY <2>5, <2>6, GotTypes
  <2>8. frmId < frameId \/ (frmId = frameId /\ Got(frameLen - 1).i <= cam.got)
    BY <2>4 DEF IInv, FillInv
  <2>9. \A k \in 0 .. MaxLen - 1 : Got(k)' = Got(k)
    BY <2>3 DEF Got
  <2>a. frmId \in Nat
    BY <2>4, <2>5, <2>6, GotTypes DEF IInv, FillInv
  <2>10. frmId < frameId' \/ (frmId = frameId' /\ Got(frameLen - 1).i <= cam'.got)
    BY <2>1, <2>2, <2>7, <2>8, <2>a, ReadyTypes
  <2>11. ASSUME NEW k \in 1 .. Len(ready'), k > 1 \/ thr \notin {"check", "signal", "pop"},
      elem'[ready'[k]].id = frmId
         PROVE  elem'[ready'[k]].i > Got(frameLen - 1).i
    <3>1. CASE k \in 1 .. Len(ready)
      BY <2>1, <2>4, <2>11, <3>1 DEF CamReady, IInv, FillInv
    <3>2. CASE k \notin 1 .. Len(ready)
      <4>1. Len(ready') = Len(ready) + 1 /\ k = Len(ready) + 1
        BY <2>1, <2>2, <3>2, ReadyTypes DEF CamReady
      <4>2. elem'[ready'[k]].id = frameId /\ elem'[ready'[k]].i = cam.got + 1
        BY <2>1, <4>1 DEF CamReady
      <4> QED BY <2>2, <2>7, <2>8, <2>a, <2>11, <4>2, ReadyTypes
    <3> QED BY <3>1, <3>2
  <2> QED BY <2>1, <2>3, <2>4, <2>10, <2>11 DEF FillInv, IInv, Got
<1>3. CASE ThreadStart /\ UNCHANGED <<vbuf, mem, rd, ctl>>
  BY <1>3, BufAssumption DEF IInv, ThrInv, FillInv, Filling, vbuf, ThreadStart
<1>4. CASE ThreadPop /\ UNCHANGED <<vbuf, mem, rd, ctl>>
  BY <1>4, VideoAssumption
  DEF IInv, FillInv, Filling, Got, Active, CtlInv, ThrPc, SendPc, vars, tvars, pool,
      vbuf, ThreadPop
<1>5. CASE PollEnd /\ UNCHANGED <<vbuf, mem, rd, ctl>>
  BY <1>5, VideoAssumption
  DEF IInv, FillInv, Filling, Got, Active, CtlInv, ThrPc, SendPc, vars, tvars, pool,
      vbuf, PollEnd
<1>6. CASE PollPop /\ UNCHANGED <<vbuf, mem, rd, ctl>>
  <2>1. thr = "pop" /\ ready' = Tail(ready) /\ elem' = elem /\ frameId' = frameId /\ cam' = cam
    BY <1>6 DEF PollPop
  <2>2. ready \in Seq(Elems) /\ ready /= <<>> /\ IsInjective(ready) /\ Len(ready) \in Nat
    BY <2>1, VideoAssumption
    DEF IInv, PoolConserved, SendPc, ThrPc, TypeOK, TransferTypeOK
  <2>3. Len(ready') = Len(ready) - 1 /\ \A k \in 1 .. Len(ready) - 1 : ready'[k] = ready[k + 1]
    BY <2>1, <2>2, TailFacts
  <2>4. Active /\ UNCHANGED <<bufPtr, mem, frameLen, frmId>>
    BY <1>6, <2>1 DEF Active, SendPc, vbuf
  <2> SUFFICES ASSUME Filling'
               PROVE  FillInv'
    BY DEF FillInv
  <2>5. Filling
    BY <2>4 DEF Filling, Got
  <2>6. ASSUME NEW k \in 1 .. Len(ready'), elem[ready'[k]].id = frmId
        PROVE  elem[ready'[k]].i > Got(frameLen - 1).i
    <3>1. k + 1 \in 1 .. Len(ready) /\ k + 1 > 1 /\ ready'[k] = ready[k + 1]
      BY <2>2, <2>3
    <3> QED BY <3>1, <2>5, <2>6 DEF IInv, FillInv
  <2> QED BY <2>1, <2>4, <2>5, <2>6 DEF IInv, FillInv, Got
<1>7. CASE PollGive /\ UNCHANGED <<vbuf, mem, rd, ctl>>
  <2>1. thr = "give" /\ ready' = ready /\ elem' = [elem EXCEPT ![cur] = NoPacket] /\ frameId' = frameId /\ cam' = cam
    BY <1>7 DEF PollGive
  <2>2. ready \in Seq(Elems) /\ cur \notin Range(ready)
    BY <2>1, VideoAssumption DEF IInv, PoolConserved, ThrPc, TypeOK, TransferTypeOK
  <2>3. \A k \in 1 .. Len(ready) : elem'[ready[k]] = elem[ready[k]]
    BY <2>1, <2>2 DEF Range, IInv, TypeOK, TransferTypeOK
  <2>4. Active /\ UNCHANGED <<bufPtr, mem, frameLen, frmId>>
    BY <1>7, <2>1 DEF Active, vbuf
  <2> SUFFICES ASSUME Filling'
               PROVE  FillInv'
    BY DEF FillInv
  <2>5. Filling
    BY <2>4 DEF Filling, Got
  <2> QED BY <2>1, <2>3, <2>4, <2>5 DEF IInv, FillInv, Got
<1>8. CASE ExitPool /\ UNCHANGED <<vbuf, mem, rd, ctl>>
  BY <1>8, VideoAssumption
  DEF IInv, FillInv, Filling, Got, Active, CtlInv, ThrPc, SendPc, vars, tvars, pool,
      vbuf, ExitPool
<1>9. CASE ExitCamera /\ UNCHANGED <<vbuf, mem, rd, ctl>>
  BY <1>9, VideoAssumption
  DEF IInv, FillInv, Filling, Got, Active, CtlInv, ThrPc, SendPc, vars, tvars, pool,
      vbuf, ExitCamera
<1>10. CASE ExitQueue /\ UNCHANGED <<vbuf, mem, rd, ctl>>
  BY <1>10, VideoAssumption
  DEF IInv, FillInv, Filling, Got, Active, CtlInv, ThrPc, SendPc, vars, tvars, pool,
      vbuf, ExitQueue
<1>11. CASE RecvCall
  BY <1>11, VideoAssumption
  DEF IInv, FillInv, Filling, Got, Active, CtlInv, ThrPc, SendPc, vars, tvars, pool,
      vbuf, RecvCall
<1>12. CASE RecvSof
  <2>1. thr = "sof" /\ thr' = "match" /\ UNCHANGED <<mem, ready, elem, frameId, cam>>
    BY <1>12 DEF RecvSof, Goto, pool
  <2>2. frameLen' = 0 \/ UNCHANGED <<bufPtr, frameLen, frmId>>
    BY <1>12 DEF RecvSof
  <2>3. CASE frameLen' = 0
    BY <2>3, BufAssumption DEF FillInv, Filling
  <2>4. CASE UNCHANGED <<bufPtr, frameLen, frmId>>
    BY <2>1, <2>4 DEF IInv, FillInv, Filling, Got, Active, SendPc
  <2> QED BY <2>2, <2>3, <2>4
<1>13. CASE RecvMatch
  <2>1. thr = "match" /\ UNCHANGED <<mem, ready, elem, frameId, cam, bufPtr,
      frameLen, frmId>>
    BY <1>13 DEF RecvMatch, Goto, pool
  <2> QED
    BY <2>1 DEF IInv, FillInv, Filling, Got, Active, SendPc
<1>14. CASE RecvCopy
  <2>1. thr = "copy" /\ thr' = "update" /\ UNCHANGED <<ready, elem, frameId, cam,
      bufPtr, frameLen, frmId>>
    BY <1>14 DEF RecvCopy, Goto, pool, vbuf
  <2> SUFFICES ASSUME Filling'
               PROVE  FillInv'
    BY DEF FillInv
  <2>2. bufPtr.buf \in Bufs /\ frameLen \in 1 .. MaxLen /\ bufPtr.off = frameLen
    BY <2>1, LenTypes DEF Filling
  <2>3. \A k \in 0 .. frameLen - 1 : Got(k)' = Got(k)
    <3> SUFFICES ASSUME NEW k \in 0 .. frameLen - 1
                 PROVE  mem'[bufPtr.buf][k] = mem[bufPtr.buf][k]
      BY <2>1 DEF Got
    <3>1. k /= bufPtr.off /\ k \in 0 .. MaxLen - 1
      BY <2>2, LenTypes
    <3> QED BY <1>14, <2>2, <3>1 DEF RecvCopy, IInv, TypeOK
  <2>4. 0 \in 0 .. frameLen - 1 /\ frameLen - 1 \in 0 .. frameLen - 1
    BY <2>2, LenTypes
  <2>5. Filling
    BY <2>1, <2>2, <2>3, <2>4 DEF Filling, Active, SendPc
  <2> QED BY <2>1, <2>3, <2>4, <2>5 DEF IInv, FillInv
<1>15. CASE RecvUpdate
  <2>1. thr = "update" /\ thr' \in {"check", "pop"} /\ UNCHANGED <<ready, elem,
      frameId, cam, mem, frmId>>
        /\ frameLen' = frameLen + 1
    BY <1>15 DEF RecvUpdate, Goto, pool
  <2>2. bufPtr'.buf = bufPtr.buf
    BY <1>15 DEF RecvUpdate, IInv, TypeOK
  <2> SUFFICES ASSUME Filling'
               PROVE  FillInv'
    BY DEF FillInv
  <2>3. bufPtr.buf \in Bufs /\ frameLen \in 0 .. MaxLen - 1 /\ Got(0) /= None
    BY <2>1, <2>2, LenTypes DEF Filling, Got
  <2>4. \A k \in 0 .. frameLen : Got(k)' = Got(k)
    BY <2>1, <2>2 DEF Got
  <2> DEFINE p == elem[ready[1]]
  <2>f. PICK f : f = frameLen
    OBVIOUS
  <2>5. /\ Active /\ 1 \in 1 .. Len(ready) /\ Pkt = p
    BY <2>1, HeadFacts DEF SendPc
  <2>6. /\ Got(f) = [id |-> p.id, i |-> p.i, n |-> p.n]
    BY <2>f, <2>1, <2>3, <2>5, LenTypes DEF IInv, CopyInv
  <2>7. p.id = frmId
    BY <2>1, <2>5 DEF IInv, PosInv
  <2>8. /\ p.id < frameId \/ (p.id = frameId /\ p.i <= cam.got)
        /\ p.n \in {0, p.i}
        /\ \A k \in 1 .. Len(ready) : 1 < k => Before(p, elem[ready[k]])
    BY <2>5 DEF IInv, OrdInv
  <2>9. p.id \in Nat /\ p.i \in Nat /\ p.i >= 1 /\ Len(ready) \in Nat
    BY <2>5, ReadyTypes DEF IInv, TypeOK
  <2>10. /\ Got(f) /= None /\ Got(f).id = p.id /\ Got(f).i = p.i /\ Got(f).n = p.n
    <3>1. f \in 0 .. MaxLen - 1 /\ f \in Nat
      BY <2>f, <2>3, LenTypes
    <3>2. Got(f) /= None
      <4>1. CASE f = 0
        BY <4>1, <2>3
      <4>2. CASE f > 0
        BY <2>6, NoneNotData, <2>1, PktType, <2>5 DEF SendPc
      <4> QED BY <3>1, <4>1, <4>2
    <3> QED BY <2>6, <3>2
  <2> HIDE DEF p
  <2>11. p.i >= f + 1 /\ \A k \in 0 .. f :
            /\ Got(k) /= None /\ Got(k).id = frmId /\ Got(k).n \in {0, Got(k).i}
            /\ Got(k).i >= k + 1 /\ p.i - Got(k).i >= f - k
    <3>1. CASE f = 0
      BY <3>1, <2>7, <2>8, <2>9, <2>10
    <3>2. CASE f > 0
      <4>1. f \in 1 .. MaxLen /\ f - 1 \in 0 .. f - 1 /\ f \in Nat /\ f - 1 \in 0 .. MaxLen - 1
        BY <2>f, <3>2, <2>3, LenTypes
      <4>2. Filling
        BY <2>f, <4>1, <2>3, <2>5 DEF Filling
      <4>3. \A k \in 0 .. f - 1 :
               /\ Got(k) /= None /\ Got(k).id = frmId /\ Got(k).n \in {0, Got(k).i}
               /\ Got(k).i >= k + 1 /\ Got(f - 1).i - Got(k).i >= f - 1 - k
        BY <2>f, <4>2 DEF IInv, FillInv
      <4>4. p.i > Got(f - 1).i
        BY <2>f, <4>2, <2>1, <2>5, <2>7 DEF IInv, FillInv, p
      <4>5. \A k \in 0 .. f - 1 : Got(k).i \in Nat
        <5> TAKE k \in 0 .. f - 1
        <5>1. k \in 0 .. MaxLen - 1
          BY <4>1, LenTypes
        <5> QED BY <5>1, <4>3, <2>3, GotTypes
      <4>6. p.i >= f + 1
        BY <4>1, <4>3, <4>4, <4>5, <2>9
      <4>7. ASSUME NEW k \in 0 .. f
            PROVE  /\ Got(k) /= None /\ Got(k).id = frmId /\ Got(k).n \in {0, Got(k).i}
                   /\ Got(k).i >= k + 1 /\ p.i - Got(k).i >= f - k
        <5>1. CASE k = f
          BY <5>1, <4>1, <4>6, <2>7, <2>8, <2>9, <2>10
        <5>2. CASE k /= f
          <6>1. k \in 0 .. f - 1
            BY <5>2, <4>1
          <6>2. Got(f - 1).i - Got(k).i >= f - 1 - k /\ Got(k).i \in Nat /\ Got(f - 1).i \in Nat
            BY <6>1, <4>1, <4>3, <4>5
          <6>3. p.i - Got(k).i >= f - k
            BY <6>1, <6>2, <4>1, <4>4, <2>9
          <6> QED BY <6>1, <6>3, <4>3
        <5> QED BY <5>1, <5>2
      <4> QED BY <4>6, <4>7
    <3> QED BY <2>f, <3>1, <3>2, LenTypes
  <2>12. ASSUME NEW k \in 1 .. Len(ready), k > 1, elem[ready[k]].id = frmId
         PROVE  elem[ready[k]].i > p.i
    <3>1. Before(p, elem[ready[k]])
      BY <2>8, <2>12, <2>9
    <3>2. elem[ready[k]].i \in Nat /\ elem[ready[k]].id \in Nat
      BY <2>12, ReadyTypes DEF IInv, TypeOK
    <3> QED BY <3>1, <3>2, <2>7, <2>9, <2>12 DEF Before
  <2>13. frameLen' - 1 = f /\ f \in 0 .. f /\ f \in Nat
    BY <2>f, <2>1, LenTypes
  <2>14. Got(f)' = Got(f)
    BY <2>f, <2>4, <2>13
  <2>15. \A k \in 0 .. f : /\ Got(k)' /= None /\ Got(k)'.id = frmId' /\ Got(k)'.n \in {0, Got(k)'.i}
            /\ Got(k)'.i >= k + 1 /\ p.i - Got(k)'.i >= f - k
    BY <2>f, <2>1, <2>4, <2>11
  <2>16. Got(f)'.i = p.i
    BY <2>14, <2>10
  <2>17. frmId < frameId \/ (frmId = frameId /\ p.i <= cam.got)
    BY <2>7, <2>8
  <2>19. \A k \in 1 .. Len(ready) : k > 1 /\ elem[ready[k]].id = frmId => elem[ready[k]].i > p.i
    BY <2>12
  <2> QED BY <2>1, <2>13, <2>15, <2>16, <2>17, <2>19 DEF FillInv
<1>16. CASE RecvCheck
  BY <1>16, VideoAssumption
  DEF IInv, FillInv, Filling, Got, Active, CtlInv, ThrPc, SendPc, vars, tvars, pool,
      vbuf, RecvCheck, Goto
<1>17. ASSUME NEW b \in Bufs, NEW l \in BufLens, NEW low \in Lows,
             ReadFrame(b, l, low)
      PROVE  FillInv'
  <2>1. UNCHANGED <<thr, ready, elem, frameId, cam, bufPtr, frameLen, frmId>>
    BY <1>17 DEF ReadFrame, tvars, vbuf
  <2> SUFFICES ASSUME Filling'
               PROVE  FillInv'
    BY DEF FillInv
  <2>2. bufPtr.buf \in Bufs /\ 0 \in 0 .. MaxLen - 1 /\ mem'[bufPtr.buf][0] /= None
    BY <2>1, LenTypes DEF Filling, Got
  <2>3. mem'[bufPtr.buf] = mem[bufPtr.buf]
    BY <1>17, <2>2 DEF ReadFrame, IInv, TypeOK, Blank
  <2> QED BY <2>1, <2>3 DEF IInv, FillInv, Filling, Got, Active
<1>18. CASE ReadDrain
  BY <1>18, VideoAssumption
  DEF IInv, FillInv, Filling, Got, Active, CtlInv, ThrPc, SendPc, vars, tvars, pool,
      vbuf, ReadDrain
<1>19. CASE ReadSet
  BY <1>19, VideoAssumption
  DEF IInv, FillInv, Filling, Got, Active, CtlInv, ThrPc, SendPc, vars, tvars, pool,
      vbuf, ReadSet
<1>20. CASE ReadWoken
  BY <1>20, VideoAssumption
  DEF IInv, FillInv, Filling, Got, Active, CtlInv, ThrPc, SendPc, vars, tvars, pool,
      vbuf, ReadWoken
<1>21. CASE ReadLen
  BY <1>21, VideoAssumption
  DEF IInv, FillInv, Filling, Got, Active, CtlInv, ThrPc, SendPc, vars, tvars, pool,
      vbuf, ReadLen
<1>22. CASE ReadClear
  <2>1. UNCHANGED <<thr, ready, elem, frameId, cam, bufPtr, frameLen, frmId>>
    BY <1>22 DEF ReadClear, tvars, vbuf
  <2> SUFFICES ASSUME Filling'
               PROVE  FillInv'
    BY DEF FillInv
  <2>2. bufPtr.buf \in Bufs /\ 0 \in 0 .. MaxLen - 1 /\ mem'[bufPtr.buf][0] /= None
    BY <2>1, LenTypes DEF Filling, Got
  <2>3. mem'[bufPtr.buf] = mem[bufPtr.buf]
    BY <1>22, <2>2 DEF ReadClear, IInv, TypeOK, Blank
  <2> QED BY <2>1, <2>3 DEF IInv, FillInv, Filling, Got, Active
<1>23. CASE ReadLost
  BY <1>23, VideoAssumption
  DEF IInv, FillInv, Filling, Got, Active, CtlInv, ThrPc, SendPc, vars, tvars, pool,
      vbuf, ReadLost
<1>24. CASE OpenVideo
  BY <1>24, VideoAssumption
  DEF IInv, FillInv, Filling, Got, Active, CtlInv, ThrPc, SendPc, vars, tvars, pool,
      vbuf, OpenVideo, ResetVbuf, video_transfer_init
<1>25. CASE CloseVideo
  BY <1>25, VideoAssumption
  DEF IInv, FillInv, Filling, Got, Active, CtlInv, ThrPc, SendPc, vars, tvars, pool,
      vbuf, CloseVideo, video_transfer_deinit, Posted
<1>26. CASE CloseWake
  BY <1>26, VideoAssumption
  DEF IInv, FillInv, Filling, Got, Active, CtlInv, ThrPc, SendPc, vars, tvars, pool,
      vbuf, CloseWake
<1>27. CASE CloseSpin
  BY <1>27, VideoAssumption
  DEF IInv, FillInv, Filling, Got, Active, CtlInv, ThrPc, SendPc, vars, tvars, pool,
      vbuf, CloseSpin
<1>28. CASE CloseStuck
  BY <1>28, VideoAssumption
  DEF IInv, FillInv, Filling, Got, Active, CtlInv, ThrPc, SendPc, vars, tvars, pool,
      vbuf, CloseStuck
<1>29. CASE CloseFree
  BY <1>29, VideoAssumption
  DEF IInv, FillInv, Filling, Got, Active, CtlInv, ThrPc, SendPc, vars, tvars, pool,
      vbuf, CloseFree, ResetVbuf
<1>30. CASE UNCHANGED vars
  BY <1>30, VideoAssumption
  DEF IInv, FillInv, Filling, Got, Active, CtlInv, ThrPc, SendPc, vars, tvars, pool,
      vbuf, vars
<1>31. CASE RecvSignal
  BY <1>31, VideoAssumption
  DEF IInv, FillInv, Filling, Got, Active, CtlInv, ThrPc, SendPc, vars, tvars, pool,
      vbuf, RecvSignal, Goto
<1> QED
  BY <1>1, <1>2, <1>3, <1>4, <1>5, <1>6, <1>7, <1>8, <1>9, <1>10, <1>11, <1>12,
      <1>13, <1>14, <1>15, <1>16, <1>17, <1>18, <1>19, <1>20, <1>21, <1>22, <1>23,
          <1>24, <1>25, <1>26, <1>27, <1>28, <1>29, <1>30, <1>31
  DEF Next, Camera, Thread, Transfer, Receive, Reader, Closer

\* CopyInv is kept.
LEMMA CopyStep ==
    ASSUME IInv, [Next]_vars
    PROVE  CopyInv'
<1>1. ASSUME NEW last \in BOOLEAN, CameraNode(last) /\ UNCHANGED <<vbuf, mem, rd, ctl>>
      PROVE  CopyInv'
  <2>1. /\ Apart(PoolAll) /\ thr \notin {None, "start"} /\ thr' = thr /\ cur' = cur
        /\ \A e \in Elems \ Range(free) : elem'[e] = elem[e]
    BY <1>1, CamPool
  <2>2. thr = "update" => elem'[cur] = elem[cur]
    <3> HAVE thr = "update"
    <3>1. ready /= <<>> /\ cur = Head(ready) /\ cur \in Elems /\ ready \in Seq(Elems)
      BY <2>1, PoolSplit DEF IInv, ThrInv, TypeOK, TransferTypeOK, SendPc
    <3>2. cur \in Range(ready)
      BY <3>1, <2>1, TailFacts DEF Apart
    <3> QED BY <2>1, <3>1, <3>2 DEF Apart
  <2>3. UNCHANGED <<bufPtr, frameLen, mem>>
    BY <1>1 DEF vbuf
  <2> QED BY <2>1, <2>2, <2>3 DEF IInv, CopyInv, Pkt, Got
<1>2. CASE CameraEnd /\ UNCHANGED <<vbuf, mem, rd, ctl>>
  <2>1. /\ Apart(PoolAll) /\ thr \notin {None, "start"} /\ thr' = thr /\ cur' = cur
        /\ \A e \in Elems \ Range(free) : elem'[e] = elem[e]
    BY <1>2, CamPool
  <2>2. thr = "update" => elem'[cur] = elem[cur]
    <3> HAVE thr = "update"
    <3>1. ready /= <<>> /\ cur = Head(ready) /\ cur \in Elems /\ ready \in Seq(Elems)
      BY <2>1, PoolSplit DEF IInv, ThrInv, TypeOK, TransferTypeOK, SendPc
    <3>2. cur \in Range(ready)
      BY <3>1, <2>1, TailFacts DEF Apart
    <3> QED BY <2>1, <3>1, <3>2 DEF Apart
  <2>3. UNCHANGED <<bufPtr, frameLen, mem>>
    BY <1>2 DEF vbuf
  <2> QED BY <2>1, <2>2, <2>3 DEF IInv, CopyInv, Pkt, Got
<1>3. CASE ThreadStart /\ UNCHANGED <<vbuf, mem, rd, ctl>>
  BY <1>3, VideoAssumption
  DEF IInv, CopyInv, Pkt, Got, CtlInv, ThrPc, SendPc, vars, tvars, pool, vbuf,
      ThreadStart
<1>4. CASE ThreadPop /\ UNCHANGED <<vbuf, mem, rd, ctl>>
  BY <1>4, VideoAssumption
  DEF IInv, CopyInv, Pkt, Got, CtlInv, ThrPc, SendPc, vars, tvars, pool, vbuf, ThreadPop
<1>5. CASE PollEnd /\ UNCHANGED <<vbuf, mem, rd, ctl>>
  BY <1>5, VideoAssumption
  DEF IInv, CopyInv, Pkt, Got, CtlInv, ThrPc, SendPc, vars, tvars, pool, vbuf, PollEnd
<1>6. CASE PollPop /\ UNCHANGED <<vbuf, mem, rd, ctl>>
  BY <1>6, VideoAssumption
  DEF IInv, CopyInv, Pkt, Got, CtlInv, ThrPc, SendPc, vars, tvars, pool, vbuf, PollPop
<1>7. CASE PollGive /\ UNCHANGED <<vbuf, mem, rd, ctl>>
  BY <1>7, VideoAssumption
  DEF IInv, CopyInv, Pkt, Got, CtlInv, ThrPc, SendPc, vars, tvars, pool, vbuf, PollGive
<1>8. CASE ExitPool /\ UNCHANGED <<vbuf, mem, rd, ctl>>
  BY <1>8, VideoAssumption
  DEF IInv, CopyInv, Pkt, Got, CtlInv, ThrPc, SendPc, vars, tvars, pool, vbuf, ExitPool
<1>9. CASE ExitCamera /\ UNCHANGED <<vbuf, mem, rd, ctl>>
  BY <1>9, VideoAssumption
  DEF IInv, CopyInv, Pkt, Got, CtlInv, ThrPc, SendPc, vars, tvars, pool, vbuf,
      ExitCamera
<1>10. CASE ExitQueue /\ UNCHANGED <<vbuf, mem, rd, ctl>>
  BY <1>10, VideoAssumption
  DEF IInv, CopyInv, Pkt, Got, CtlInv, ThrPc, SendPc, vars, tvars, pool, vbuf, ExitQueue
<1>11. CASE RecvCall
  BY <1>11, VideoAssumption
  DEF IInv, CopyInv, Pkt, Got, CtlInv, ThrPc, SendPc, vars, tvars, pool, vbuf, RecvCall
<1>12. CASE RecvSof
  BY <1>12, VideoAssumption
  DEF IInv, CopyInv, Pkt, Got, CtlInv, ThrPc, SendPc, vars, tvars, pool, vbuf,
      RecvSof, Goto
<1>13. CASE RecvMatch
  <2>1. thr' /= "update"
    BY <1>13 DEF RecvMatch, Goto
  <2> QED BY <2>1 DEF CopyInv
<1>14. CASE RecvCopy
  <2>1. UNCHANGED <<elem, cur, bufPtr, frameLen>>
    BY <1>14 DEF RecvCopy, Goto, pool, vbuf
  <2> SUFFICES ASSUME bufPtr.buf \in Bufs, frameLen < MaxLen
               PROVE  Got(frameLen)' = [id |-> Pkt.id, i |-> Pkt.i, n |-> Pkt.n]
    BY <2>1 DEF CopyInv, Pkt
  <2>2. bufPtr.buf /= None /\ bufPtr.off = frameLen /\ frameLen \in 0 .. MaxLen - 1
    BY LenTypes, BufAssumption
  <2>3. mem' = [mem EXCEPT ![bufPtr.buf][bufPtr.off] = [id |-> Pkt.id, i |-> Pkt.i,
      n |-> Pkt.n]]
    BY <1>14, <2>2 DEF RecvCopy
  <2>4. mem \in [Bufs -> [0 .. MaxLen - 1 -> Data \cup {None}]]
    BY DEF IInv, TypeOK
  <2> QED BY <2>1, <2>2, <2>3, <2>4 DEF Got
<1>15. CASE RecvUpdate
  <2>1. thr' /= "update"
    BY <1>15 DEF RecvUpdate, Goto
  <2> QED BY <2>1 DEF CopyInv
<1>16. CASE RecvCheck
  <2>1. thr' /= "update"
    BY <1>16 DEF RecvCheck, Goto
  <2> QED BY <2>1 DEF CopyInv
<1>17. ASSUME NEW b \in Bufs, NEW l \in BufLens, NEW low \in Lows,
             ReadFrame(b, l, low)
      PROVE  CopyInv'
  <2>1. UNCHANGED <<thr, elem, cur, bufPtr, frameLen>>
    BY <1>17 DEF ReadFrame, tvars, vbuf
  <2> SUFFICES ASSUME thr = "update", bufPtr.buf \in Bufs, frameLen < MaxLen,
      mem'[bufPtr.buf][0] /= None
               PROVE  mem'[bufPtr.buf][frameLen] = [id |-> Pkt.id, i |-> Pkt.i,
                   n |-> Pkt.n]
    BY <2>1 DEF CopyInv, Pkt, Got
  <2>2. 0 \in 0 .. MaxLen - 1
    BY LenTypes
  <2>3. mem'[bufPtr.buf] = mem[bufPtr.buf]
    BY <1>17, <2>2 DEF ReadFrame, IInv, TypeOK, Blank
  <2> QED BY <2>3 DEF IInv, CopyInv, Got
<1>18. CASE ReadDrain
  BY <1>18, VideoAssumption
  DEF IInv, CopyInv, Pkt, Got, CtlInv, ThrPc, SendPc, vars, tvars, pool, vbuf, ReadDrain
<1>19. CASE ReadSet
  BY <1>19, VideoAssumption
  DEF IInv, CopyInv, Pkt, Got, CtlInv, ThrPc, SendPc, vars, tvars, pool, vbuf, ReadSet
<1>20. CASE ReadWoken
  BY <1>20, VideoAssumption
  DEF IInv, CopyInv, Pkt, Got, CtlInv, ThrPc, SendPc, vars, tvars, pool, vbuf, ReadWoken
<1>21. CASE ReadLen
  BY <1>21, VideoAssumption
  DEF IInv, CopyInv, Pkt, Got, CtlInv, ThrPc, SendPc, vars, tvars, pool, vbuf, ReadLen
<1>22. CASE ReadClear
  <2>1. UNCHANGED <<thr, elem, cur, bufPtr, frameLen>>
    BY <1>22 DEF ReadClear, tvars, vbuf
  <2> SUFFICES ASSUME thr = "update", bufPtr.buf \in Bufs, frameLen < MaxLen,
      mem'[bufPtr.buf][0] /= None
               PROVE  mem'[bufPtr.buf][frameLen] = [id |-> Pkt.id, i |-> Pkt.i,
                   n |-> Pkt.n]
    BY <2>1 DEF CopyInv, Pkt, Got
  <2>2. 0 \in 0 .. MaxLen - 1
    BY LenTypes
  <2>3. mem'[bufPtr.buf] = mem[bufPtr.buf]
    BY <1>22, <2>2 DEF ReadClear, IInv, TypeOK, Blank
  <2> QED BY <2>3 DEF IInv, CopyInv, Got
<1>23. CASE ReadLost
  BY <1>23, VideoAssumption
  DEF IInv, CopyInv, Pkt, Got, CtlInv, ThrPc, SendPc, vars, tvars, pool, vbuf, ReadLost
<1>24. CASE OpenVideo
  BY <1>24, VideoAssumption
  DEF IInv, CopyInv, Pkt, Got, CtlInv, ThrPc, SendPc, vars, tvars, pool, vbuf,
      OpenVideo, ResetVbuf, video_transfer_init
<1>25. CASE CloseVideo
  BY <1>25, VideoAssumption
  DEF IInv, CopyInv, Pkt, Got, CtlInv, ThrPc, SendPc, vars, tvars, pool, vbuf,
      CloseVideo, video_transfer_deinit, Posted
<1>26. CASE CloseWake
  BY <1>26, VideoAssumption
  DEF IInv, CopyInv, Pkt, Got, CtlInv, ThrPc, SendPc, vars, tvars, pool, vbuf, CloseWake
<1>27. CASE CloseSpin
  BY <1>27, VideoAssumption
  DEF IInv, CopyInv, Pkt, Got, CtlInv, ThrPc, SendPc, vars, tvars, pool, vbuf, CloseSpin
<1>28. CASE CloseStuck
  BY <1>28, VideoAssumption
  DEF IInv, CopyInv, Pkt, Got, CtlInv, ThrPc, SendPc, vars, tvars, pool, vbuf,
      CloseStuck
<1>29. CASE CloseFree
  BY <1>29, VideoAssumption
  DEF IInv, CopyInv, Pkt, Got, CtlInv, ThrPc, SendPc, vars, tvars, pool, vbuf,
      CloseFree, ResetVbuf
<1>30. CASE UNCHANGED vars
  BY <1>30, VideoAssumption
  DEF IInv, CopyInv, Pkt, Got, CtlInv, ThrPc, SendPc, vars, tvars, pool, vbuf, vars
<1>31. CASE RecvSignal
  <2>1. thr' /= "update"
    BY <1>31 DEF RecvSignal, Goto
  <2> QED BY <2>1 DEF CopyInv
<1> QED
  BY <1>1, <1>2, <1>3, <1>4, <1>5, <1>6, <1>7, <1>8, <1>9, <1>10, <1>11, <1>12,
      <1>13, <1>14, <1>15, <1>16, <1>17, <1>18, <1>19, <1>20, <1>21, <1>22, <1>23,
          <1>24, <1>25, <1>26, <1>27, <1>28, <1>29, <1>30, <1>31
  DEF Next, Camera, Thread, Transfer, Receive, Reader, Closer

\* LentInv is kept.
LEMMA LentStep ==
    ASSUME IInv, [Next]_vars
    PROVE  LentInv'
<1>1. ASSUME NEW last \in BOOLEAN, CameraNode(last) /\ UNCHANGED <<vbuf, mem, rd, ctl>>
      PROVE  LentInv'
  BY <1>1 DEF IInv, LentInv, vbuf, CameraNode
<1>2. CASE CameraEnd /\ UNCHANGED <<vbuf, mem, rd, ctl>>
  BY <1>2 DEF IInv, LentInv, vbuf, CameraEnd
<1>3. CASE ThreadStart /\ UNCHANGED <<vbuf, mem, rd, ctl>>
  BY <1>3 DEF IInv, LentInv, vbuf, ThreadStart
<1>4. CASE ThreadPop /\ UNCHANGED <<vbuf, mem, rd, ctl>>
  BY <1>4 DEF IInv, LentInv, vbuf, ThreadPop
<1>5. CASE PollEnd /\ UNCHANGED <<vbuf, mem, rd, ctl>>
  BY <1>5 DEF IInv, LentInv, vbuf, PollEnd
<1>6. CASE PollPop /\ UNCHANGED <<vbuf, mem, rd, ctl>>
  BY <1>6 DEF IInv, LentInv, vbuf, PollPop
<1>7. CASE PollGive /\ UNCHANGED <<vbuf, mem, rd, ctl>>
  BY <1>7 DEF IInv, LentInv, vbuf, PollGive
<1>8. CASE ExitPool /\ UNCHANGED <<vbuf, mem, rd, ctl>>
  BY <1>8 DEF IInv, LentInv, vbuf, ExitPool
<1>9. CASE ExitCamera /\ UNCHANGED <<vbuf, mem, rd, ctl>>
  BY <1>9 DEF IInv, LentInv, vbuf, ExitCamera
<1>10. CASE ExitQueue /\ UNCHANGED <<vbuf, mem, rd, ctl>>
  <2>1. thr' \notin {"copy", "update"}
    BY <1>10, VideoAssumption DEF ExitQueue, ThrPc, SendPc
  <2> QED BY <1>10, <2>1 DEF IInv, LentInv, vbuf
<1>11. CASE RecvCall
  BY <1>11 DEF IInv, LentInv, vbuf, RecvCall
<1>12. CASE RecvSof
  <2>1. thr' = "match" /\ bufBase' = bufBase /\ bufLen' = bufLen /\ bufLen >= 0
    BY <1>12, LenTypes DEF RecvSof, Goto
  <2>2. CASE Pkt.id /= frmId /\ Pkt.seq = 1
    <3>1. /\ frameLen' = 0 /\ bufPtr'.buf = bufBase
          /\ returned' = (bufBase = None)
      BY <1>12, <2>2 DEF RecvSof
    <3>2. ~returned' => bufBase /= None
      BY <3>1, Zenon
    <3> QED BY <2>1, <3>1, <3>2 DEF LentInv
  <2>3. CASE ~(Pkt.id /= frmId /\ Pkt.seq = 1)
    BY <1>12, <2>1, <2>3 DEF IInv, LentInv, RecvSof
  <2> QED BY <2>2, <2>3
<1>13. CASE RecvMatch
  <2>1. frameLen \in Nat /\ bufLen \in Nat
    BY LenTypes
  <2> QED
    BY <1>13, <2>1 DEF IInv, LentInv, Expected, RecvMatch, Goto
<1>14. CASE RecvCopy
  BY <1>14 DEF IInv, LentInv, vbuf, RecvCopy, Goto
<1>15. CASE RecvUpdate
  <2>1. frameLen \in Nat /\ bufLen \in Nat
    BY LenTypes
  <2>2. bufPtr'.buf = bufPtr.buf
    BY <1>15 DEF IInv, TypeOK, RecvUpdate
  <2>3. thr = "update" /\ thr' \in {"check", "pop"} /\ frameLen' = frameLen + 1
        /\ UNCHANGED <<bufBase, bufLen, startBuf, returned>>
    BY <1>15 DEF RecvUpdate, Goto
  <2> QED
    BY <2>1, <2>2, <2>3 DEF IInv, LentInv
<1>16. CASE RecvCheck
  BY <1>16 DEF IInv, LentInv, RecvCheck, Goto
<1>17. ASSUME NEW b \in Bufs, NEW l \in BufLens, NEW low \in Lows,
             ReadFrame(b, l, low)
      PROVE  LentInv'
  BY <1>17 DEF IInv, LentInv, tvars, vbuf, ReadFrame
<1>18. CASE ReadDrain
  BY <1>18 DEF IInv, LentInv, tvars, ReadDrain
<1>19. CASE ReadSet
  <2>1. bufBase = None
    BY <1>19 DEF IInv, RdInv, ReadSet
  <2> QED
    BY <1>19, <2>1 DEF IInv, LentInv, tvars, ReadSet
<1>20. CASE ReadWoken
  BY <1>20 DEF IInv, LentInv, tvars, ReadWoken
<1>21. CASE ReadLen
  BY <1>21 DEF IInv, LentInv, tvars, vbuf, ReadLen
<1>22. CASE ReadClear
  BY <1>22 DEF IInv, LentInv, tvars, ReadClear
<1>23. CASE ReadLost
  BY <1>23 DEF IInv, LentInv, tvars, vbuf, ReadLost
<1>24. CASE OpenVideo
  BY <1>24 DEF LentInv, OpenVideo, ResetVbuf, video_transfer_init
<1>25. CASE CloseVideo
  BY <1>25 DEF IInv, LentInv, vbuf, CloseVideo, video_transfer_deinit
<1>26. CASE CloseWake
  BY <1>26 DEF IInv, LentInv, tvars, CloseWake
<1>27. CASE CloseSpin
  BY <1>27 DEF IInv, LentInv, tvars, vbuf, CloseSpin
<1>28. CASE CloseStuck
  BY <1>28 DEF IInv, LentInv, tvars, vbuf, CloseStuck
<1>29. CASE CloseFree
  <2>1. thr' = None /\ returned'
    BY <1>29 DEF IInv, CtlInv, tvars, CloseFree, ResetVbuf
  <2>2. thr' \notin {"copy", "update"}
    BY <2>1, VideoAssumption DEF ThrPc, SendPc
  <2> QED BY <2>1, <2>2 DEF LentInv
<1>30. CASE UNCHANGED vars
  BY <1>30 DEF IInv, LentInv, tvars, vbuf, vars
<1>31. CASE RecvSignal
  BY <1>31 DEF IInv, LentInv, RecvSignal, Goto
<1> QED
  BY <1>1, <1>2, <1>3, <1>4, <1>5, <1>6, <1>7, <1>8, <1>9, <1>10, <1>11, <1>12,
      <1>13, <1>14, <1>15, <1>16, <1>17, <1>18, <1>19, <1>20, <1>21, <1>22, <1>23,
          <1>24, <1>25, <1>26, <1>27, <1>28, <1>29, <1>30, <1>31
  DEF Next, Camera, Thread, Transfer, Receive, Reader, Closer

\* The inductive invariant holds initially.
LEMMA InitIInv == Init => IInv
<1> SUFFICES ASSUME Init PROVE IInv
  OBVIOUS
<1>1. 0 \in 0 .. MaxFrames /\ 0 \in 0 .. SeqMod - 1 /\ 0 \in 0 .. MaxPkts
  BY VideoAssumption
<1>2. TransferTypeOK
  <2>1. cam \in [open : BOOLEAN, got : 0 .. MaxPkts, full : BOOLEAN]
    BY <1>1 DEF Init, TransferInit
  <2>2. elem \in [Elems -> Packet]
    BY NoPacketType DEF Init, TransferInit
  <2>3. free \in Seq(Elems) /\ ready \in Seq(Elems)
    BY DEF Init, TransferInit
  <2>4. hasPool \in BOOLEAN
    BY DEF Init, TransferInit
  <2>5. /\ frameId \in 0 .. MaxFrames /\ pktSeq \in 0 .. SeqMod - 1
        /\ que = None /\ thr = None /\ cur = None
    BY <1>1 DEF Init, TransferInit
  <2> QED BY <2>1, <2>2, <2>3, <2>4, <2>5 DEF TransferTypeOK
<1>3. VbufTypeOK
  <2>1. bufPtr \in [buf : Bufs \cup {None}, off : 0 .. SeqMod - 1]
    BY <1>1 DEF Init
  <2>2. mem \in [Bufs -> [0 .. MaxLen - 1 -> Data \cup {None}]]
    BY DEF Init
  <2> QED BY <2>1, <2>2, <1>1 DEF Init, VbufTypeOK
<1>4. RdTypeOK
  <2>1. rd \in [pc : RdPc, buf : Bufs \cup {None}, len : BufLens \cup {0},
               low : BOOLEAN, late : BOOLEAN]
    BY DEF Init, RdPc
  <2> QED BY <2>1 DEF Init, RdTypeOK, CtlPc
<1>5. TypeOK
  BY <1>2, <1>3, <1>4, TypeSplit
<1>6. thr = None /\ thr \notin ThrPc /\ cam.got = 0 /\ ~cam.open /\ ~cam.full /\ bufPtr.off = 0
  BY VideoAssumption DEF Init, TransferInit
<1>7. ~Active /\ thr \notin SendPc
  BY <1>6 DEF Active, ThrPc
<1>8. PoolConserved
  BY <1>6 DEF PoolConserved
<1>9. ThrInv
  BY <1>6, <1>7, VideoAssumption DEF Init, TransferInit, ThrInv, ThrPc
<1>10. CtlInv
  BY <1>6 DEF Init, CtlInv
<1>11. RdInv
  BY DEF Init, RdInv
<1>12. PosInv
  BY <1>6, <1>7 DEF Init, PosInv, SendPc, ThrPc
<1>13. OrdInv /\ FillInv
  BY <1>7 DEF OrdInv, FillInv, Filling
<1>14. CopyInv
  BY <1>7 DEF CopyInv, SendPc
<1>15. LentInv
  BY <1>7 DEF Init, LentInv, SendPc
<1> QED BY <1>5, <1>8, <1>9, <1>10, <1>11, <1>12, <1>13, <1>14, <1>15 DEF IInv

\* Every step keeps the inductive invariant.
LEMMA NextIInv == IInv /\ [Next]_vars => IInv'
<1> SUFFICES ASSUME IInv, [Next]_vars PROVE IInv'
  OBVIOUS
<1>1. TypeOK'
  <2>1. TransferTypeOK' /\ VbufTypeOK' /\ RdTypeOK'
    BY TransferStep, VbufStep, RdTypeStep
  <2> QED BY <2>1 DEF TypeOK, VbufTypeOK, RdTypeOK
<1> QED
  BY <1>1, PoolStep, ThrStep, CtlStep, RdStep, PosStep, OrdStep, FillStep, CopyStep,
     LentStep
  DEF IInv

\* The inductive invariant holds always.
THEOREM Invariance == Spec => []IInv
  BY InitIInv, NextIInv, PTL DEF Spec

\* Every variable of video_buffer.c and video_transfer.c has its type;
\* in particular aready_semaphore stays binary, and the counters of the send
\* function stay in the range of the header's pkt_seq.
THEOREM TypeCorrect == Spec => []TypeOK
<1>1. IInv => TypeOK
  BY DEF IInv
<1> QED BY <1>1, Invariance, PTL

\* Whatever the interrupts do between two steps of tvideo_poll_handler, no
\* element is lost, none is on both lists, and the one the send function
\* reads is not handed out.
THEOREM PoolIsConserved == Spec => []PoolConserved
<1>1. IInv => PoolConserved
  BY DEF IInv
<1> QED BY <1>1, Invariance, PTL

\* When video_transfer_deinit has returned, thread, queue, pool and camera
\* are gone.
THEOREM DeinitIsQuiescent == Spec => []QuiescentAfterDeinit
<1>1. IInv => QuiescentAfterDeinit
  BY DEF IInv, ThrInv, CtlInv, QuiescentAfterDeinit
<1> QED BY <1>1, Invariance, PTL

\* A reader that gave its buffer before the closer's last look at buf_base
\* finds g_vbuf and its own buffer there until it clears buf_base, whether it
\* is woken by a frame or by the close.
THEOREM WokenReaderIsSafe == Spec => []WokenReaderSafe
<1>1. IInv => WokenReaderSafe
  BY DEF IInv, RdInv, WokenReaderSafe
<1> QED BY <1>1, Invariance, PTL

\* The send function copies only into the buffer that is lent and only within
\* its length, unless the reader that lent the buffer the frame began in has
\* returned.
THEOREM CopiesStayInBuffer == Spec => []CopyStaysInBuffer
<1>1. ASSUME IInv PROVE CopyStaysInBuffer
  <2> SUFFICES ASSUME thr = "copy", ~returned
               PROVE  bufBase /= None /\ bufPtr.buf = bufBase /\ bufPtr.off < bufLen
    BY DEF CopyStaysInBuffer
  <2> QED BY <1>1 DEF IInv, LentInv, PosInv
<1> QED BY <1>1, Invariance, PTL

\* The check at the end of a frame, by markers and trailer length only,
\* passes only for the parts of one frame, complete and in order, although
\* packets dropped for want of an element leave no gap in the numbering.
THEOREM SignalledFramesWhole == Spec => []SignalledFrameIsWhole
<1>1. ASSUME IInv PROVE SignalledFrameIsWhole
  <2> SUFFICES ASSUME thr = "check", RightImage, bufPtr = [buf |-> bufBase,
      off |-> frameLen]
               PROVE  Whole(mem[bufBase], frameLen, frmId)
    BY DEF SignalledFrameIsWhole
  <2>1. bufPtr.buf = bufBase /\ bufBase \in Bufs
    BY <1>1 DEF RightImage, IInv, TypeOK
  <2>2. /\ frameLen \in 1 .. MaxLen /\ frameLen - 1 \in 0 .. frameLen - 1
        /\ frameLen - 1 \in 0 .. MaxLen - 1 /\ MaxLen \in Nat
    BY <1>1, LenTypes DEF RightImage, IInv, PosInv
  <2>3. Got(0) /= None /\ Got(frameLen - 1) /= None /\ Got(frameLen - 1).n = frameLen
    BY <2>1 DEF RightImage, Got
  <2>4. Filling
    BY <2>1, <2>2, <2>3 DEF Filling, Active, SendPc
  <2>5. \A k \in 0 .. frameLen - 1 :
           /\ Got(k) /= None /\ Got(k).id = frmId /\ Got(k).n \in {0, Got(k).i}
           /\ Got(k).i >= k + 1 /\ Got(frameLen - 1).i - Got(k).i >= frameLen - 1 - k
    BY <1>1, <2>4 DEF IInv, FillInv
  <2>6. Got(frameLen - 1).i = frameLen
    BY <2>2, <2>3, <2>5
  <2>7. ASSUME NEW k \in 0 .. frameLen - 1
        PROVE  Got(k).i = k + 1
    <3>1. k \in 0 .. MaxLen - 1
      BY <2>2
    <3>2. Got(k).i \in Nat
      BY <1>1, <2>1, <2>5, <3>1, GotTypes
    <3>3. Got(k).i >= k + 1 /\ frameLen - Got(k).i >= frameLen - 1 - k
      BY <2>5, <2>6
    <3> QED BY <2>2, <3>2, <3>3
  <2> QED BY <2>1, <2>2, <2>3, <2>5, <2>7 DEF Whole, Got
<1> QED BY <1>1, Invariance, PTL
=============================================================================
