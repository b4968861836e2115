--------------------------- MODULE VideoTransfer ---------------------------
(***************************************************************************)
(* The video transfer component (src/components/video_transfer,            *)
(* src/components/camera_intf): the camera interrupts put the packets of   *)
(* a frame into elements of a pool, the transfer thread hands them to the  *)
(* send function of its user and gives the elements back.  The interrupt   *)
(* wakes the thread by a message; the user ends it by another one, over    *)
(* the same bounded queue, and waits until the thread has gone.            *)
(*                                                                         *)
(* This module holds the state and the operations; VideoBuffer composes    *)
(* them with the send function and the threads that use it.  The packet    *)
(* header (video_buffer_add_pkt_header) is built by the interrupt and is   *)
(* therefore here.  An interrupt is one step; so is an operation on a list *)
(* of the thread (co_list.c is in a library; external).                    *)
(*                                                                         *)
(* A packet stands for its header and its data: id and seq are the         *)
(* header's, i says which part of the frame the data is, and n, when not   *)
(* 0, that the data ends with the JPEG trailer of a frame of n packets.    *)
(***************************************************************************)
EXTENDS Integers, Sequences, FiniteSets, Functions

CONSTANTS Elems,     \* elements of tvideo_pool
          QItems,    \* TV_QITEM_COUNT
          MaxPkts,   \* bound: packets of a frame
          MaxFrames, \* bound: frames of a session, below the range of the UINT8 id
          SeqMod,    \* range of the header's UINT8 pkt_seq
          None

(* Where the thread is while it has the head of the ready list in hand.    *)
SendPc == {"sof", "match", "copy", "update", "check", "signal", "pop"}
ThrPc  == {"start", "wait", "poll", "give", "exit", "exit_cam", "exit_que"} \cup SendPc

ASSUME VideoAssumption ==
    /\ IsFiniteSet(Elems)
    /\ QItems \in Nat /\ QItems > 0
    /\ MaxPkts \in Nat /\ MaxPkts > 0
    /\ MaxFrames \in Nat
    /\ SeqMod \in Nat /\ SeqMod > MaxPkts
    /\ None \notin ThrPc \cup Elems

VARIABLES
    hasPool,   \* tvideo_pool.pool is allocated
    free,      \* tvideo_pool.free
    ready,     \* tvideo_pool.ready
    elem,      \* the packet in each element
    frameId,   \* tvideo_pool.frame_id
    pktSeq,    \* g_pkt_seq (as far as the header keeps it)
    cam,       \* camera: is it open, nodes of the frame so far, frame complete
    que,       \* tvideo_msg_que, None when there is none
    thr,       \* the transfer thread: None, or where it is
    cur        \* its elem in tvideo_poll_handler, None outside

tvars == <<hasPool, free, ready, elem, frameId, pktSeq, cam, que, thr, cur>>
pool  == <<hasPool, free, ready, elem>>

Packet == [id : 0 .. MaxFrames, seq : 0 .. SeqMod - 1, i : 1 .. MaxPkts,
           n : 0 .. MaxPkts, eof : BOOLEAN]

NoPacket == [id |-> 0, seq |-> 0, i |-> 1, n |-> 0, eof |-> FALSE]

TransferTypeOK ==
    /\ hasPool \in BOOLEAN
    /\ free \in Seq(Elems) /\ ready \in Seq(Elems)
    /\ elem \in [Elems -> Packet]
    /\ frameId \in 0 .. MaxFrames
    /\ pktSeq \in 0 .. SeqMod - 1
    /\ cam \in [open : BOOLEAN, got : 0 .. MaxPkts, full : BOOLEAN]
    /\ que = None \/ (que \in Seq({"poll", "exit"}) /\ Len(que) <= QItems)
    /\ thr \in ThrPc \cup {None}
    /\ cur \in Elems \cup {None}

TransferInit ==
    /\ hasPool = FALSE
    /\ free = <<>> /\ ready = <<>>
    /\ elem = [e \in Elems |-> NoPacket]
    /\ frameId = 0 /\ pktSeq = 0
    /\ cam = [open |-> FALSE, got |-> 0, full |-> FALSE]
    /\ que = None /\ thr = None /\ cur = None

(* The elements in the order tvideo_pool_init puts them on the free list.  *)
ElemOrder ==
    CHOOSE s \in [1 .. Cardinality(Elems) -> Elems] : IsInjective(s) /\ Range(s) = Elems

(* tvideo_intfer_send_msg: the queue q after a message; it is lost when    *)
(* the queue is full.                                                      *)
Posted(q, msg) == IF q /= None /\ Len(q) < QItems THEN Append(q, msg) ELSE q
-----------------------------------------------------------------------------
(***************************************************************************)
(* The camera's interrupts.                                                *)
(***************************************************************************)

(* tvideo_rx_handler: the packet goes to the first free element, its       *)
(* header numbered by the packets that found one; without a free element   *)
(* it is lost and the numbering does not notice.                           *)
RxHandler(i, n, isEof) ==
    IF free /= <<>>
    THEN LET seq == (pktSeq + 1) % SeqMod IN
         /\ elem' = [elem EXCEPT ![Head(free)] =
                        [id |-> frameId, seq |-> seq, i |-> i, n |-> n, eof |-> isEof]]
         /\ pktSeq' = IF isEof THEN 0 ELSE seq
         /\ free' = Tail(free)
         /\ ready' = Append(ready, Head(free))
    ELSE UNCHANGED <<elem, pktSeq, free, ready>>

(* Mutant: only the end of a frame is announced to the thread.             *)
CameraNode_silent(last) ==
    /\ cam.open /\ ~cam.full /\ frameId < MaxFrames
    /\ cam.got + 1 < MaxPkts \/ last
    /\ RxHandler(cam.got + 1, IF last THEN cam.got + 1 ELSE 0, FALSE)
    /\ cam' = [cam EXCEPT !.got = @ + 1, !.full = last]
    /\ UNCHANGED <<hasPool, frameId, que, thr, cur>>

(* camera_intf_ejpeg_rx_handler: a full node.  last: the frame ends        *)
(* exactly with this node.                                                 *)
CameraNode(last) ==
    /\ cam.open /\ ~cam.full /\ frameId < MaxFrames
    /\ cam.got + 1 < MaxPkts \/ last
    /\ RxHandler(cam.got + 1, IF last THEN cam.got + 1 ELSE 0, FALSE)
    /\ cam' = [cam EXCEPT !.got = @ + 1, !.full = last]
    /\ que' = Posted(que, "poll")
    /\ UNCHANGED <<hasPool, frameId, thr, cur>>

(* camera_intf_delay_timer_hdl at the end of a frame: the rest of the      *)
(* frame, marked eof, if there is one; then tvideo_end_frame_handler.      *)
CameraEnd ==
    /\ cam.open /\ frameId < MaxFrames
    /\ IF cam.full
       THEN /\ UNCHANGED <<elem, pktSeq, free, ready>>
            /\ que' = Posted(que, "poll")
       ELSE /\ RxHandler(cam.got + 1, cam.got + 1, TRUE)
            /\ que' = Posted(Posted(que, "poll"), "poll")
    /\ frameId' = frameId + 1
    /\ cam' = [cam EXCEPT !.got = 0, !.full = FALSE]
    /\ UNCHANGED <<hasPool, thr, cur>>
-----------------------------------------------------------------------------
(***************************************************************************)
(* The transfer thread, up to the call of the send function.               *)
(***************************************************************************)

(* video_transfer_main: tvideo_pool_init, then camera_intfer_init.         *)
ThreadStart ==
    /\ thr = "start"
    /\ hasPool' = TRUE
    /\ free' = ElemOrder /\ ready' = <<>>
    /\ elem' = [e \in Elems |-> NoPacket]
    /\ frameId' = 0
    /\ cam' = [open |-> TRUE, got |-> 0, full |-> FALSE]
    /\ thr' = "wait"
    /\ UNCHANGED <<pktSeq, que, cur>>

ThreadPop ==
    /\ thr = "wait"
    /\ que /= <<>>
    /\ thr' = IF Head(que) = "poll" THEN "poll" ELSE "exit"
    /\ que' = Tail(que)
    /\ UNCHANGED <<pool, frameId, pktSeq, cam, cur>>

(* tvideo_poll_handler found the ready list empty.                         *)
PollEnd ==
    /\ thr = "poll" /\ ready = <<>>
    /\ thr' = "wait"
    /\ UNCHANGED <<pool, frameId, pktSeq, cam, que, cur>>

(* tvideo_poll_handler after the send function took the packet: the        *)
(* element leaves the ready list, then it goes to the free list.           *)
PollPop ==
    /\ thr = "pop"
    /\ ready' = Tail(ready)
    /\ thr' = "give"
    /\ UNCHANGED <<hasPool, free, elem, frameId, pktSeq, cam, que, cur>>

(* Mutant: the element at the head of the ready list is given back.        *)
PollGive_head ==
    /\ thr = "give"
    /\ free' = IF ready /= <<>> THEN Append(free, Head(ready)) ELSE Append(free, cur)
    /\ elem' = [elem EXCEPT ![cur] = NoPacket]
    /\ cur' = None
    /\ thr' = "poll"
    /\ UNCHANGED <<hasPool, ready, frameId, pktSeq, cam, que>>

(* What a free element still holds is never read: it counts as nothing.    *)
PollGive ==
    /\ thr = "give"
    /\ free' = Append(free, cur)
    /\ elem' = [elem EXCEPT ![cur] = NoPacket]
    /\ cur' = None
    /\ thr' = "poll"
    /\ UNCHANGED <<hasPool, ready, frameId, pktSeq, cam, que>>

(* Mutant: the thread is reported gone as soon as the pool is freed.       *)
ExitPool_early ==
    /\ thr = "exit"
    /\ hasPool' = FALSE
    /\ que' = None /\ thr' = None
    /\ UNCHANGED <<free, ready, elem, frameId, pktSeq, cam, cur>>

(* tvideo_exit: the pool is freed, then the camera is closed, then the     *)
(* queue is deleted and the thread handle cleared.                         *)
ExitPool ==
    /\ thr = "exit"
    /\ hasPool' = FALSE
    /\ thr' = "exit_cam"
    /\ UNCHANGED <<free, ready, elem, frameId, pktSeq, cam, que, cur>>

ExitCamera ==
    /\ thr = "exit_cam"
    /\ cam' = [open |-> FALSE, got |-> 0, full |-> FALSE]
    /\ thr' = "exit_que"
    /\ UNCHANGED <<pool, frameId, pktSeq, que, cur>>

(* Mutant: the thread handle is not cleared.                               *)
ExitQueue_kept ==
    /\ thr = "exit_que" /\ que /= None
    /\ que' = None
    /\ UNCHANGED <<pool, frameId, pktSeq, cam, thr, cur>>

ExitQueue ==
    /\ thr = "exit_que"
    /\ que' = None /\ thr' = None
    /\ UNCHANGED <<pool, frameId, pktSeq, cam, cur>>
-----------------------------------------------------------------------------
(***************************************************************************)
(* What the user calls.                                                    *)
(***************************************************************************)
video_transfer_init ==
    /\ que = None /\ thr = None
    /\ que' = <<>> /\ thr' = "start"
    /\ UNCHANGED <<pool, frameId, pktSeq, cam, cur>>

(* The first half of video_transfer_deinit; the second waits for thr.      *)
video_transfer_deinit ==
    /\ que' = Posted(que, "exit")
    /\ UNCHANGED <<pool, frameId, pktSeq, cam, thr, cur>>
=============================================================================
