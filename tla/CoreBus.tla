------------------------------ MODULE CoreBus ------------------------------
(***************************************************************************)
(* The WLAN message bus of app/app.c: every part of the system talks to    *)
(* the 802.11 MAC through g_wifi_core.io_queue, a FreeRTOS queue that many *)
(* contexts fill and that core_thread empties, one message at a time.      *)
(*                                                                         *)
(*   - interrupt handlers of the MAC post RX indications (bmsg_rx_sender), *)
(*     throttled by the counter bmsg_rx_count;                             *)
(*   - the network stack posts pbufs (bmsg_tx_sender) and applications     *)
(*     post raw frames (bmsg_tx_raw_sender); both hand over a reference    *)
(*     and may wait a second for room in the queue;                        *)
(*   - everybody else posts without waiting (Ctl below).                   *)
(*                                                                         *)
(* A step is what one context does between two points at which another one *)
(* can run.  Code between GLOBAL_INT_DISABLE and GLOBAL_INT_RESTORE, and a *)
(* FreeRTOS queue operation, are single steps.                             *)
(***************************************************************************)
EXTENDS Integers, Sequences, FiniteSets

CONSTANTS
    QItems,     \* CORE_QITEM_COUNT, the capacity of io_queue
    RxLimit,    \* the 2 that bmsg_rx_sender compares bmsg_rx_count with
    RxCtx,      \* contexts that call bmsg_rx_sender
    TxThreads,  \* threads that call bmsg_tx_sender and bmsg_tx_raw_sender
    Pbufs,      \* lwIP packet buffers
    Raws,       \* copies made by bk_wlan_send_80211_raw_frame
    None        \* no buffer

ASSUME QItemsAssumption == QItems \in Nat \ {0}
ASSUME RxLimitAssumption == RxLimit \in Nat \ {0}
ASSUME RxCtxAssumption == IsFiniteSet(RxCtx)
ASSUME TxThreadsAssumption == IsFiniteSet(TxThreads)
ASSUME BufsAssumption == Pbufs \cap Raws = {} /\ None \notin Pbufs \cup Raws

VARIABLES
    io_queue,        \* g_wifi_core.io_queue
    bmsg_rx_count,   \* RX indications believed to be in the queue
    rx_pc,           \* where each context is in bmsg_rx_sender
    rx_lost,         \* history: RX messages counted and then not queued
    ref,             \* reference count of each buffer, 0 when it is free
    owned,           \* buffers the network stack itself still refers to
    sending,         \* the buffer each thread is posting, or None
    core_pc,         \* where core_thread_main is in its loop
    msg,             \* the message it took
    hold,            \* the buffer its TX handler has to free, or None
    ke_skip,         \* local flag: leave out the kernel scheduler
    ps_flag,         \* local flag: run the power save handler afterwards
    deferred         \* the last RF sleep check gave up: queue not empty

vars == <<io_queue, bmsg_rx_count, rx_pc, rx_lost, ref, owned, sending,
          core_pc, msg, hold, ke_skip, ps_flag, deferred>>

rxVars == <<bmsg_rx_count, rx_pc, rx_lost>>
bufVars == <<ref, owned, sending>>
coreVars == <<core_pc, msg, hold, ke_skip, ps_flag, deferred>>

Bufs == Pbufs \cup Raws

\* BUS_MSG_T.  Only TX messages carry a buffer that changes owner.  "plain"
\* stands for the types that the loop treats alike: IOCTL, SKT_TX, TX_RAW_CB
\* (whose buffer stays with the caller) and the power save command
\* RF_DISANABLE; the other power save commands are "ps" and "ps_keep_timer".
Ctl == {"plain", "media", "ps", "ps_keep_timer"}
RxMsg == [type |-> "rx", arg |-> None]
NullMsg == [type |-> "null", arg |-> None]
CtlMsg(t) == [type |-> t, arg |-> None]
BufMsg(b) == [type |-> IF b \in Pbufs THEN "tx" ELSE "tx_raw", arg |-> b]
BusMsg == {RxMsg, NullMsg} \cup {CtlMsg(t) : t \in Ctl} \cup {BufMsg(b) : b \in Bufs}

\* The queue of FreeRTOS: whether xQueueGenericSend finds a free place, and
\* what rtos_push_to_queue does when it finds one.
Room == Len(io_queue) < QItems
Push(m) == io_queue' = Append(io_queue, m)

Init ==
    /\ io_queue = <<>>
    /\ bmsg_rx_count = 0
    /\ rx_pc = [c \in RxCtx |-> "idle"]
    /\ rx_lost = 0
    /\ ref = [b \in Bufs |-> 0]
    /\ owned = {}
    /\ sending = [t \in TxThreads |-> None]
    /\ core_pc = "pop"
    /\ msg = NullMsg
    /\ hold = None
    /\ ke_skip = FALSE
    /\ ps_flag = FALSE
    /\ deferred = FALSE

-----------------------------------------------------------------------------
(***************************************************************************)
(* Variants of operations below with a mistake that is easy to make in     *)
(* this code.  They are not part of Next; each shows that some property    *)
(* would notice the mistake.                                               *)
(***************************************************************************)
\* The handler forgets to lower the counter.
bmsg_rx_handler_uncounted ==
    /\ core_pc = "dispatch" /\ msg.type = "rx"
    /\ core_pc' = "sched"
    /\ UNCHANGED <<io_queue, rxVars, bufVars, msg, hold, ke_skip, ps_flag, deferred>>

\* The error path keeps the reference.
tx_push_failed_leak(t) ==
    /\ sending[t] # None /\ ~Room
    /\ sending' = [sending EXCEPT ![t] = None]
    /\ UNCHANGED <<io_queue, rxVars, ref, owned, coreVars>>

\* The error path frees, and so does the caller that sees the error returned.
tx_push_failed_twice(t) ==
    /\ sending[t] # None /\ ~Room
    /\ ref' = [ref EXCEPT ![sending[t]] = @ - 2]
    /\ sending' = [sending EXCEPT ![t] = None]
    /\ UNCHANGED <<io_queue, rxVars, owned, coreVars>>

\* The handler returns without pbuf_free or os_free.
core_free_leak ==
    /\ core_pc = "free"
    /\ hold' = None
    /\ core_pc' = "sched"
    /\ UNCHANGED <<io_queue, rxVars, bufVars, msg, ke_skip, ps_flag, deferred>>

\* bmsg_is_empty is read the wrong way round.
power_save_rf_sleep_check_inverted ==
    /\ core_pc = "sleep_check"
    /\ deferred' \in {FALSE, io_queue = <<>>}
    /\ core_pc' = "pop"
    /\ msg' = NullMsg
    /\ UNCHANGED <<io_queue, rxVars, bufVars, hold, ke_skip, ps_flag>>
-----------------------------------------------------------------------------
(***************************************************************************)
(* bmsg_rx_sender: the counter is tested and raised with interrupts off,   *)
(* the message is pushed afterwards and without waiting.  A push that      *)
(* finds the queue full leaves the counter raised.                         *)
(***************************************************************************)
bmsg_rx_sender(c) ==
    /\ rx_pc[c] = "idle"
    /\ bmsg_rx_count < RxLimit
    /\ bmsg_rx_count' = bmsg_rx_count + 1
    /\ rx_pc' = [rx_pc EXCEPT ![c] = "counted"]
    /\ UNCHANGED <<io_queue, rx_lost, bufVars, coreVars>>

bmsg_rx_sender_push(c) ==
    /\ rx_pc[c] = "counted"
    /\ rx_pc' = [rx_pc EXCEPT ![c] = "idle"]
    /\ \/ Room /\ Push(RxMsg) /\ UNCHANGED rx_lost
       \/ ~Room /\ rx_lost' = rx_lost + 1 /\ UNCHANGED io_queue
    /\ UNCHANGED <<bmsg_rx_count, bufVars, coreVars>>

(***************************************************************************)
(* The network stack (lwIP, pbuf.c): it allocates a pbuf, and drops its    *)
(* own reference when it no longer needs it, except while it is inside     *)
(* low_level_output with that pbuf.                                        *)
(***************************************************************************)
pbuf_alloc(b) ==
    /\ b \in Pbufs /\ ref[b] = 0
    /\ ref' = [ref EXCEPT ![b] = 1]
    /\ owned' = owned \cup {b}
    /\ UNCHANGED <<io_queue, rxVars, sending, coreVars>>

stack_pbuf_free(b) ==
    /\ b \in owned
    /\ \A t \in TxThreads : sending[t] # b
    /\ owned' = owned \ {b}
    /\ ref' = [ref EXCEPT ![b] = @ - 1]
    /\ UNCHANGED <<io_queue, rxVars, sending, coreVars>>

(***************************************************************************)
(* bmsg_tx_sender takes a reference for the message before it pushes;      *)
(* bk_wlan_send_80211_raw_frame allocates the copy that the message owns.  *)
(* Both then wait up to a second for room and free on failure.             *)
(***************************************************************************)
bmsg_tx_sender(t, b) ==
    /\ sending[t] = None
    /\ b \in owned
    /\ ref' = [ref EXCEPT ![b] = @ + 1]
    /\ sending' = [sending EXCEPT ![t] = b]
    /\ UNCHANGED <<io_queue, rxVars, owned, coreVars>>

bmsg_tx_raw_sender(t, b) ==
    /\ sending[t] = None
    /\ b \in Raws /\ ref[b] = 0
    /\ ref' = [ref EXCEPT ![b] = 1]
    /\ sending' = [sending EXCEPT ![t] = b]
    /\ UNCHANGED <<io_queue, rxVars, owned, coreVars>>

tx_push(t) ==
    /\ sending[t] # None /\ Room
    /\ Push(BufMsg(sending[t]))
    /\ sending' = [sending EXCEPT ![t] = None]
    /\ UNCHANGED <<rxVars, ref, owned, coreVars>>

tx_push_failed(t) ==
    /\ sending[t] # None /\ ~Room
    /\ ref' = [ref EXCEPT ![sending[t]] = @ - 1]
    /\ sending' = [sending EXCEPT ![t] = None]
    /\ UNCHANGED <<io_queue, rxVars, owned, coreVars>>

\* bmsg_ioctl_sender, bmsg_skt_tx_sender, bmsg_music_sender, bmsg_ps_sender:
\* no waiting; when the queue is full they report the error and do nothing.
bmsg_ctl_sender(t) ==
    /\ Room
    /\ Push(CtlMsg(t))
    /\ UNCHANGED <<rxVars, bufVars, coreVars>>
-----------------------------------------------------------------------------
(***************************************************************************)
(* core_thread_main, one step per point at which it can be preempted.      *)
(***************************************************************************)
core_pop ==
    /\ core_pc = "pop" /\ io_queue # <<>>
    /\ msg' = Head(io_queue)
    /\ io_queue' = Tail(io_queue)
    /\ core_pc' = "dispatch"
    /\ UNCHANGED <<rxVars, bufVars, hold, ke_skip, ps_flag, deferred>>

bmsg_rx_handler ==
    /\ core_pc = "dispatch" /\ msg.type = "rx"
    /\ bmsg_rx_count' = IF bmsg_rx_count > 0 THEN bmsg_rx_count - 1 ELSE bmsg_rx_count
    /\ core_pc' = "sched"
    /\ UNCHANGED <<io_queue, rx_pc, rx_lost, bufVars, msg, hold, ke_skip, ps_flag, deferred>>

\* A chained pbuf is copied into a new one: pbuf_coalesce drops p and the
\* handler goes on with the copy, which nobody else knows.  A pbuf that is
\* not chained, and one that cannot be copied, is the one to free at the end.
bmsg_tx_handler ==
    /\ core_pc = "dispatch" /\ msg.type = "tx"
    /\ \/ hold' = msg.arg /\ UNCHANGED ref
       \/ hold' = None /\ ref' = [ref EXCEPT ![msg.arg] = @ - 1]
    /\ core_pc' = "free"
    /\ UNCHANGED <<io_queue, rxVars, owned, sending, msg, ke_skip, ps_flag, deferred>>

\* Whatever becomes of the MSDU node and the descriptor, the copy is freed.
bmsg_tx_raw_handler ==
    /\ core_pc = "dispatch" /\ msg.type = "tx_raw"
    /\ hold' = msg.arg
    /\ core_pc' = "free"
    /\ UNCHANGED <<io_queue, rxVars, bufVars, msg, ke_skip, ps_flag, deferred>>

\* pbuf_free(q) of the TX handler, os_free(pkt) of the raw one.
core_free ==
    /\ core_pc = "free"
    /\ ref' = IF hold = None THEN ref ELSE [ref EXCEPT ![hold] = @ - 1]
    /\ hold' = None
    /\ core_pc' = "sched"
    /\ UNCHANGED <<io_queue, rxVars, owned, sending, msg, ke_skip, ps_flag, deferred>>

\* Only the power save commands other than RF_DISANABLE wait until after the
\* kernel scheduler, and only media messages leave the scheduler out.
core_ctl ==
    /\ core_pc = "dispatch" /\ msg.type \in Ctl \cup {"null"}
    /\ ps_flag' = (msg.type \in {"ps", "ps_keep_timer"})
    /\ ke_skip' = (msg.type = "media")
    /\ core_pc' = "sched"
    /\ UNCHANGED <<io_queue, rxVars, bufVars, msg, hold, deferred>>

\* msg.sema is NULL in every sender, so no semaphore is set.
core_sched ==
    /\ core_pc = "sched"
    /\ ke_skip' = FALSE
    /\ core_pc' = "ps"
    /\ UNCHANGED <<io_queue, rxVars, bufVars, msg, hold, ps_flag, deferred>>

\* bmsg_ps_handler, here only what it does to the bus: the keep-timer
\* command may call bmsg_null_sender, which posts only to an empty queue.
core_ps ==
    /\ core_pc = "ps"
    /\ \/ UNCHANGED io_queue
       \/ ps_flag /\ msg.type = "ps_keep_timer" /\ io_queue = <<>> /\ Push(NullMsg)
    /\ ps_flag' = FALSE
    /\ core_pc' = "sleep_check"
    /\ UNCHANGED <<rxVars, bufVars, msg, hold, ke_skip, deferred>>

\* power_save_rf_sleep_check: the queue is looked at (bmsg_is_empty) when
\* the station could sleep; other reasons for staying awake come first.
\* The local msg is dead from here on: the next pop overwrites it.
power_save_rf_sleep_check ==
    /\ core_pc = "sleep_check"
    /\ deferred' \in {FALSE, io_queue # <<>>}
    /\ core_pc' = "pop"
    /\ msg' = NullMsg
    /\ UNCHANGED <<io_queue, rxVars, bufVars, hold, ke_skip, ps_flag>>

core_thread ==
    \/ core_pop \/ bmsg_rx_handler \/ bmsg_tx_handler \/ bmsg_tx_raw_handler
    \/ core_free \/ core_ctl \/ core_sched \/ core_ps \/ power_save_rf_sleep_check

Next ==
    \/ \E c \in RxCtx : bmsg_rx_sender(c) \/ bmsg_rx_sender_push(c)
    \/ \E b \in Pbufs : pbuf_alloc(b) \/ stack_pbuf_free(b)
    \/ \E t \in TxThreads :
          \/ \E b \in Pbufs : bmsg_tx_sender(t, b)
          \/ \E b \in Raws : bmsg_tx_raw_sender(t, b)
          \/ tx_push(t)
          \/ tx_push_failed(t)
    \/ \E t \in Ctl : bmsg_ctl_sender(t)
    \/ core_thread

Spec == Init /\ [][Next]_vars

\* core_thread has the highest priority of the WLAN threads and its loop never
\* blocks on anything but an empty queue; a sender that has entered the push
\* gets through it or runs into its timeout.
Fairness ==
    /\ WF_vars(core_thread)
    /\ \A c \in RxCtx : WF_vars(bmsg_rx_sender_push(c))
    /\ \A t \in TxThreads : WF_vars(tx_push(t) \/ tx_push_failed(t))

FairSpec == Spec /\ Fairness
-----------------------------------------------------------------------------
\* The variables have the types of the code's, and no reference count goes
\* below 0: pbuf_free never meets a pbuf, and os_free never a raw copy, that
\* was freed before (LWIP_ASSERT "pbuf_free: p->ref > 0").
TypeOK ==
    /\ io_queue \in Seq(BusMsg) /\ Len(io_queue) <= QItems
    /\ bmsg_rx_count \in Nat
    /\ rx_pc \in [RxCtx -> {"idle", "counted"}]
    /\ rx_lost \in Nat
    /\ ref \in [Bufs -> Nat]
    /\ owned \in SUBSET Pbufs
    /\ sending \in [TxThreads -> Bufs \cup {None}]
    /\ core_pc \in {"pop", "dispatch", "free", "sched", "ps", "sleep_check"}
    /\ msg \in BusMsg
    /\ hold \in Bufs \cup {None}
    /\ ke_skip \in BOOLEAN
    /\ ps_flag \in BOOLEAN
    /\ deferred \in BOOLEAN

\* The handlers free the buffer they hold before they do anything else.
HoldWhileFreeing == hold # None => core_pc = "free"

\* How often m is in the queue q.
Count(q, m) == Cardinality({i \in 1 .. Len(q) : q[i] = m})

RxCounted == {c \in RxCtx : rx_pc[c] = "counted"}
RxInHand == IF core_pc = "dispatch" /\ msg = RxMsg THEN 1 ELSE 0

(***************************************************************************)
(* bmsg_rx_count accounts for every RX message that is in the queue, on    *)
(* its way into it or taken and not yet handled, plus the ones whose push  *)
(* failed, and for nothing else; it never passes the limit.  So the test   *)
(* bmsg_rx_count > 0 in bmsg_rx_handler never fails, and every failed push *)
(* costs one unit of the limit for good.                                   *)
(***************************************************************************)
RxAccounting ==
    /\ bmsg_rx_count = Count(io_queue, RxMsg) + Cardinality(RxCounted) + RxInHand + rx_lost
    /\ bmsg_rx_count <= RxLimit

\* References to b held by the stack, by threads that are posting it, by
\* messages in the queue and by the handler.
HeldBy(b) ==
    (IF b \in owned THEN 1 ELSE 0)
    + Cardinality({t \in TxThreads : sending[t] = b})
    + Count(io_queue, BufMsg(b))
    + (IF core_pc = "dispatch" /\ msg = BufMsg(b) THEN 1 ELSE 0)
    + (IF hold = b THEN 1 ELSE 0)

(***************************************************************************)
(* The reference count of a buffer is the number of places that refer to   *)
(* it: a queued pbuf is never freed under the core thread whatever the     *)
(* stack does with its own reference, no failed push leaks one, and the    *)
(* handler frees each exactly once on all of its paths.                    *)
(***************************************************************************)
BufAccounting == \A b \in Bufs : ref[b] = HeldBy(b)

(***************************************************************************)
(* When core_thread blocks on an empty queue, the last RF sleep check was  *)
(* not cut short by a message that was in the queue: the check that gave   *)
(* up because of a message is repeated once that message is handled.       *)
(***************************************************************************)
SleepCheckNotSkipped == core_pc = "pop" /\ io_queue = <<>> => ~deferred

(***************************************************************************)
(* RX throttling ends by itself unless every unit of the limit was lost in *)
(* a failed push: at the limit, the counter comes down again.              *)
(***************************************************************************)
RxThrottleEnds ==
    bmsg_rx_count = RxLimit ~> (bmsg_rx_count < RxLimit \/ rx_lost = RxLimit)

(***************************************************************************)
(* A buffer that the stack has let go of is eventually free, on the        *)
(* success path, the timeout path and the out-of-memory path alike.        *)
(***************************************************************************)
BufsReclaimed == \A b \in Bufs : (b \notin owned /\ ref[b] > 0) ~> ref[b] = 0
=============================================================================
