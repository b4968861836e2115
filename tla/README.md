# A TLA+ model of the core of bdk_freertos

The repository is the Beken SDK for the BK7231/BK7251 Wi-Fi chips on FreeRTOS:
about 1.7 million lines, most of them vendored libraries (lwIP, wpa_supplicant,
wolfSSL, mbedTLS, TinyUSB, FatFs, FreeRTOS), demos and register access. What is
the SDK's own and hard to get right is the glue that carries messages between
the application threads, the network stack, the supplicant and the 802.11 MAC,
whose code is a binary library (`src/lib/librwnx_*.a`), and the drivers that pass
audio and video between an interrupt and a thread. This project models
both, checks them with TLC and proves their safety properties with TLAPS. The
configuration is that of `app/config/sys_config_bk7231u.h`
(`CFG_WPA_CTRL_IFACE 1`, `CFG_USE_STA_PS 1`, `CFG_USE_MCU_PS 1`,
`CFG_USE_AP_PS 0`, `CFG_ROLE_LAUNCH 0`, no `CONFIG_SME`).

## 1. Inventory

| Component | State | Operations | Interacts with | What is hard | What makes it correct |
|---|---|---|---|---|---|
| WLAN message bus, core thread (`app/app.c`) | `io_queue`, `bmsg_rx_count`, the buffer references in messages | `bmsg_*_sender`, `core_thread_main` and its handlers | MAC interrupts, lwIP, applications, power save | senders in interrupts and threads, queue full, push timeout, out-of-memory paths | the throttle counts what is under way, each reference is dropped once, the sleep check is not lost |
| Request/confirm path (`rw_msg_tx.c`, `rw_msg_rx.c`, `app.c`) | `rw_msg_tx_head`, `rw_msg_rx_head`, a node and semaphore per call, `app_sema` | `rw_msg_send`, `mr_kmsg_fwd`, `rwnx_recv_msg`, `kmsg_bk_thread_main` | bus, MAC, every WLAN API that waits for an answer | timeout against a late answer, matching by id, pointers carried over unlocked steps, thread priorities | no access to a freed node, a call gets its own answer, no lost wakeup, calls return |
| Scan results (`rw_msg_rx.c`, `hostapd_intf.c`, `wlan_ui.c`) | `scan_rst_set_ptr`, `resultful_scan_cfm`, the count in each set, the supplicant's static pointer | `sr_get/release/flush_scan_results`, `mhdr_scanu_result_ind`, handlers of `SCANU_START_CFM`, `SCANU_RESULT_IND`, `SM_CONNECT_IND` | kmsgbk thread, supplicant, applications | handlers release between a reader's get and its release, freed memory reused | the count is the number of holders, scans do not mix, one entry per access point |
| Station power save (`power_save.c`, `wlan_ui.c`) | `bk_ps_mode`, `ps_lock`, `bk_ps_info` with the list of waiting threads, keep and wait timer | `power_save_sleep`, `power_save_dtim_wake`, manual wakeup, enable, disable, timer commands, `bk_wlan_dtim_rf_ps_mode_do_wakeup` | bus, MAC, BLE, threads that need the RF | wakeup interrupt, BLE interrupt, core thread and callers interleave; timer commands queue behind each other | a sleeping station can be woken, every waiter has a waker, nobody is released without the RF, waits for a beacon end |
| RF sharing with BLE (`ble.c`) | `ble_switch_mac_sleeped`, `ble_is_revert_all`, `rf_wifi_used` | `ble_switch_rf_to_ble`, `ble_switch_rf_to_wifi` | station power save, MAC | taken and given back by interrupt, also while the station sleeps | MAC interrupts come back, waiters are released |
| MCU power save (`mcu_ps.c`) | sleep timers, tick compensation | enter/exit | FreeRTOS idle hook, station power save | clock arithmetic | ticks are not lost |
| Transmit path (`rw_msdu.c`) | MSDU nodes; with `CFG_USE_AP_PS` the per-station txing lists | `rwm_transfer`, `rwm_tx_confirm`, `rwm_msdu_ps_change_ind_handler` | core thread, MAC callback | ownership of a node between queue and MAC | each node is sent or freed once |
| Role launcher (`role_launch.c`) | request queues of STA and AP | launch, complete, fast link | WLAN API, timers | requests that arrive while one is served | requests are served in order |
| Audio ring buffers (`driver/audio/ring_buffer*.c`, `audio_dac.c`, `audio_adc.c`) | `rp`, `wp`, the bytes between them, the device's status | `rb_read`, `rb_write`, the sizes, open, close, play, pause, both interrupts; DMA variants | audio interrupt, application | no lock: one side is an interrupt, pointers are loaded once and used later, `wp` rests past the end, a wrapped write publishes `wp` before it copies | bytes come out once and in order, sizes are true, what is reported was moved |
| Video path (`camera_intf.c`, `video_transfer.c`, `video_buffer.c`) | element pool with its two lists, message queue, transfer thread; `g_vbuf` with the frame being assembled, its semaphore; the reader's buffer | camera interrupts, poll handler, `video_buffer_recv_video_data`, open, read, close | application threads, camera | packets and messages dropped at their limits, close while a reader blocks, the next frame overtakes the reader | no element is lost or shared, a frame that is signalled is whole, nothing is used after it is freed, close ends |
| USB device controller (`CherryUSB/port/beken_musb`) | endpoint 0 state, transfer lengths | interrupt handler, start transfer | USB stack | control stages out of order | stages alternate |
| `wlan_ui`, `hostapd_intf` | little of their own | parameter conversion, calls to the above | supplicant, applications | — | — |
| `co_list`, `rtos_pub` | lists, FreeRTOS objects | thin wrappers | everything | — | used as externals |
| Drivers, demos, CLI, AT server, HTTP/FTP/TFTP, third-party code | — | — | — | hardware or vendored | not modelled |

Threads and priorities (a smaller number runs first): core thread 2, kmsgbk 3,
lwIP, init and reconnect 4, supplicant 5, command line 6, applications 7. Interrupts
run before all of them. `GLOBAL_INT_DISABLE` is the only lock this code uses.

`PROJECT.json` lists the hazards, each at its line and with the properties that
would notice it going wrong.

## 2. Plan

1. `CoreBus`: the bus and the core thread. **Done**, proved.
2. `KmsgConfirm` with the abstract `ConfirmService`. **Done**; safety and
   refinement proved, liveness model-checked.
3. `ScanResults`. **Done**, proved.
4. `StaPs`: station power save and the RF it shares with BLE. **Done**; safety proved,
   with the bound on the wait for a beacon, liveness model-checked.
5. `AudioRing`: the audio ring with both of its drivers. **Done**, proved.
6. `VideoTransfer` and `VideoBuffer` on top of it: the video path. **Done**; safety
   proved, liveness model-checked.
7. Proofs: `AnswerIsMine`, the refinement of `ConfirmService`, `BeaconWaitBounded`.
   **Done**; every safety property of the passing runs is a theorem.
8. `StationStatus`: the remaining handlers of `rwnx_handle_recv_msg` that report
   connection state to the application.
9. The DMA variants of the audio ring; `TxPs` (`CFG_USE_AP_PS`), then `RoleLaunch` and
   the endpoint 0 state machine.
10. A composition of `CoreBus` and `KmsgConfirm`: the bus that may be full is
    then the modelled one.

## 3. Modules

`PROJECT.json` maps every definition to the lines it stands for. In each module a step is
what one context does between two points at which another can run. Code between
`GLOBAL_INT_DISABLE` and `GLOBAL_INT_RESTORE` is one step. Names are those of
the source. Definitions described as faulty variants are not part of any `Next`:
they are the mistakes that `PROJECT.json` substitutes to show that each property
would notice one.

### CoreBus
`io_queue` is a sequence of records (`BUS_MSG_T`: type and argument).
`bmsg_rx_sender` is two steps, because the counter is raised with interrupts off
and the push comes after; `rx_lost` is a history variable that counts pushes that
failed. Buffers are model values with a reference count: pbufs, which
`bmsg_tx_sender` takes a reference to, and the copies of
`bk_wlan_send_80211_raw_frame`. Their push waits up to a second: `tx_push` or,
with the queue full, `tx_push_failed`. The message types that the loop treats alike share
one type ("plain"). `core_thread_main` is a program counter over pop, dispatch,
free, scheduler, power save handler, sleep check; `bmsg_tx_handler` covers the chained pbuf, its
copy and the copy that fails. `deferred` records that the last
`power_save_rf_sleep_check` gave up because of a queued message. Of the FreeRTOS queue, `pbuf_alloc` and
`pbuf_free` the module has what `app.c` relies on: a push finds room or not, a reference is taken or
dropped. The queue keeps its own capacity; what `TypeOK` says of this code is that no count goes below 0.

### KmsgConfirm and ConfirmService
A caller goes through `rw_msg_send`: link the node, post the request (or fail, bus full),
wait, and on a timeout unlink and free in two steps. `rw_msg_tx_head` is a
sequence of node addresses; `stale` is the next pointer that an unlinked node keeps;
`live` is the set of allocated nodes, and freed memory keeps its
`reqid` until it is reused. The kmsgbk thread is a program counter
over `rwnx_recv_msg`, which compares, follows and unlinks in separate critical
sections. An access to a freed node sets `corrupt` and ends the behaviour. A
comparison may also read the freed memory's old or new content and go on: both
outcomes are there. `co_list_push_back`, `co_list_extract` and `co_list_pop_front` are external (`co_list_next` is
inline in `co_list.h`); in the library `co_list_pop_front`
and `co_list_push_back` disable interrupts themselves and `co_list_extract`
relies on its caller.

`MayRun(c)` is the scheduler. kmsgbk preempts every thread of this repository that
calls `rw_msg_send`, so such a caller runs only while kmsgbk sleeps or is in
`rwnx_handle_recv_msg`, where a callback may block. `High` is the set of threads a product adds at or above kmsgbk's
priority; it is empty except where a run says otherwise. Calls without a
`cfm` buffer never touch the list and are not modelled; their confirmations are
among the messages with id `Ind`.

`ConfirmService` is what a caller may rely on, without lists or threads: each
request is a ticket for one confirmation, delivered once to a call that waits for its id or discarded;
success is returned only with an answer. `ImplementsService` maps
the detailed state to it (`Tickets` are the messages on the bus, in the MAC, in
`rw_msg_rx_head` and in the thread's hand), until one of the two faults that
`CorruptionNeedsFault` names.

### ScanResults
A set of results ("shell") has a count and a set of items. An item is an access point, whether
it was heard on its own channel, and the scan it came from (history). The handlers run in kmsgbk, which no reader preempts, so each is
one step; a reader takes its reference in one critical section and
releases in another. `release_keep`, `release_later` and `release_last` are the
three outcomes of `sr_release_scan_results`; the last clears
`scan_rst_set_ptr` and the supplicant's pointer whichever set it frees, as the code
does. `result_ind_new` includes `sr_flush_scan_results`, an allocation that may return the memory
just freed, and one that fails. `pulled` and `unread` are history:
a handler released a set while a reader held it; a connect indication
met a set nobody held. Before a reader begins, the shared pointer may be NULL:
`sr_get_scan_results` then increments through NULL, which is taken to have no
effect (address 4 is boot flash).

What the model also shows, without contradicting any statement in the repository:
a set's count starts at 0, so the first reader to finish frees the results for everybody,
even in the middle of a scan; and when the supplicant's release finds
its static pointer cleared, it discards the set of a newer scan.

### StaPs
While power save is on (`bk_ps_mode` "dtim") the core thread puts MAC and RF to sleep after
each beacon; the MAC's wakeup interrupt, armed for the next DTIM, wakes them. A step is a section
with interrupts disabled or a stretch of the core thread that shares nothing. The contexts are

- the core thread: `core_pop`, the message's handler, the MAC's scheduler (`sched`), the power
  save command (`ps_msg_process`; "disable" alone runs before the scheduler, as in
  `core_thread_main`), the sleep check;
- interrupts: `power_save_dtim_wake`, `ble_switch_rf_to_ble`, `ble_switch_rf_to_wifi`, `mac_irq`;
- the timer task: `keep_timer_expires`, `wait_timer_expires`, which only post a command;
- threads that call `bk_wlan_dtim_rf_ps_mode_do_wakeup` (`do_wakeup`, `do_wakeup_return`), the
  supplicant, which wakes the RF itself (`wpas_wakeup`), and applications that post commands.

The MAC library decides when power save goes on and off: `ME_PS_REQ` and
`ME_SET_PS_DISABLE_REQ` are messages to TASK_ME (`ke`), which tells the access point and calls
`power_save_dtim_enable_handler` or `power_save_dtim_disable_handler` when that is
confirmed. TASK_ME, the association state machine's own disable requests and the
second look at `io_queue` in `rwnxl_sleep` are external, modelled from the calls
they make into this code and the symbols they import. `sleep_refused` lets the MAC refuse to sleep
at any time, so prevent bits other than `PS_VIF_WAITING_BCN` need no state. `QLen` is the
room that other traffic leaves in `io_queue`; a command that does not fit is lost and `lost`
remembers it. `steady` is false from an event after which the code does not promise that the
wait for a beacon ends (the keep timer set up anew, a change of the station
status, the deliberate "stay awake" after a reset or too many losses) to the next wakeup.

Not in this model: `CFG_USE_AP_IDLE`, BLE's DUT mode, reconfiguration by `me_config_req`, the
arithmetic of listen intervals, `NEED_REBOOT_BIT` (the chip restarts), `NEED_DISABLE_BIT`
(set nowhere: its only setter is under `#if 0`).

### AudioRing
`rb_read` and `rb_write` take no lock. The interrupt runs between any two instructions of
the client and to its end, so the client's calls are cut at each load or store of
`rp`, `wp` or the bytes (`RbWriteCheck`, `RbWriteCopy`, `RbWritePublish`, `RbWriteWrap`,
`RbWriteEnd`; `RbReadLoad`, `RbReadCopy`, `RbReadAdvance`) and an interrupt's call is one step
(`DacIsr`, `AdcIsr`: one turn of the loop, which ends when the hardware FIFO or the ring says so).
`dev` chooses which side is the interrupt. `snap` is the client's local `rp` or `wp`. Both
pointers may come to rest at `capacity`; `WpReset` is the correction at the end of `rb_write`,
which leaves `wp` there while `rp` is 0. Bytes are numbered in the order in
which they are accepted. `accepted` and `delivered` are history, as are `ret` and `moved`, which
compare what the driver reports with what the ring did. Assumed: each field is loaded
once in `rb_get_fill_size` and `rb_get_free_size` (they are not `volatile`; a
compiler may load them more often, and the C text names `rp` and `wp` twice; the `-Os` build keeps them
in registers), and one client thread per device, as in `audio_intf.c`.

### VideoTransfer and VideoBuffer
`VideoTransfer` holds the pool, the queue and the transfer thread. `RxHandler` is
`tvideo_rx_handler` with the header that `video_buffer_add_pkt_header` writes; the two
camera interrupts call it: `CameraNode` for each full node, `CameraEnd` for the rest of the
frame, which it marks eof. A frame that ends exactly with a node has no packet with eof (`full`).
`tvideo_poll_handler` is `RecvCall` (pick the head), the send function, `PollPop` and
`PollGive` (one list operation each), `PollEnd`. `tvideo_exit` is three steps, in the
order of the code: the pool, the camera, the queue with the thread handle. `VideoBuffer`
adds `g_vbuf`, the send function cut at each access to it that the reader or the closer can come
between (`RecvSof`, `RecvMatch`, `RecvCopy`, `RecvUpdate`, `RecvCheck`, `RecvSignal`), the reader
(`ReadFrame` to `ReadClear`) and the closer. `rd.low` says that the reader's priority is below the
closer's; `MayRun` then keeps it from running while the closer spins. `rd.late` and `returned` are
history: the reader stored `buf_base` after the closer had looked at it; the reader that lent
the buffer in which the frame began has returned. Lengths are in packets. Data is
which part (`i`) of which frame it is; `n` is the length in the JPEG trailer, which is why
`RightImage` can be stated as the code tests it: a start marker, an end marker, the length.
A freed element, a freed `g_vbuf` and a buffer that is not passed to `video_buffer_read_frame` count as blank.

What is undefined is a choice: a reader that uses `g_vbuf` after the free is
`lost`; the closer's busy wait on a plain variable (`video_buffer.c:259`, compiled with `-Os`) may
read it once and be `stuck`. `pktSeq` (`g_pkt_seq`) is not reset when the buffer
is opened again, as in the code. The bound `MaxFrames` keeps the frame number below
the range of the header's UINT8 `id`, after which numbers repeat: a frame without a packet
with eof for 256 frames is not covered. Allocations that fail in open are left out.

## 4. Runs

| Run | Checks | Bounds, and why they are enough |
|---|---|---|
| `bus_all` | `TypeOK`, `RxAccounting`, `BufAccounting`, `SleepCheckNotSkipped`, `RxThrottleEnds`, `BufsReclaimed` | capacity 2, limit 2 (the code's), 2 interrupt contexts, a sending thread, one pbuf, one raw copy: the queue fills, pushes race for the last place and time out, both units of the limit are lost |
| `kmsg_all` | `TypeOK`, `CorruptionNeedsFault`, `AnswerIsMine`, `NoLostWakeup`, `ImplementsService`, `CallsReturn` | 2 callers, one of them in `High`, 2 calls, 2 ids, 2 nodes, an indication: a timed-out call, its late answer and another call for the same id; a node reused after a failed push; timeouts that race the walk of the list. The behaviours with `High` empty are among these |
| `kmsg_assert` | `SetSemaphoreSucceeds`, violated | 1 caller, 2 calls |
| `scan_state` | `TypeOK`, `RefCountsHolders`, `LeakNeedsConnect`, `FlagTellsScan`, `OneEntryPerBss` | 3 shells, 2 applications and the supplicant, 2 scans, a connect indication, 3 access points for a list of 2, each on or off channel: a set freed under a reader and its memory reused, a list that overflows |
| `scan_pairs` | `HeldNotFreed`, violated | 1 application, 1 scan, 1 connect indication |
| `ps_all` | `TypeOK`, `SleepIsWakeable`, `WaitersHaveWaker`, `ModeAgrees`, `MacIntsRestored`, `ServedAwake`, `WaitersReturn`, `DisableTakesEffect` | 1 thread and the core thread, room for 1 command, so that the command which should wake the RF is often lost, 3 commands or frames, a disable request of the MAC: enable, sleep, disable in one behaviour, with BLE taking and giving back the RF asleep and awake |
| `ps_beacon` | `BeaconWaitBounded` | room for 3 commands, so that start, stop and expiry of the keep timer are queued together; 3 commands turn power save and the timer on and one of them off; 1 loss allowed, so that "too many" is reached; no BLE, no waiting threads |
| `ps_context` | `NotInCoreThread`, violated | 1 thread, 2 commands |
| `audio_ring` | `TypeOK`, `FillIsTrue`, `CopyIsClear`, `ReportedIsMoved`, `DeliveredInOrder` | 6 bytes, interval 2, samples of 2, calls for 1, 2 or 4 bytes, 14 bytes in all: the ring wraps more than twice, at every alignment, full and empty, with `wp` and `rp` at the end |
| `video_state` | `TypeOK`, `PoolConserved`, `SignalledFrameIsWhole`, `CopyStaysInBuffer`, `QuiescentAfterDeinit`, `WokenReaderSafe` | 2 elements for frames of up to 3 packets, so that packets are lost in any place; a queue of 2 that overflows; 2 frames; one buffer passed with 2 lengths, so that it is too short or changes in the middle of a frame; opened and closed again and again. The reader is not of a lower priority, which would only take steps away |
| `video_live` | `ReadyDrained`, `CloseEnds`, `BlockedReaderReleased` | the same with frames of up to 2 packets, and in each call a reader of lower priority than the closer or not |
| `video_frame` | `WokenReaderHasFrame`, violated | 1 element, 2 frames |

Named bounds: `MaxCalls`, `MaxInds`, `MaxScans`, `MaxConnects`, in `StaPs` `MaxCmds`, `MaxOff`
and `MaxRx`, in `AudioRing` `MaxBytes`, in `VideoBuffer` `MaxPkts`, `MaxFrames` and `MaxLen`. The first
four end the behaviours, which is why the runs of `KmsgConfirm` and `ScanResults` do not check
deadlock. Those of `VideoBuffer` do not because the system really may stop: a `TV_EXIT` lost to
a full queue, a closer that is stuck and a reader that is lost wait for ever.
`CoreBus`, `StaPs` and `AudioRing` go on and their runs check it. Symmetry is used only in
`scan_state`, a run without liveness, over sets whose members the specification does not tell apart.

Fairness. `CoreBus`: the core thread has the highest priority of the WLAN
threads and blocks only on an empty queue; a sender inside the push gets through or
times out. Nothing is assumed of contexts that might start a new push.
`KmsgConfirm`: kmsgbk waits only for `app_sema`; `mr_kmsg_fwd` goes on to
set it; a caller that may run does. The MAC is not fair: a
confirmation may never come. `CallsReturn` holds because messages are bounded
by `MaxInds` and `MaxCalls`: a MAC that sent indications without pause would keep kmsgbk, and so its
callers, busy for ever.
`StaPs`: the wakeup interrupt comes at the next DTIM if it is enabled, BLE gives the RF back when
its event is over, MAC interrupts (beacons, timers) keep coming while they are enabled,
the core thread is not kept from running, a thread whose semaphore was given runs, and the
confirmation of a power save change (a null frame sent or given up, and reported in the scheduler) comes if
the scheduler runs again and again: strong fairness, because the core thread keeps leaving and entering
it. Nothing is assumed of BLE taking the RF, of the timers, of applications or of the supplicant.
`VideoBuffer`: the transfer thread, the reader inside its call and the closer inside its call go on
when they can. FreeRTOS runs the thread with the highest priority, and the busy wait of the closer does not
yield, so a reader of a lower priority cannot, as long as it spins (`MayRun`): the only closer in the repository is the command
line (priority 6), and an application's thread has 7. The transfer thread has gone before the closer
begins to spin, and before that the closer sleeps between its looks at the thread. The camera need not go on; nobody need call again; `CloseStuck` is not fair.

### Findings
- `kmsg_assert`: when the bus is full, `rw_msg_send` frees its node and leaves it
  in `rw_msg_tx_head` (`rw_msg_tx.c:70-76`; only the timeout path unlinks). A late
  confirmation of an earlier call matches the freed node, and
  `ASSERT(0 == ret)` at `rw_msg_rx.c:1083` is about a deleted semaphore. The theorem
  `AssertNeedsFault` says that without a failed push, or a timeout of a caller in `High`, it cannot.
- `scan_pairs`: the comment "sr_get_scan_results and sr_release_scan_results have to
  come in pairs" (`rw_msg_rx.c:129`, `:153`) is not kept by the handler of
  `SM_CONNECT_IND` (`rw_msg_rx.c:805`), which releases the current set without
  having taken it and so can free it under a reader.
- `ps_context`: "this function can not be called in "core_thread" context"
  (`wlan_ui.c:1874`, of `bk_wlan_dtim_rf_ps_mode_do_wakeup`). `bmsg_tx_handler` and
  `bmsg_tx_raw_handler` call it there (`app.c:156`, `:239`). The wakeup one line above makes it
  return at once unless BLE has the RF; then the core thread itself waits, until BLE gives the RF back
  (`WaitersReturn` shows that it does not wait for ever).
- `video_frame`: "all frame data have received, wakeup usr thread" (`video_buffer.c:153`).
  The reader is signalled with `buf_base` still set and takes `frame_len` only when it runs (`:305`).
  If the transfer thread gets to the next frame first, its first packet starts over in
  the same buffer and sets `frame_len` to 0: the reader returns a length that is not that of a frame.
  (Another way to the same end is a signal that arrives after the next call has drained the semaphore.)

`CloseEnds` names, without a statement in the repository to hold against it, the four ways in which
`video_buffer_close` does not end: `TV_EXIT` was lost to a full queue, and the closer waits for a thread that was never
told; the reader it woke calls again and blocks before the closer has looked at `buf_base`; the reader
has a lower priority and is kept from running by the busy wait that waits for it; or the compiler has moved the load
out of the loop. `BlockedReaderReleased` excludes the first and the third by name. `WokenReaderSafe` covers the readers
that stored `buf_base` before the closer's last look. One that comes later is not waited for, and the model shows that
it may even be woken before the free, by a signal of the transfer thread that came after the reader had drained the semaphore.

Some properties exempt, and say so, what the code is known to do: `AnswerIsMine` the late answer for an id
that another call overlapped, `DeliveredInOrder` the cells of a wrapped write that are not copied yet, `CopyStaysInBuffer` a frame
whose reader has returned, `BeaconWaitBounded` the time before the first sleep. They show
that these are the only exceptions.

## 5. Proofs

All constants are arbitrary in the theorems, under the named assumptions of each module
(finite sets of contexts, distinct null values, positive limits, a `pkt_seq` whose range exceeds the
packets of a frame), which TLC evaluates in every run.

`CoreBusProofs`. `TypeOK` is not the first step here: that no reference count goes below 0 follows from
`BufAccounting`, which is proved with counts that are any integer (`BaseTypes`). `RxAccounting` needs, beside the types, only that counting
messages over `Append`, `Tail` and one change of a set moves by one; those
are the lemmas at the top, from the cardinality facts of
`FiniteSetTheorems`. `BufAccounting` needs in addition
`HoldWhileFreeing` (`hold` is set only while the core thread is about to free), or a handler could
overwrite a reference; `SleepCheckNotSkipped` needs that messages leave the queue only in `core_pop`.

`KmsgConfirmProofs`. `NoLostWakeup` is inductive with the types.
`CorruptionNeedsFault` is not: that no freed node is touched
depends on where every pointer to it is. `IInv` says that, until a fault,
`Owned` (callers in a call own distinct live nodes), `WellLinked` (the list has no
repetition, and linked nodes are live with an empty semaphore) and `Walk` hold.
`Walk` is the interesting part: while rwnx_recv_msg walks the list it may stand on a
node that has been unlinked and whose stale next pointer leads to another such
node. `Confined(R)` says that the walk can reach only the set `R` of live nodes, closed under stale pointers;
the invariant asks that some such `R` exists. A free during the walk is the fault `raced`, which needs a caller in
`High` (the conjunct `raced => High # {}`).

`KmsgServiceProofs`. `KmsgConfirmProofs` says which nodes are allocated and linked; `ServiceInv`
says what they are for, until a fault. `CallInv` and `NodeOwner` tie a call to its node in both
directions: rwnx_recv_msg finds a node and must be answering the call that waits on it. `FlightInv`
says that each call has at most one message on its way (in the MAC, in `rw_msg_rx_head`, in the
thread's hand), so that the set of tickets of `ConfirmService` loses exactly one when a message is consumed.
`MatchInv` keeps the comparison of ids true over the unlocked steps between it and the copy.
`AnswerInv` says that a buffer is filled exactly when the semaphore is given or about to be: a
call that returns 0 has an answer, and no node is answered twice. `SoleInv` is for `AnswerIsMine` alone: messages are matched by id, so a call may get
the answer to an earlier one that timed out; while no other call for the id has overlapped, every
message with it is this call's. The refinement goes through the actions: `rw_msg_send` is
`Call`, a push is `Post`, the copy of a confirmation is `Deliver`, a confirmation that nobody waits for is
`Discard`, the free is `Return`; all others are stutters. TLC checked `SInv` with 2 callers
and 3 calls before it was proved. The two faults stay hypotheses: `kmsg_assert` shows that the first one is real.

`ScanResultsProofs`. `FlagTellsScan` and `OneEntryPerBss` follow from `ListInv`.
For the counts, `RefInv` is `Shape` (what is true always: the shared pointer is to an
allocated set, and who may hold a pointer at which position) and, until a pull,
`Exact`: `Counts` (every count is the number of holders), `Current` (every set that a
reader holds is the current one), `Kept` (another allocated set exists
only after a connect indication met an unread one) and `~corrupt`. `RefCountsHolders`
alone is not inductive: `release_last` clears the shared pointer whichever set it
frees, and only because a held set is the current one is no other set lost by it.

`StaPsProofs`. `IInv` is the conjunction of `TypeOK`, `SleepIsWakeable`, `WaitersHaveWaker`,
`ModeAgrees` and `MacIntsRestored`, and none of the first three is inductive without the
others. That `ps_lock` stays in {0, 1} needs `SleepIsWakeable` (a wakeup finds the lock at
0); that one needs `ModeAgrees`, because a confirmation of the MAC that arrived while the station slept would
switch the mode under it; and a semaphore given twice is excluded by `ListAgrees`. The
lemmas `Served`, `Joins`, `Leaves`, `Wakes` say what the list operations and a
wakeup do; then there is one lemma per action (`keeps_...`). `ServedAwake` is
proved from the same invariant: `ServesAwake` goes through the actions and shows that only four
of them give a semaphore, each with the RF back.

`StaPsBeaconProofs`. The keep timer, which ends the wait for a beacon that does not come, is started
and stopped by commands that the core thread carries out later, so `BeaconWaitBounded` depends on their order in
`io_queue`. `At(0)` is the command in hand, `At(i)` the i-th that is queued. `Ending` says
what ends a wait: the handling of an expiry is under way, or a `KP_SET` with no `KP_STOP` behind
it, or the timer runs and no `KP_STOP` is to come. `BeaconInv` asks for that
in every wait, and for `TimerInv`: the timer exists exactly when it has a period; while its status
is 1 it runs or its expiry is still queued (unless a command was lost), which is why a `KP_SET` that
finds the status already 1 may do nothing; and `sleep_first` is false while the station sleeps, so that its wakeup posts a `KP_SET`. The
wakeup interrupt begins a wait, and posts its `KP_SET` behind every older `KP_STOP`. That it does so needs `SleepIsWakeable` of
`StaPsProofs`, or the interrupt could find the station awake. TLC checked
`BeaconInv` on the instance of `ps_beacon` first.

`AudioRingProofs`. `FillIsTrue` rests on `Gap` (the interval is always kept between `wp` and
`rp`), `WpEnd` and `Side` (when `wp` may be at the end, and on which side of `rp` it is), and
`PcInv`: what the client has checked with an old `snap` is still true, because the interrupt only ever makes
more room, or more bytes, than the client saw. `RingHoldsFifo`,
that the cells between `rp` and `wp` hold the unread bytes in order but for those a write has yet to
copy, is part of the invariant; `CopyIsClear`, `ReportedIsMoved` and `DeliveredInOrder` follow from it.

`VideoBufferProofs`. `QuiescentAfterDeinit` and `WokenReaderSafe` need where each thread may be while
another is at a given point (`ThrInv`, `CtlInv`, `RdInv`: the closer reaches the free with a reader inside only
if that reader was `late`). `CopyStaysInBuffer` rests on `LentInv`: while a frame is assembled for a reader that has
not returned, `buf_ptr` is in the lent buffer and `frame_len` at most `buf_len`, and less between the test and the update. `PoolConserved` is inductive with the
types. `SignalledFrameIsWhole` is the deepest: nothing in the code checks that packets
are consecutive parts of a frame, only that they are numbered without a gap by an interrupt that does not
count the ones it drops. `OrdInv` says that the ready list is in camera order,
`CopyInv` carries a packet from the list into the buffer, and `FillInv` says that the parts in
the buffer increase: the k-th part has number at least k, and the last exceeds it by at least the
distance. The trailer, which is the last part's, gives the length of the frame; if that
is the number of parts received, both bounds meet and there is no gap.

Only model-checked: liveness (`RxThrottleEnds`, `BufsReclaimed`, `CallsReturn`,
`WaitersReturn`, `DisableTakesEffect`, `ReadyDrained`, `CloseEnds`, `BlockedReaderReleased`), which is
out of the prover's reach. Every other property of a passing run is proved.

## 6. Not modelled

The MAC and its scheduler (binary; its messages are nondeterministic), payloads of requests and
confirmations, logging, the MCU and access point commands of `ps_msg_process`, the
handlers of `rwnx_handle_recv_msg` other than scan and connect, failed
allocations in `rw_msg_send` before the node is linked (they return at once), and the
components marked so in `PROJECT.json` with the reason.

Of the audio drivers: the DMA variants of the ring, sample rates, volumes and registers. Of the video
path: the SPI camera, the send functions over sockets, the sensor's configuration, changing frame rate and
size while the camera runs. The map covers a small part of the repository's lines, because most of them are
vendored libraries, tables and register definitions that keep no state of this program.
