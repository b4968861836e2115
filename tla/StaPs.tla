-------------------------------- MODULE StaPs --------------------------------
(***************************************************************************)
(* Station power save: the RF and the MAC sleep between DTIM beacons.      *)
(*   power_save.c   sleep and wakeup, timers, the list of waiting threads  *)
(*   app.c          the core thread and the power save commands it runs    *)
(*   wlan_ui.c      the API by which other threads wake the RF             *)
(*   ble.c          BLE borrows the RF by interrupt                        *)
(* The MAC library (external) turns power save on and off and decides      *)
(* whether the MAC may sleep; it is modelled from its calls into this code.*)
(*                                                                         *)
(* A step is a section that runs with interrupts disabled, or a stretch of *)
(* the core thread that shares nothing with the others.  Between steps the *)
(* wakeup interrupt, BLE interrupts, the timer task and other threads run. *)
(*                                                                         *)
(* Configuration: CFG_SUPPORT_BLE, PS_USE_KEEP_TIMER, PS_USE_WAIT_TIMER,   *)
(* one active station interface, no CFG_USE_AP_IDLE, BLE not in DUT mode.  *)
(***************************************************************************)
EXTENDS Integers, Sequences

CONSTANTS
    Threads,    \* threads that call bk_wlan_dtim_rf_ps_mode_do_wakeup
    Core,       \* the core thread, which calls it as well
    QLen,       \* room that the other traffic leaves in io_queue
    MaxRx,      \* bound on the messages that MAC interrupts have in io_queue
    MaxOff,     \* bound on the pending requests to turn power save off
    MaxCmds,    \* bound on the commands and frames that applications send
    MaxLoss,    \* PS_BCN_MAX_LOSS_LIMIT
    Apps,       \* commands and frames that the applications of the product send
    BleOn,      \* a BLE stack is running
    MacEvents   \* unsolicited events that the MAC may have: "off", "probe", "reset"

ASSUME StaPsAssumption ==
    /\ Core \notin Threads
    /\ QLen \in Nat \ {0}
    /\ MaxRx \in Nat /\ MaxOff \in Nat /\ MaxCmds \in Nat /\ MaxLoss \in Nat

VARIABLES
    bk_ps_mode,     \* PS_MODE_STATUS: "no", "opening", "dtim" or "closing"
    ps_on, busy,    \* MAC: me_env.ps_on; TASK_ME waits for MM_SET_PS_MODE_CFM
    ke,             \* messages to TASK_ME, in order
    way,            \* ps_arm_wakeup_way: how the RF was last woken
    real_sleep, can_sleep, sleep_first,   \* the flags of bk_ps_info
    waited_beacon,  \* STA_GET_INIT, STA_GET_TRUE or STA_GET_FALSE
    ps_lock,        \* 1 while awake
    icu,            \* interrupts that are enabled: "mac" and "wakeup"
    waiting_bcn,    \* PS_VIF_WAITING_BCN in the interface's prevent_sleep
    bcn_loss,       \* ps_bcn_loss_max_count
    reseted,        \* ps_reseted_moniter_flag
    keep_period,    \* ps_keep_timer_period # 0
    keep_status,    \* ps_keep_timer_status
    keep_timer,     \* ps_keep_timer: "none", "stopped" or "running"
    wait_timer,     \* ps_wait_timer, likewise
    ble,            \* ble_switch_mac_sleeped: BLE has the RF
    revert,         \* ble_is_revert_all
    rf_wifi_used,   \* WLAN keeps BLE from taking the RF
    sta,            \* "down", "connected", or "ready": got an address and the only role
    queue,          \* io_queue: power save commands, "rx" and "tx"
    pc, cmd,        \* core thread: position and current message
    wk_list,        \* bk_ps_info.wk_list: threads that wait for the RF
    waiting,        \* threads that are in semlist_wait or semlist_get
    sema,           \* their semaphores
    cmds,           \* number of commands and frames so far
    lost,           \* history: a power save command found io_queue full
    steady          \* history: since the last wakeup the keep timer was not set up anew,
                    \* the station status did not change and the station was not
                    \* told to stay awake after a reset or too many losses

modeVars == <<bk_ps_mode, ps_on, busy, ke>>
infoVars == <<way, real_sleep, can_sleep, sleep_first, waited_beacon>>
hwVars == <<ps_lock, icu>>
bcnVars == <<waiting_bcn, bcn_loss, reseted>>
timerVars == <<keep_period, keep_status, keep_timer, wait_timer>>
bleVars == <<ble, revert, rf_wifi_used>>
listVars == <<wk_list, waiting, sema>>
busVars == <<queue, lost>>
coreVars == <<pc, cmd>>
vars == <<modeVars, infoVars, hwVars, bcnVars, timerVars, bleVars, sta, busVars,
          coreVars, listVars, cmds, steady>>

Waiters == Threads \cup {Core}
Elems(s) == {s[i] : i \in DOMAIN s}

\* Commands and frames that applications can post, and all messages in io_queue.
AppCmds == {"RF_ENABLE", "RF_DISANABLE", "TIMER_INIT", "TIMER_DEINIT", "tx"}
Cmds == AppCmds \cup {"rx", "RF_USER_WKUP", "KP_SET", "KP_STOP", "KP_HANDLER",
                      "WAIT_TM_SET", "WAIT_TM_HANDLER"}

ASSUME EnvAssumption ==
    /\ Apps \subseteq AppCmds
    /\ BleOn \in BOOLEAN
    /\ MacEvents \subseteq {"off", "probe", "reset"}

PS_STA_DTIM_SWITCH == bk_ps_mode = "dtim" /\ sta = "ready"
PS_STA_DTIM_CAN_SLEEP ==
    PS_STA_DTIM_SWITCH /\ (waited_beacon = "true" \/ way = "user") /\ can_sleep

Init ==
    /\ bk_ps_mode = "no" /\ ps_on = FALSE /\ busy = FALSE /\ ke = <<>>
    /\ way = "none" /\ real_sleep = FALSE /\ can_sleep = FALSE
    /\ sleep_first = TRUE /\ waited_beacon = "init"
    /\ ps_lock = 1 /\ icu = {"mac"}
    /\ waiting_bcn = FALSE /\ bcn_loss = 0 /\ reseted = FALSE
    /\ keep_period = FALSE /\ keep_status = 0 /\ keep_timer = "none" /\ wait_timer = "none"
    /\ ble = FALSE /\ revert = FALSE /\ rf_wifi_used = FALSE
    /\ sta = "down"
    /\ queue = <<>> /\ lost = FALSE
    /\ pc = "pop" /\ cmd = "rx"
    /\ wk_list = <<>> /\ waiting = {} /\ sema = [w \in Waiters |-> 0]
    /\ cmds = 0 /\ steady = FALSE
-----------------------------------------------------------------------------
\* bmsg_ps_sender for each command of s: dropped when io_queue is full.
bmsg_ps_sender(s) ==
    LET fits == Len(queue) + Len(s) <= QLen
    IN  /\ queue' = IF fits THEN queue \o s ELSE queue
        /\ lost' = (lost \/ ~fits)

\* A mistake that is easy to make in semlist_set (see the variants below): the
\* semaphores are given and the list is not emptied.
semlist_set_kept ==
    /\ sema' = [w \in Waiters |-> IF w \in Elems(wk_list) THEN sema[w] + 1 ELSE sema[w]]
    /\ UNCHANGED <<wk_list, waiting>>

\* power_save_rf_ps_wkup_semlist_set
semlist_set ==
    /\ wk_list' = <<>>
    /\ sema' = [w \in Waiters |-> IF w \in Elems(wk_list) THEN sema[w] + 1 ELSE sema[w]]
    /\ UNCHANGED waiting

\* A mistake that is easy to make in power_save_wakeup: what BLE changed in the
\* MAC is left to ble_switch_rf_to_wifi to undo.
power_save_ieee_dtim_wakeup_unrecovered(w, switched) ==
    /\ way' = w
    /\ real_sleep' = FALSE /\ can_sleep' = TRUE /\ waited_beacon' = "false"
    /\ waiting_bcn' = (waiting_bcn \/ w = "rw")
    /\ rf_wifi_used' = TRUE
    /\ icu' = (icu \cup {"mac"}) \ {"wakeup"}
    /\ ps_lock' = ps_lock + 1
    /\ bmsg_ps_sender(IF ~sleep_first /\ keep_period THEN <<"KP_SET">> ELSE <<>>)
    /\ IF switched THEN UNCHANGED listVars ELSE semlist_set
    /\ steady' = TRUE
    /\ UNCHANGED <<revert, sleep_first, bcn_loss, reseted>>

\* power_save_ieee_dtim_wakeup of a sleeping station, with power_save_wakeup;
\* switched is the value of ble_switch_mac_sleeped.
power_save_ieee_dtim_wakeup(w, switched) ==
    /\ way' = w
    /\ real_sleep' = FALSE /\ can_sleep' = TRUE /\ waited_beacon' = "false"
    /\ waiting_bcn' = (waiting_bcn \/ w = "rw")
    /\ rf_wifi_used' = TRUE
    /\ icu' = (icu \cup {"mac"}) \ {"wakeup"}
    /\ ps_lock' = ps_lock + 1
    /\ revert' = (revert /\ switched)
    /\ bmsg_ps_sender(IF ~sleep_first /\ keep_period THEN <<"KP_SET">> ELSE <<>>)
    /\ IF switched THEN UNCHANGED listVars ELSE semlist_set
    /\ steady' = TRUE
    /\ UNCHANGED <<sleep_first, bcn_loss, reseted>>

wakeupVars == <<infoVars, hwVars, bcnVars, revert, rf_wifi_used, busVars, listVars, steady>>

power_save_rf_dtim_manual_do_wakeup ==
    IF ~ble /\ bk_ps_mode = "dtim" /\ way = "none" /\ real_sleep
    THEN power_save_ieee_dtim_wakeup("user", FALSE)
    ELSE UNCHANGED wakeupVars
-----------------------------------------------------------------------------
(***************************************************************************)
(* Variants of operations below with a mistake that is easy to make in     *)
(* this code.  They are not part of Next; each shows that some property    *)
(* would notice the mistake.                                               *)
(***************************************************************************)
\* The wakeup interrupt is not enabled when the MAC goes to sleep.
power_save_sleep_unarmed ==
    /\ pc = "check" /\ PS_STA_DTIM_CAN_SLEEP /\ ke = <<>> /\ queue = <<>>
    /\ ~real_sleep /\ ~ble /\ ~waiting_bcn
    /\ icu' = icu \ {"mac"} /\ ps_lock' = ps_lock - 1
    /\ real_sleep' = TRUE /\ way' = "none" /\ sleep_first' = FALSE
    /\ bmsg_ps_sender(IF keep_status = 1 THEN <<"KP_STOP">> ELSE <<>>)
    /\ pc' = "pop"
    /\ UNCHANGED <<modeVars, can_sleep, waited_beacon, bcnVars, timerVars, bleVars, sta,
                   cmd, listVars, cmds, steady>>

\* BLE gives the RF back without looking whether the station is asleep.
ble_switch_rf_to_wifi_always ==
    /\ ble
    /\ ble' = FALSE /\ revert' = FALSE
    /\ semlist_set
    /\ UNCHANGED <<modeVars, infoVars, hwVars, bcnVars, timerVars, rf_wifi_used, sta, busVars,
                   coreVars, cmds, steady>>

\* BLE gives the RF back and leaves the waiting threads to the next wakeup.
ble_switch_rf_to_wifi_silent ==
    /\ ble
    /\ ble' = FALSE /\ revert' = (revert /\ real_sleep)
    /\ UNCHANGED <<modeVars, infoVars, hwVars, bcnVars, timerVars, rf_wifi_used, sta, busVars,
                   coreVars, listVars, cmds, steady>>

\* The timer is stopped and ps_keep_timer_status left as it was.
power_save_keep_timer_stop_forgetful ==
    /\ keep_timer' = IF keep_timer = "running" THEN "stopped" ELSE keep_timer
    /\ UNCHANGED keep_status

\* Power save is turned on whatever mode it is in.
power_save_dtim_enable_unchecked ==
    /\ pc = "RF_ENABLE" /\ pc' = "check"
    /\ \/ sta = "ready" /\ ke' = Append(ke, "on")
       \/ UNCHANGED ke
    /\ UNCHANGED <<bk_ps_mode, ps_on, busy, infoVars, hwVars, bcnVars, timerVars, bleVars, sta,
                   busVars, cmd, listVars, cmds, steady>>

\* A request to disable power save is dropped while BLE has the RF.
power_save_dtim_disable_shy ==
    ke' = IF bk_ps_mode = "dtim" /\ ~ble THEN Append(ke, "off") ELSE ke
-----------------------------------------------------------------------------
(***************************************************************************)
(* Interrupts, timers and other threads.                                   *)
(***************************************************************************)
\* The MAC wakeup interrupt at the DTIM (intc.c).
power_save_dtim_wake ==
    /\ "wakeup" \in icu /\ bk_ps_mode = "dtim" /\ way = "none"
    /\ IF real_sleep
       THEN power_save_ieee_dtim_wakeup("rw", ble)
       ELSE /\ way' = "rw" /\ icu' = icu \ {"wakeup"}
            /\ UNCHANGED <<real_sleep, can_sleep, sleep_first, waited_beacon, ps_lock, bcnVars,
                           revert, rf_wifi_used, busVars, listVars, steady>>
    /\ UNCHANGED <<modeVars, timerVars, ble, sta, coreVars, cmds>>

\* A thread outside the core thread wakes the RF itself: hapd_intf_add_key.
wpas_wakeup ==
    /\ real_sleep
    /\ power_save_rf_dtim_manual_do_wakeup
    /\ UNCHANGED <<modeVars, timerVars, ble, sta, coreVars, cmds>>

\* bk_wlan_dtim_rf_ps_mode_do_wakeup with power_save_rf_ps_wkup_semlist_wait;
\* when there is nothing to wait for the call returns at once.
RfAway == (bk_ps_mode = "dtim" /\ real_sleep) \/ ble

semlist_wait(w) ==
    /\ wk_list' = Append(wk_list, w)
    /\ waiting' = waiting \cup {w}
    /\ bmsg_ps_sender(IF ble THEN <<>> ELSE <<"RF_USER_WKUP">>)
    /\ UNCHANGED sema

do_wakeup(w) ==
    /\ w \notin waiting /\ RfAway
    /\ semlist_wait(w)
    /\ UNCHANGED <<modeVars, infoVars, hwVars, bcnVars, timerVars, bleVars, sta, coreVars,
                   cmds, steady>>

\* power_save_rf_ps_wkup_semlist_get: no timeout; the node is freed.
semlist_get(w) ==
    /\ w \in waiting /\ sema[w] > 0
    /\ sema' = [sema EXCEPT ![w] = 0]
    /\ wk_list' = IF w \in Elems(wk_list) THEN SelectSeq(wk_list, LAMBDA x : x # w)
                                         ELSE wk_list
    /\ waiting' = waiting \ {w}

do_wakeup_return(w) ==
    /\ semlist_get(w)
    /\ UNCHANGED <<modeVars, infoVars, hwVars, bcnVars, timerVars, bleVars, sta, busVars, coreVars,
                   cmds, steady>>

ble_switch_rf_to_ble ==
    /\ BleOn /\ ~rf_wifi_used /\ ~ble
    /\ ble' = TRUE /\ revert' = TRUE
    /\ UNCHANGED <<modeVars, infoVars, hwVars, bcnVars, timerVars, rf_wifi_used, sta, busVars,
                   coreVars, listVars, cmds, steady>>

ble_switch_rf_to_wifi ==
    /\ ble
    /\ ble' = FALSE
    /\ IF real_sleep
       THEN UNCHANGED <<revert, listVars>>
       ELSE revert' = FALSE /\ semlist_set
    /\ UNCHANGED <<modeVars, infoVars, hwVars, bcnVars, timerVars, rf_wifi_used, sta, busVars,
                   coreVars, cmds, steady>>

\* The timer task runs power_save_keep_timer_handler, power_save_wait_timer_handler.
keep_timer_expires ==
    /\ keep_timer = "running"
    /\ keep_timer' = "stopped"
    /\ bmsg_ps_sender(<<"KP_HANDLER">>)
    /\ UNCHANGED <<modeVars, infoVars, hwVars, bcnVars, keep_period, keep_status, wait_timer,
                   bleVars, sta, coreVars, listVars, cmds, steady>>

wait_timer_expires ==
    /\ wait_timer = "running"
    /\ wait_timer' = "stopped"
    /\ bmsg_ps_sender(<<"WAIT_TM_HANDLER">>)
    /\ UNCHANGED <<modeVars, infoVars, hwVars, bcnVars, keep_period, keep_status, keep_timer,
                   bleVars, sta, coreVars, listVars, cmds, steady>>

\* The APIs of wlan_ui that post a command, and frames to send; a request to
\* disable is posted only in DTIM mode.
app_posts(c) ==
    /\ cmds < MaxCmds
    /\ c = "RF_DISANABLE" => bk_ps_mode = "dtim"
    /\ bmsg_ps_sender(<<c>>)
    /\ cmds' = cmds + 1
    /\ UNCHANGED <<modeVars, infoVars, hwVars, bcnVars, timerVars, bleVars, sta, coreVars,
                   listVars, steady>>

\* A MAC interrupt has work for the scheduler and wakes the core thread.
mac_irq ==
    /\ "mac" \in icu /\ Len(queue) < QLen
    /\ Len(SelectSeq(queue, LAMBDA c : c = "rx")) < MaxRx
    /\ queue' = Append(queue, "rx")
    /\ UNCHANGED <<modeVars, infoVars, hwVars, bcnVars, timerVars, bleVars, sta, lost, coreVars,
                   listVars, cmds, steady>>

\* mhdr_set_station_status: association, address, disconnection.
station_status(s) ==
    /\ \/ sta = "down" /\ s = "connected"
       \/ sta = "connected" /\ s = "ready"
       \/ sta # "down" /\ s = "down"
    /\ sta' = s
    /\ steady' = FALSE
    /\ UNCHANGED <<modeVars, infoVars, hwVars, bcnVars, timerVars, bleVars, busVars, coreVars,
                   listVars, cmds>>
-----------------------------------------------------------------------------
(***************************************************************************)
(* The core thread: a message, the scheduler of the MAC, the power save    *)
(* command, the sleep check.                                               *)
(***************************************************************************)
core_pop ==
    /\ pc = "pop" /\ queue # <<>>
    /\ cmd' = Head(queue) /\ queue' = Tail(queue)
    /\ pc' = IF Head(queue) \in {"RF_DISANABLE", "tx"} THEN Head(queue) ELSE "sched"
    /\ UNCHANGED <<modeVars, infoVars, hwVars, bcnVars, timerVars, bleVars, sta, lost, listVars,
                   cmds, steady>>

\* Power save is turned off for the station interface.
power_save_dtim_disable ==
    ke' = IF bk_ps_mode = "dtim" THEN Append(ke, "off") ELSE ke

core_disable ==
    /\ pc = "RF_DISANABLE" /\ pc' = "sched"
    /\ power_save_rf_dtim_manual_do_wakeup
    /\ power_save_dtim_disable
    /\ UNCHANGED <<bk_ps_mode, ps_on, busy, timerVars, ble, sta, cmd, cmds>>

\* bmsg_tx_handler: wakes the RF, and then waits for it like any other thread.
core_tx ==
    /\ pc = "tx" /\ pc' = "tx_wakeup"
    /\ power_save_rf_dtim_manual_do_wakeup
    /\ UNCHANGED <<modeVars, timerVars, ble, sta, cmd, cmds>>

core_tx_wakeup ==
    /\ pc = "tx_wakeup"
    /\ IF RfAway
       THEN pc' = "tx_wait" /\ semlist_wait(Core)
       ELSE pc' = "sched" /\ UNCHANGED <<busVars, listVars>>
    /\ UNCHANGED <<modeVars, infoVars, hwVars, bcnVars, timerVars, bleVars, sta, cmd, cmds, steady>>

core_tx_wait ==
    /\ pc = "tx_wait" /\ pc' = "sched"
    /\ semlist_get(Core)
    /\ UNCHANGED <<modeVars, infoVars, hwVars, bcnVars, timerVars, bleVars, sta, busVars, cmd,
                   cmds, steady>>

\* Messages to TASK_ME stay saved while it waits for MM_SET_PS_MODE_CFM.
Deliverable == ke # <<>> /\ ~busy

\* ME_PS_REQ.
me_send_ps_req ==
    /\ pc = "sched" /\ Deliverable /\ Head(ke) = "on"
    /\ ke' = Tail(ke)
    /\ ps_on' = TRUE /\ busy' = TRUE /\ bk_ps_mode' = "opening"
    /\ UNCHANGED <<infoVars, hwVars, bcnVars, timerVars, bleVars, sta, busVars, coreVars, listVars,
                   cmds, steady>>

\* ME_SET_PS_DISABLE_REQ: the RF is taken back from BLE, if it has it, and
\* woken, with interrupts disabled throughout.
me_set_ps_disable_req ==
    /\ pc = "sched" /\ Deliverable /\ Head(ke) = "off"
    /\ ke' = Tail(ke)
    /\ IF ps_on
       THEN /\ busy' = TRUE /\ bk_ps_mode' = "closing" /\ ble' = FALSE
            /\ IF bk_ps_mode = "dtim" /\ way = "none" /\ real_sleep
               THEN power_save_ieee_dtim_wakeup("user", FALSE)
               ELSE /\ revert' = (revert /\ (~ble \/ real_sleep))
                    /\ IF ble /\ ~real_sleep THEN semlist_set ELSE UNCHANGED listVars
                    /\ UNCHANGED <<infoVars, hwVars, bcnVars, rf_wifi_used, busVars, steady>>
       ELSE UNCHANGED <<busy, bk_ps_mode, ble, wakeupVars>>
    /\ UNCHANGED <<ps_on, timerVars, sta, coreVars, cmds>>

\* The association state machine turns power save off of its own accord.
sm_disables_ps ==
    /\ pc = "sched" /\ "off" \in MacEvents /\ Len(ke) < MaxOff
    /\ ke' = Append(ke, "off")
    /\ UNCHANGED <<bk_ps_mode, ps_on, busy, infoVars, hwVars, bcnVars, timerVars, bleVars, sta,
                   busVars, coreVars, listVars, cmds, steady>>

power_save_keep_timer_stop ==
    /\ keep_timer' = IF keep_timer = "running" THEN "stopped" ELSE keep_timer
    /\ keep_status' = 0

power_save_wait_timer_stop ==
    wait_timer' = IF wait_timer = "running" THEN "stopped" ELSE wait_timer

\* power_save_dtim_disable_handler with power_save_dtim_ps_exit, and
\* ps_recover_ble_switch_mac_status, which runs with interrupts enabled but
\* has nothing to do (MacIntsRestored below), so that one step stands for both.
power_save_dtim_disable_handler ==
    /\ bk_ps_mode' = "no"
    /\ power_save_keep_timer_stop
    /\ power_save_wait_timer_stop
    /\ waited_beacon' = "init" /\ sleep_first' = TRUE
    /\ can_sleep' = FALSE /\ real_sleep' = FALSE
    /\ rf_wifi_used' = FALSE
    /\ revert' = (revert /\ ble)
    /\ IF revert /\ ~ble THEN semlist_set ELSE UNCHANGED listVars
    /\ UNCHANGED <<way, keep_period>>

\* power_save_dtim_enable_handler; without an association the mode stays.
power_save_dtim_enable_handler ==
    /\ IF sta # "down"
       THEN /\ bk_ps_mode' = "dtim" /\ sleep_first' = TRUE /\ can_sleep' = TRUE
            /\ wait_timer' = "stopped"
       ELSE UNCHANGED <<bk_ps_mode, sleep_first, can_sleep, wait_timer>>
    /\ UNCHANGED <<way, real_sleep, waited_beacon, keep_period, keep_status, keep_timer,
                   revert, rf_wifi_used, listVars>>

\* MM_SET_PS_MODE_CFM: the access point has been told.
mm_set_ps_mode_cfm ==
    /\ pc = "sched" /\ busy /\ busy' = FALSE
    /\ \/ bk_ps_mode = "closing" /\ power_save_dtim_disable_handler /\ ps_on' = FALSE
       \/ bk_ps_mode = "opening" /\ power_save_dtim_enable_handler /\ UNCHANGED ps_on
    /\ UNCHANGED <<ke, hwVars, bcnVars, ble, sta, busVars, coreVars, cmds, steady>>

\* ps_check_beacon and mm_check_beacon, with power_save_beacon_state_update
\* and, when the access point has to be probed, power_save_wait_timer_set.
beacon(probe) ==
    /\ pc = "sched" /\ sta # "down" /\ ~real_sleep /\ ~ble
    /\ probe => "probe" \in MacEvents /\ PS_STA_DTIM_SWITCH
    /\ waiting_bcn' = FALSE /\ rf_wifi_used' = FALSE
    /\ waited_beacon' = IF PS_STA_DTIM_SWITCH THEN "true" ELSE waited_beacon
    /\ bcn_loss' = IF PS_STA_DTIM_SWITCH /\ waited_beacon # "true" THEN 0 ELSE bcn_loss
    /\ bmsg_ps_sender(IF probe THEN <<"WAIT_TM_SET">> ELSE <<>>)
    /\ UNCHANGED <<modeVars, way, real_sleep, can_sleep, sleep_first, hwVars, reseted, timerVars,
                   ble, revert, sta, coreVars, listVars, cmds, steady>>

\* The MAC needs the RF: power_save_wake_mac_rf_if_in_sleep, MM_RESET_REQ.
power_save_wake_mac_rf_if_in_sleep ==
    /\ pc = "sched" /\ real_sleep
    /\ power_save_rf_dtim_manual_do_wakeup
    /\ UNCHANGED <<modeVars, timerVars, ble, sta, coreVars, cmds>>

power_save_set_reseted_flag ==
    /\ pc = "sched" /\ "reset" \in MacEvents /\ ~reseted
    /\ reseted' = TRUE
    /\ UNCHANGED <<modeVars, infoVars, hwVars, waiting_bcn, bcn_loss, timerVars, bleVars, sta,
                   busVars, coreVars, listVars, cmds, steady>>

\* The scheduler is done; the message is not used after its command.
core_sched ==
    /\ pc = "sched" /\ ~Deliverable
    /\ pc' = IF cmd \in {"rx", "tx", "RF_DISANABLE"} THEN "check" ELSE cmd
    /\ cmd' = "rx"
    /\ UNCHANGED <<modeVars, infoVars, hwVars, bcnVars, timerVars, bleVars, sta, busVars,
                   listVars, cmds, steady>>
-----------------------------------------------------------------------------
(***************************************************************************)
(* ps_msg_process.                                                         *)
(***************************************************************************)
ps_user_wkup ==
    /\ pc = "RF_USER_WKUP" /\ pc' = "check"
    /\ power_save_rf_dtim_manual_do_wakeup
    /\ UNCHANGED <<modeVars, timerVars, ble, sta, cmd, cmds>>

\* ME_PS_REQ is not sent when its allocation fails.
power_save_dtim_enable ==
    /\ pc = "RF_ENABLE" /\ pc' = "check"
    /\ \/ sta = "ready" /\ bk_ps_mode = "no" /\ ke' = Append(ke, "on")
       \/ UNCHANGED ke
    /\ UNCHANGED <<bk_ps_mode, ps_on, busy, infoVars, hwVars, bcnVars, timerVars, bleVars, sta,
                   busVars, cmd, listVars, cmds, steady>>

\* KP_SET, KP_STOP, WAIT_TM_SET and WAIT_TM_HANDLER.
power_save_keep_timer_set ==
    /\ IF keep_timer # "none" /\ keep_status = 0
       THEN keep_status' = 1 /\ keep_timer' = "running"
       ELSE UNCHANGED <<keep_status, keep_timer>>
    /\ UNCHANGED <<keep_period, wait_timer, waited_beacon>>

ps_keep_timer_stop ==
    /\ power_save_keep_timer_stop
    /\ UNCHANGED <<keep_period, wait_timer, waited_beacon>>

power_save_wait_timer_start ==
    /\ IF wait_timer # "none"
       THEN waited_beacon' = "false" /\ wait_timer' = "running"
       ELSE UNCHANGED <<waited_beacon, wait_timer>>
    /\ UNCHANGED <<keep_period, keep_status, keep_timer>>

power_save_wait_timer_real_handler ==
    /\ power_save_wait_timer_stop
    /\ waited_beacon' = IF PS_STA_DTIM_SWITCH THEN "true" ELSE waited_beacon
    /\ UNCHANGED <<keep_period, keep_status, keep_timer>>

ps_timer ==
    /\ \/ pc = "KP_SET" /\ power_save_keep_timer_set
       \/ pc = "KP_STOP" /\ ps_keep_timer_stop
       \/ pc = "WAIT_TM_SET" /\ power_save_wait_timer_start
       \/ pc = "WAIT_TM_HANDLER" /\ power_save_wait_timer_real_handler
    /\ pc' = "check"
    /\ UNCHANGED <<modeVars, way, real_sleep, can_sleep, sleep_first, hwVars, bcnVars, bleVars,
                   sta, busVars, cmd, listVars, cmds, steady>>

\* power_save_set_keep_timer_time with power_save_keep_timer_init: 20 ms or 0.
power_save_set_keep_timer_time ==
    /\ pc \in {"TIMER_INIT", "TIMER_DEINIT"} /\ pc' = "check"
    /\ keep_period' = (pc = "TIMER_INIT")
    /\ keep_status' = IF keep_timer = "none" THEN keep_status ELSE 0
    /\ keep_timer' = IF pc = "TIMER_INIT" THEN "stopped" ELSE "none"
    /\ steady' = FALSE
    /\ UNCHANGED <<modeVars, infoVars, hwVars, bcnVars, wait_timer, bleVars, sta, busVars, cmd,
                   listVars, cmds>>

\* KP_HANDLER, in two steps: no beacon came in time.
power_save_keep_timer_real_handler ==
    /\ pc = "KP_HANDLER" /\ pc' = "bcn_lost"
    /\ power_save_keep_timer_stop
    /\ rf_wifi_used' = FALSE
    /\ UNCHANGED <<modeVars, infoVars, hwVars, bcnVars, keep_period, wait_timer, ble, revert, sta,
                   busVars, cmd, listVars, cmds, steady>>

\* The wait for the beacon is over, unless too many were lost in a row.
bcn_lost_forgive ==
    IF ~reseted /\ bcn_loss < MaxLoss
    THEN /\ waited_beacon' = "true" /\ waiting_bcn' = FALSE /\ bcn_loss' = bcn_loss + 1
         /\ UNCHANGED <<reseted, steady>>
    ELSE /\ reseted' = FALSE /\ steady' = FALSE
         /\ UNCHANGED <<waited_beacon, waiting_bcn, bcn_loss>>

keep_timer_bcn_lost ==
    /\ pc = "bcn_lost" /\ pc' = "check"
    /\ IF PS_STA_DTIM_SWITCH /\ way = "rw" /\ ~real_sleep
       THEN /\ bcn_lost_forgive
            /\ queue' = IF queue = <<>> THEN <<"rx">> ELSE queue
       ELSE UNCHANGED <<waited_beacon, bcnVars, queue, steady>>
    /\ UNCHANGED <<modeVars, way, real_sleep, can_sleep, sleep_first, hwVars, timerVars, bleVars,
                   sta, lost, cmd, listVars, cmds>>
-----------------------------------------------------------------------------
(***************************************************************************)
(* power_save_rf_sleep_check: the MAC may refuse to sleep for reasons of   *)
(* its own; when it agrees power_save_sleep runs to its end with           *)
(* interrupts disabled, and looks at io_queue again before it commits.     *)
(***************************************************************************)
power_save_sleep ==
    /\ pc = "check" /\ PS_STA_DTIM_CAN_SLEEP /\ ke = <<>> /\ queue = <<>>
    /\ ~real_sleep /\ ~ble /\ ~waiting_bcn
    /\ IF ps_lock > 0
       THEN /\ icu' = (icu \ {"mac"}) \cup {"wakeup"} /\ ps_lock' = ps_lock - 1
            /\ real_sleep' = TRUE /\ way' = "none"
            /\ bmsg_ps_sender(IF keep_status = 1 THEN <<"KP_STOP">> ELSE <<>>)
       ELSE icu' = icu \ {"mac"} /\ UNCHANGED <<ps_lock, real_sleep, way, busVars>>
    /\ sleep_first' = FALSE
    /\ pc' = "pop"
    /\ UNCHANGED <<modeVars, can_sleep, waited_beacon, bcnVars, timerVars, bleVars, sta,
                   cmd, listVars, cmds, steady>>

sleep_refused ==
    /\ pc = "check" /\ pc' = "pop"
    /\ UNCHANGED <<modeVars, infoVars, hwVars, bcnVars, timerVars, bleVars, sta, busVars,
                   cmd, listVars, cmds, steady>>

core_handlers ==
    \/ core_pop \/ core_disable \/ core_tx \/ core_tx_wakeup \/ core_tx_wait
    \/ me_send_ps_req \/ me_set_ps_disable_req \/ core_sched
    \/ ps_user_wkup \/ power_save_dtim_enable \/ ps_timer \/ power_save_set_keep_timer_time
    \/ power_save_keep_timer_real_handler \/ keep_timer_bcn_lost
    \/ power_save_sleep \/ sleep_refused

mac_events ==
    \/ sm_disables_ps \/ mm_set_ps_mode_cfm \/ \E probe \in BOOLEAN : beacon(probe)
    \/ power_save_wake_mac_rf_if_in_sleep \/ power_save_set_reseted_flag

others ==
    \/ power_save_dtim_wake \/ wpas_wakeup
    \/ \E w \in Threads : do_wakeup(w) \/ do_wakeup_return(w)
    \/ ble_switch_rf_to_ble \/ ble_switch_rf_to_wifi
    \/ keep_timer_expires \/ wait_timer_expires
    \/ \E c \in Apps : app_posts(c)
    \/ mac_irq
    \/ \E s \in {"down", "connected", "ready"} : station_status(s)

Next == core_handlers \/ mac_events \/ others

Spec == Init /\ [][Next]_vars

\* The wakeup interrupt comes at the next DTIM, BLE gives the RF back when its
\* event is over, and a thread whose semaphore is given runs.
Fairness ==
    /\ WF_vars(power_save_dtim_wake)
    /\ WF_vars(ble_switch_rf_to_wifi)
    /\ WF_vars(core_handlers)
    /\ WF_vars(mac_irq)
    /\ SF_vars(mm_set_ps_mode_cfm)
    /\ \A w \in Threads : WF_vars(do_wakeup_return(w))

FairSpec == Spec /\ Fairness
-----------------------------------------------------------------------------
\* The variables that a wakeup changes, and the others.
ListTypes ==
    /\ wk_list \in Seq(Waiters)
    /\ waiting \subseteq Waiters
    /\ sema \in [Waiters -> {0, 1}]

SleepTypes ==
    /\ way \in {"none", "rw", "user"}
    /\ waited_beacon \in {"init", "true", "false"}
    /\ real_sleep \in BOOLEAN /\ can_sleep \in BOOLEAN /\ sleep_first \in BOOLEAN
    /\ ps_lock \in {0, 1} /\ icu \subseteq {"mac", "wakeup"}
    /\ waiting_bcn \in BOOLEAN /\ bcn_loss \in 0 .. MaxLoss /\ reseted \in BOOLEAN
    /\ revert \in BOOLEAN /\ rf_wifi_used \in BOOLEAN /\ steady \in BOOLEAN

BusTypes == queue \in Seq(Cmds) /\ Len(queue) <= QLen /\ lost \in BOOLEAN

CoreTypes ==
    /\ bk_ps_mode \in {"no", "opening", "dtim", "closing"}
    /\ ps_on \in BOOLEAN /\ busy \in BOOLEAN /\ ke \in Seq({"on", "off"})
    /\ keep_period \in BOOLEAN /\ keep_status \in {0, 1}
    /\ keep_timer \in {"none", "stopped", "running"}
    /\ wait_timer \in {"none", "stopped", "running"}
    /\ ble \in BOOLEAN
    /\ sta \in {"down", "connected", "ready"}
    /\ cmd \in Cmds
    /\ pc \in (Cmds \ {"rx"}) \cup {"pop", "tx_wakeup", "tx_wait", "sched", "bcn_lost", "check"}
    /\ cmds \in 0 .. MaxCmds

\* Type correctness: in particular the lock is 0 or 1, so that a wakeup finds it
\* free (ASSERT(!ps_lock)) and going to sleep never reports "error ps", and a
\* semaphore that was given is not given again (ASSERT of semlist_set).
TypeOK == SleepTypes /\ BusTypes /\ ListTypes /\ CoreTypes

\* A sleeping station can be woken: power save is on, no wakeup is under way,
\* the wakeup interrupt is enabled and the MAC's own interrupts are not; awake
\* it is the other way round.  ps_lock agrees with ps_real_sleep.
SleepIsWakeable ==
    IF real_sleep
    THEN bk_ps_mode = "dtim" /\ way = "none" /\ icu = {"wakeup"} /\ ps_lock = 0
    ELSE icu = {"mac"} /\ ps_lock = 1

\* A thread that waits for the RF is in the list or has its semaphore given,
\* not both, and while one is in the list, the station is asleep or BLE has the RF, so
\* that a wakeup or the release by BLE is still to come.
ListAgrees ==
    /\ \A w \in Waiters : w \in waiting <=> (w \in Elems(wk_list) \/ sema[w] = 1)
    /\ \A w \in Elems(wk_list) : sema[w] = 0

WaitersHaveWaker == ListAgrees /\ (wk_list # <<>> => real_sleep \/ ble)

\* When BLE takes the RF it stops the MAC and turns its interrupts off
\* (ble_is_revert_all); they are on again whenever BLE has given the RF back
\* and the station is awake.
MacIntsRestored == revert => ble \/ real_sleep

\* What TASK_ME and the core thread keep between them: the mode tells whether
\* power save is on and whether a confirmation is awaited, a request to turn it
\* on is alone and pending only while it is off, and the core thread waits for
\* the RF exactly at one place.
ModeAgrees ==
    /\ bk_ps_mode = "no" <=> ~ps_on
    /\ busy => bk_ps_mode \in {"opening", "closing"}
    /\ bk_ps_mode = "closing" => busy
    /\ \A i \in DOMAIN ke : ke[i] = "on" => i = 1 /\ bk_ps_mode = "no"
    /\ pc = "RF_ENABLE" => busy \/ ke = <<>>
    /\ Core \in waiting <=> pc = "tx_wait"

\* A thread is told that the RF is there only when it is: the station awake
\* and BLE not using it.
ServedAwake ==
    [][\A w \in Waiters : sema'[w] > sema[w] => ~real_sleep' /\ ~ble']_vars

\* The keep timer is set, or will be, or its expiry is still to be handled.
KeepTimerPending ==
    \/ keep_timer = "running"
    \/ {"KP_SET", "KP_HANDLER"} \cap Elems(queue) # {}
    \/ {"KP_SET", "KP_HANDLER", "bcn_lost"} \cap {pc, cmd} # {}

\* A station that was woken for a beacon does not stay awake for a beacon that
\* never comes: as long as it waits, the keep timer will end the wait.
BeaconWaitBounded ==
    /\ PS_STA_DTIM_SWITCH /\ ~real_sleep /\ way = "rw" /\ waiting_bcn /\ keep_period
    /\ ~sleep_first /\ steady /\ ~lost
    => KeepTimerPending

\* bk_wlan_dtim_rf_ps_mode_do_wakeup returns, in whatever order wakeups,
\* BLE and further calls come.
WaitersReturn == \A w \in Waiters : w \in waiting ~> w \notin waiting

\* A request to disable power save that the core thread finds in DTIM mode
\* gets it out of that mode.
DisableTakesEffect == pc = "RF_DISANABLE" /\ bk_ps_mode = "dtim" ~> bk_ps_mode = "no"

\* bk_wlan_dtim_rf_ps_mode_do_wakeup is not called in the core thread's context
\* (comment of the function): there it would wait for the RF.
NotInCoreThread == Core \notin waiting
=============================================================================
