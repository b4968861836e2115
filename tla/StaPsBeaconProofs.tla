------------------------ MODULE StaPsBeaconProofs ------------------------
(***************************************************************************)
(* A station that was woken for a beacon does not wait for it for ever:    *)
(* BeaconWaitBounded of StaPs, for any number of threads and any bounds.   *)
(* The argument is about the order of the commands in io_queue: the timer  *)
(* is started, stopped and its expiry handled by commands that the core    *)
(* thread carries out later, when the state may be another.                *)
(***************************************************************************)
EXTENDS StaPsProofs

\* Commands about the keep timer, and the one that the core thread is at.
KpCmds == {"KP_SET", "KP_STOP", "KP_HANDLER"}
Current == IF pc \in KpCmds THEN pc ELSE IF cmd \in KpCmds THEN cmd ELSE "rx"

\* The commands that are to be carried out, in their order: At(0) is the current one.
At(i) == IF i = 0 THEN Current ELSE queue[i]
NoStopAfter(i) == \A j \in i + 1 .. Len(queue) : queue[j] # "KP_STOP"

HandlerPending == \E i \in 0 .. Len(queue) : At(i) = "KP_HANDLER"

\* Positions of the core thread before it carries out the command of a message.
BeforeCommand == {"RF_DISANABLE", "tx", "tx_wakeup", "tx_wait", "sched"}

\* The keep timer exists exactly when it has a period.  While its status says that
\* it was set, it runs or its expiry is still to be handled.  A message is
\* held only up to its handler.
TimerInv ==
    /\ keep_period <=> keep_timer # "none"
    /\ keep_status = 1 /\ ~lost => keep_timer = "running" \/ HandlerPending
    /\ real_sleep => ~sleep_first
    /\ cmd # "rx" => pc \in BeforeCommand

\* The station waits for a beacon, and nothing excuses that it waits for ever.
Waits ==
    /\ PS_STA_DTIM_SWITCH /\ ~real_sleep /\ way = "rw" /\ waiting_bcn /\ keep_period
    /\ ~sleep_first /\ steady /\ ~lost

\* What will end the wait: the handling of an expiry, a start of the timer that no
\* stop follows, or the timer, with no stop to come.
SetPending == \E i \in 0 .. Len(queue) : At(i) = "KP_SET" /\ NoStopAfter(i)
NoStop == Current # "KP_STOP" /\ NoStopAfter(0)

Ending ==
    \/ pc = "bcn_lost" \/ HandlerPending
    \/ SetPending
    \/ keep_timer = "running" /\ NoStop

BeaconInv == TimerInv /\ (Waits => Ending)
-----------------------------------------------------------------------------
(***************************************************************************)
(* What a step does to the commands that are to be carried out.            *)
(***************************************************************************)
\* Commands are only added, and no stop among them.
Grows ==
    /\ Len(queue') >= Len(queue)
    /\ \A i \in 1 .. Len(queue) : queue'[i] = queue[i]

NoNewStop == \A j \in Len(queue) + 1 .. Len(queue') : queue'[j] # "KP_STOP"

\* bmsg_ps_sender adds the command, unless it loses it.
LEMMA Posts ==
    ASSUME TypeOK, NEW c \in Cmds, NEW s, s = <<>> \/ s = <<c>>, bmsg_ps_sender(s)
    PROVE  /\ Grows
           /\ lost => lost'
           /\ c # "KP_STOP" => NoNewStop
           /\ s = <<c>> /\ ~lost' => Len(queue') = Len(queue) + 1 /\ queue'[Len(queue')] = c
<1>1. queue \in Seq(Cmds) /\ Len(queue) \in Nat
  BY DEF TypeOK, BusTypes
<1>2. CASE queue' = queue
  <2>1. s = <<c>> => lost'
    <3>1. ASSUME s = <<c>>, Len(queue) + Len(s) <= QLen
          PROVE  FALSE
      <4>1. queue' = queue \o <<c>> /\ Len(queue \o <<c>>) = Len(queue) + 1
        BY <1>1, <3>1 DEF bmsg_ps_sender
      <4> QED BY <1>1, <1>2, <4>1
    <3> QED BY <3>1 DEF bmsg_ps_sender
  <2>2. lost => lost'
    BY DEF bmsg_ps_sender
  <2> QED BY <1>1, <1>2, <2>1, <2>2 DEF Grows, NoNewStop
<1>3. CASE queue' # queue
  <2>1. queue' = queue \o s /\ s = <<c>>
    <3>1. queue' = queue \o s
      BY <1>3 DEF bmsg_ps_sender
    <3>2. s # <<>>
      BY <1>1, <1>3, <3>1
    <3> QED BY <3>1, <3>2
  <2>2. /\ Len(queue') = Len(queue) + 1 /\ queue'[Len(queue) + 1] = c
        /\ \A i \in 1 .. Len(queue) : queue'[i] = queue[i]
    BY <1>1, <2>1
  <2>3. lost => lost'
    BY DEF bmsg_ps_sender
  <2> QED BY <1>1, <2>2, <2>3 DEF Grows, NoNewStop
<1> QED BY <1>2, <1>3

\* What is pending stays pending while commands are only added.
LEMMA Keeps ==
    ASSUME TypeOK, TypeOK', Grows, Current' = Current
    PROVE  /\ HandlerPending => HandlerPending'
           /\ NoNewStop /\ SetPending => SetPending'
           /\ NoNewStop /\ NoStop => NoStop'
<1>1. Len(queue) \in Nat /\ Len(queue') \in Nat
  BY DEF TypeOK, BusTypes
<1>2. \A i \in 0 .. Len(queue) : i \in 0 .. Len(queue') /\ At(i)' = At(i)
  BY <1>1 DEF At, Grows
<1>3. HandlerPending => HandlerPending'
  BY <1>2 DEF HandlerPending
<1>4. ASSUME NoNewStop, NEW i \in 0 .. Len(queue), NoStopAfter(i)
      PROVE  NoStopAfter(i)'
  <2>1. ASSUME NEW j \in i + 1 .. Len(queue')
        PROVE  queue'[j] # "KP_STOP"
    <3>1. CASE j <= Len(queue)
      BY <1>1, <1>4, <2>1, <3>1 DEF NoStopAfter, Grows
    <3>2. CASE j > Len(queue)
      BY <1>1, <1>4, <2>1, <3>2 DEF NoNewStop
    <3> QED BY <1>1, <3>1, <3>2
  <2> QED BY <2>1 DEF NoStopAfter
<1>5. NoNewStop /\ SetPending => SetPending'
  BY <1>2, <1>4 DEF SetPending
<1>6. NoNewStop /\ NoStop => NoStop'
  BY <1>1, <1>4 DEF NoStop
<1> QED BY <1>3, <1>5, <1>6

\* A step that leaves the keep timer and the current command alone.
LEMMA Quiet ==
    ASSUME TypeOK, TypeOK', BeaconInv, Grows, NoNewStop, lost => lost',
           UNCHANGED <<keep_period, keep_status, keep_timer>>, Current' = Current,
           cmd' # "rx" => pc' \in BeforeCommand,
           pc = "bcn_lost" => pc' = "bcn_lost",
           real_sleep' => ~sleep_first',
           Waits' => Waits
    PROVE  BeaconInv'
<1>1. TimerInv'
  BY Keeps DEF BeaconInv, TimerInv
<1>2. Waits' => Ending'
  BY Keeps DEF BeaconInv, Ending
<1> QED BY <1>1, <1>2 DEF BeaconInv

\* The same when it does not touch io_queue either.
LEMMA Untouched ==
    ASSUME TypeOK, UNCHANGED queue
    PROVE  Grows /\ NoNewStop
  BY DEF TypeOK, BusTypes, Grows, NoNewStop

\* A wakeup by a thread: the station does not wait for a beacon after it.
LEMMA ManualQuiet ==
    ASSUME TypeOK, power_save_rf_dtim_manual_do_wakeup
    PROVE  /\ Grows /\ NoNewStop
           /\ lost => lost'
           /\ UNCHANGED sleep_first
           /\ real_sleep' => real_sleep
           /\ way' = "user" \/ UNCHANGED <<real_sleep, way, waiting_bcn, steady, lost>>
<1>1. CASE ~ble /\ bk_ps_mode = "dtim" /\ way = "none" /\ real_sleep
  <2>1. power_save_ieee_dtim_wakeup("user", FALSE)
    BY <1>1 DEF power_save_rf_dtim_manual_do_wakeup
  <2>2. "KP_SET" \in Cmds /\ bmsg_ps_sender(IF ~sleep_first /\ keep_period THEN <<"KP_SET">> ELSE <<>>)
    BY <2>1 DEF power_save_ieee_dtim_wakeup, Cmds
  <2>3. Grows /\ NoNewStop /\ (lost => lost')
    BY <2>2, Posts
  <2> QED BY <2>1, <2>3 DEF power_save_ieee_dtim_wakeup
<1>2. CASE ~(~ble /\ bk_ps_mode = "dtim" /\ way = "none" /\ real_sleep)
  <2>1. UNCHANGED wakeupVars
    BY <1>2 DEF power_save_rf_dtim_manual_do_wakeup
  <2>2. UNCHANGED <<queue, lost, sleep_first, real_sleep, way, waiting_bcn, steady>>
    BY <2>1 DEF wakeupVars, infoVars, bcnVars, busVars
  <2> QED BY <2>2, Untouched
<1> QED BY <1>1, <1>2
-----------------------------------------------------------------------------
(***************************************************************************)
(* One lemma per group of actions: first those that leave the keep timer   *)
(* and its commands alone.                                                 *)
(***************************************************************************)
\* Steps of the core thread and of the MAC that post nothing.
LEMMA SilentSteps ==
    ASSUME TypeOK, TypeOK', BeaconInv,
           \/ core_tx_wait \/ me_send_ps_req \/ core_sched \/ power_save_dtim_enable
           \/ sleep_refused \/ sm_disables_ps \/ power_save_set_reseted_flag
           \/ ble_switch_rf_to_ble \/ ble_switch_rf_to_wifi
           \/ \E w \in Threads : do_wakeup_return(w)
           \/ \E t \in {"down", "connected", "ready"} : station_status(t)
    PROVE  BeaconInv'
<1>1. ASSUME UNCHANGED <<queue, lost, keep_period, keep_status, keep_timer, real_sleep, sleep_first>>,
             Current' = Current, cmd' # "rx" => pc' \in BeforeCommand,
             pc = "bcn_lost" => pc' = "bcn_lost", Waits' => Waits
      PROVE  BeaconInv'
  BY <1>1, Untouched, Quiet DEF BeaconInv, TimerInv
<1>2. CASE core_tx_wait
  BY <1>1, <1>2 DEF core_tx_wait, infoVars, bcnVars, busVars, coreVars, modeVars, timerVars,
     Waits, PS_STA_DTIM_SWITCH, Current, KpCmds, BeforeCommand, BeaconInv, TimerInv
<1>3. CASE me_send_ps_req
  BY <1>1, <1>3 DEF me_send_ps_req, infoVars, bcnVars, busVars, coreVars, modeVars, timerVars,
     Waits, PS_STA_DTIM_SWITCH, Current, KpCmds, BeforeCommand, BeaconInv, TimerInv
<1>4. CASE core_sched
  BY <1>1, <1>4 DEF core_sched, infoVars, bcnVars, busVars, coreVars, modeVars, timerVars,
     Waits, PS_STA_DTIM_SWITCH, Current, KpCmds, BeforeCommand, BeaconInv, TimerInv
<1>5. CASE power_save_dtim_enable
  BY <1>1, <1>5 DEF power_save_dtim_enable, infoVars, bcnVars, busVars, coreVars, modeVars, timerVars,
     Waits, PS_STA_DTIM_SWITCH, Current, KpCmds, BeforeCommand, BeaconInv, TimerInv
<1>6. CASE sleep_refused
  BY <1>1, <1>6 DEF sleep_refused, infoVars, bcnVars, busVars, coreVars, modeVars, timerVars,
     Waits, PS_STA_DTIM_SWITCH, Current, KpCmds, BeforeCommand, BeaconInv, TimerInv
<1>7. CASE sm_disables_ps
  BY <1>1, <1>7 DEF sm_disables_ps, infoVars, bcnVars, busVars, coreVars, modeVars, timerVars,
     Waits, PS_STA_DTIM_SWITCH, Current, KpCmds, BeforeCommand, BeaconInv, TimerInv
<1>8. CASE power_save_set_reseted_flag
  BY <1>1, <1>8 DEF power_save_set_reseted_flag, infoVars, bcnVars, busVars, coreVars, modeVars, timerVars,
     Waits, PS_STA_DTIM_SWITCH, Current, KpCmds, BeforeCommand, BeaconInv, TimerInv
<1>9. CASE ble_switch_rf_to_ble
  BY <1>1, <1>9 DEF ble_switch_rf_to_ble, infoVars, bcnVars, busVars, coreVars, modeVars, timerVars,
     Waits, PS_STA_DTIM_SWITCH, Current, KpCmds, BeforeCommand, BeaconInv, TimerInv
<1>10. CASE ble_switch_rf_to_wifi
  BY <1>1, <1>10 DEF ble_switch_rf_to_wifi, infoVars, bcnVars, busVars, coreVars, modeVars, timerVars,
     Waits, PS_STA_DTIM_SWITCH, Current, KpCmds, BeforeCommand, BeaconInv, TimerInv
<1>11. ASSUME NEW w \in Threads, do_wakeup_return(w)
      PROVE  BeaconInv'
  BY <1>1, <1>11 DEF do_wakeup_return, infoVars, bcnVars, busVars, coreVars, modeVars, timerVars,
     Waits, PS_STA_DTIM_SWITCH, Current, BeaconInv, TimerInv
<1>12. ASSUME NEW t \in {"down", "connected", "ready"}, station_status(t)
      PROVE  BeaconInv'
  BY <1>1, <1>12 DEF station_status, infoVars, bcnVars, busVars, coreVars, modeVars, timerVars,
     Waits, Current, BeaconInv, TimerInv
<1> QED BY <1>2, <1>3, <1>4, <1>5, <1>6, <1>7, <1>8, <1>9, <1>10, <1>11, <1>12

\* Steps that only post a command which has nothing to do with the keep timer.
LEMMA PostingSteps ==
    ASSUME TypeOK, TypeOK', BeaconInv,
           \/ core_tx_wakeup \/ wait_timer_expires \/ mac_irq
           \/ \E probe \in BOOLEAN : beacon(probe)
           \/ \E w \in Threads : do_wakeup(w)
           \/ \E c \in Apps : app_posts(c)
    PROVE  BeaconInv'
<1>1. ASSUME UNCHANGED <<keep_period, keep_status, keep_timer, real_sleep, sleep_first>>,
             Current' = Current, cmd' # "rx" => pc' \in BeforeCommand,
             pc = "bcn_lost" => pc' = "bcn_lost", Waits' => Waits,
             NEW c \in Cmds \ {"KP_STOP"}, bmsg_ps_sender(<<c>>) \/ bmsg_ps_sender(<<>>)
      PROVE  BeaconInv'
  <2>1. Grows /\ NoNewStop /\ (lost => lost')
    BY <1>1, Posts
  <2> QED BY <1>1, <2>1, Quiet DEF BeaconInv, TimerInv
<1>2. lost' \in BOOLEAN /\ lost \in BOOLEAN
  BY DEF TypeOK, BusTypes
<1>3. ASSUME NEW s, bmsg_ps_sender(s)
      PROVE  ~lost' => ~lost
  BY <1>3 DEF bmsg_ps_sender
<1>4. CASE core_tx_wakeup
  <2>1. /\ UNCHANGED <<keep_period, keep_status, keep_timer, real_sleep, sleep_first, way, waiting_bcn,
                       bk_ps_mode, sta, steady, cmd>>
        /\ pc = "tx_wakeup" /\ pc' \in {"tx_wait", "sched"}
    BY <1>4 DEF core_tx_wakeup, infoVars, bcnVars, modeVars, timerVars
  <2>2. Current' = Current /\ pc' \in BeforeCommand
    BY <2>1 DEF Current, KpCmds, BeforeCommand
  <2>3. CASE RfAway
    <3>1. bmsg_ps_sender(IF ble THEN <<>> ELSE <<"RF_USER_WKUP">>)
      BY <1>4, <2>3 DEF core_tx_wakeup, semlist_wait
    <3>2. Waits' => Waits
      BY <2>1, <3>1, <1>3 DEF Waits, PS_STA_DTIM_SWITCH
    <3> QED BY <1>1, <2>1, <2>2, <3>1, <3>2 DEF Cmds
  <2>4. CASE ~RfAway
    <3>1. UNCHANGED <<queue, lost>>
      BY <1>4, <2>4 DEF core_tx_wakeup, busVars
    <3>2. Waits' => Waits
      BY <2>1, <3>1 DEF Waits, PS_STA_DTIM_SWITCH
    <3> QED BY <2>1, <2>2, <3>1, <3>2, Untouched, Quiet DEF BeaconInv, TimerInv
  <2> QED BY <2>3, <2>4
<1>5. CASE wait_timer_expires
  <2>1. /\ UNCHANGED <<keep_period, keep_status, keep_timer, real_sleep, sleep_first, way, waiting_bcn,
                       bk_ps_mode, sta, steady, cmd, pc>>
        /\ bmsg_ps_sender(<<"WAIT_TM_HANDLER">>)
    BY <1>5 DEF wait_timer_expires, infoVars, bcnVars, modeVars, coreVars
  <2>2. Waits' => Waits
    BY <2>1, <1>3 DEF Waits, PS_STA_DTIM_SWITCH
  <2>3. Current' = Current /\ (cmd' # "rx" => pc' \in BeforeCommand)
    BY <2>1 DEF Current, BeaconInv, TimerInv
  <2> QED BY <1>1, <2>1, <2>2, <2>3 DEF Cmds
<1>6. CASE mac_irq
  <2>1. /\ UNCHANGED <<keep_period, keep_status, keep_timer, real_sleep, sleep_first, way, waiting_bcn,
                       bk_ps_mode, sta, steady, cmd, pc, lost>>
        /\ queue' = Append(queue, "rx")
    BY <1>6 DEF mac_irq, infoVars, bcnVars, modeVars, coreVars, timerVars
  <2>2. Grows /\ NoNewStop
    BY <2>1 DEF Grows, NoNewStop, TypeOK, BusTypes
  <2>3. Waits' => Waits
    BY <2>1 DEF Waits, PS_STA_DTIM_SWITCH
  <2> QED BY <2>1, <2>2, <2>3, Quiet DEF Current, BeaconInv, TimerInv
<1>7. ASSUME NEW probe \in BOOLEAN, beacon(probe)
      PROVE  BeaconInv'
  <2>1. /\ UNCHANGED <<keep_period, keep_status, keep_timer, real_sleep, sleep_first, cmd, pc>>
        /\ bmsg_ps_sender(IF probe THEN <<"WAIT_TM_SET">> ELSE <<>>)
        /\ ~waiting_bcn'
    BY <1>7 DEF beacon, timerVars, coreVars
  <2>2. bmsg_ps_sender(<<"WAIT_TM_SET">>) \/ bmsg_ps_sender(<<>>)
    BY <2>1
  <2>3. Current' = Current /\ (cmd' # "rx" => pc' \in BeforeCommand) /\ ~Waits'
    BY <2>1 DEF Current, BeaconInv, TimerInv, Waits
  <2> QED BY <1>1, <2>1, <2>2, <2>3 DEF Cmds
<1>8. ASSUME NEW w \in Threads, do_wakeup(w)
      PROVE  BeaconInv'
  <2>1. /\ UNCHANGED <<keep_period, keep_status, keep_timer, real_sleep, sleep_first, way, waiting_bcn,
                       bk_ps_mode, sta, steady, cmd, pc>>
        /\ bmsg_ps_sender(IF ble THEN <<>> ELSE <<"RF_USER_WKUP">>)
    BY <1>8 DEF do_wakeup, semlist_wait, infoVars, bcnVars, modeVars, coreVars, timerVars
  <2>2. Waits' => Waits
    BY <2>1, <1>3 DEF Waits, PS_STA_DTIM_SWITCH
  <2>3. Current' = Current /\ (cmd' # "rx" => pc' \in BeforeCommand)
    BY <2>1 DEF Current, BeaconInv, TimerInv
  <2> QED BY <1>1, <2>1, <2>2, <2>3 DEF Cmds
<1>9. ASSUME NEW c \in Apps, app_posts(c)
      PROVE  BeaconInv'
  <2>1. /\ UNCHANGED <<keep_period, keep_status, keep_timer, real_sleep, sleep_first, way, waiting_bcn,
                       bk_ps_mode, sta, steady, cmd, pc>>
        /\ bmsg_ps_sender(<<c>>)
    BY <1>9 DEF app_posts, infoVars, bcnVars, modeVars, coreVars, timerVars
  <2>2. c \in Cmds \ {"KP_STOP"}
    BY EnvAssumption DEF AppCmds, Cmds
  <2>3. Waits' => Waits
    BY <2>1, <1>3 DEF Waits, PS_STA_DTIM_SWITCH
  <2>4. Current' = Current /\ (cmd' # "rx" => pc' \in BeforeCommand)
    BY <2>1 DEF Current, BeaconInv, TimerInv
  <2> QED BY <1>1, <2>1, <2>2, <2>3, <2>4
<1> QED BY <1>4, <1>5, <1>6, <1>7, <1>8, <1>9

\* Wakeups by a thread or by the MAC itself, and the requests that begin with one.
LEMMA ManualSteps ==
    ASSUME TypeOK, TypeOK', BeaconInv,
           \/ core_disable \/ core_tx \/ ps_user_wkup \/ wpas_wakeup
           \/ power_save_wake_mac_rf_if_in_sleep
    PROVE  BeaconInv'
<1>1. /\ UNCHANGED <<keep_period, keep_status, keep_timer, bk_ps_mode, sta, cmd>>
      /\ power_save_rf_dtim_manual_do_wakeup
      /\ \/ pc \in BeforeCommand /\ pc' \in BeforeCommand
         \/ pc = "RF_USER_WKUP" /\ pc' = "check"
         \/ pc' = pc
  BY DEF core_disable, core_tx, ps_user_wkup, wpas_wakeup, power_save_wake_mac_rf_if_in_sleep,
     timerVars, modeVars, coreVars, BeforeCommand
<1>2. /\ Grows /\ NoNewStop
      /\ lost => lost'
      /\ UNCHANGED sleep_first
      /\ real_sleep' => real_sleep
      /\ way' = "user" \/ UNCHANGED <<real_sleep, way, waiting_bcn, steady, lost>>
  BY <1>1, ManualQuiet
<1>3. Waits' => Waits
  BY <1>1, <1>2 DEF Waits, PS_STA_DTIM_SWITCH
<1>4. /\ Current' = Current
      /\ cmd' # "rx" => pc' \in BeforeCommand
      /\ pc = "bcn_lost" => pc' = "bcn_lost"
      /\ real_sleep' => ~sleep_first'
  BY <1>1, <1>2 DEF Current, KpCmds, BeforeCommand, BeaconInv, TimerInv
<1> QED BY <1>1, <1>2, <1>3, <1>4, Quiet
-----------------------------------------------------------------------------
(***************************************************************************)
(* The steps that take commands, change the timer or begin a wait.         *)
(***************************************************************************)
\* The first command becomes the current one.
LEMMA PopStep ==
    ASSUME TypeOK, TypeOK', BeaconInv, core_pop
    PROVE  BeaconInv'
<1>1. queue \in Seq(Cmds) /\ queue # <<>> /\ pc = "pop" /\ cmd = "rx" /\ Current = "rx"
  BY DEF core_pop, TypeOK, BusTypes, BeaconInv, TimerInv, BeforeCommand, Current, KpCmds
<1>2. /\ Len(queue) \in Nat /\ Len(queue') = Len(queue) - 1 /\ Len(queue) >= 1
      /\ \A i \in 1 .. Len(queue') : queue'[i] = queue[i + 1]
      /\ Head(queue) = queue[1]
  BY <1>1 DEF core_pop
<1>3. /\ cmd' = queue[1]
      /\ pc' = IF queue[1] \in {"RF_DISANABLE", "tx"} THEN queue[1] ELSE "sched"
      /\ UNCHANGED <<keep_period, keep_status, keep_timer, bk_ps_mode, sta, real_sleep, way,
                     waiting_bcn, sleep_first, steady, lost>>
  BY <1>2 DEF core_pop, timerVars, modeVars, infoVars, bcnVars
<1>4. pc' \in BeforeCommand /\ Current' = IF queue[1] \in KpCmds THEN queue[1] ELSE "rx"
  BY <1>3 DEF Current, KpCmds, BeforeCommand
<1>5. ASSUME NEW i \in 0 .. Len(queue), At(i) \in KpCmds
      PROVE  i - 1 \in 0 .. Len(queue') /\ At(i - 1)' = At(i)
  <2>1. i # 0
    BY <1>1, <1>5 DEF At, KpCmds
  <2>2. CASE i = 1
    BY <1>2, <1>4, <1>5, <2>2 DEF At
  <2>3. CASE i > 1
    <3>1. i - 1 \in 1 .. Len(queue') /\ i - 1 # 0 /\ (i - 1) + 1 = i
      BY <1>2, <2>3
    <3> QED BY <1>2, <3>1, <2>3 DEF At
  <2> QED BY <1>2, <2>1, <2>2, <2>3
<1>6. HandlerPending => HandlerPending'
  BY <1>5 DEF HandlerPending, KpCmds
<1>7. ASSUME NEW i \in 1 .. Len(queue), NoStopAfter(i)
      PROVE  NoStopAfter(i - 1)'
  <2>1. ASSUME NEW j \in (i - 1) + 1 .. Len(queue')
        PROVE  queue'[j] # "KP_STOP"
    <3>1. j \in 1 .. Len(queue') /\ j + 1 \in i + 1 .. Len(queue)
      BY <1>2, <2>1
    <3> QED BY <1>2, <1>7, <3>1 DEF NoStopAfter
  <2> QED BY <2>1 DEF NoStopAfter
<1>8. SetPending => SetPending'
  <2>1. ASSUME NEW i \in 0 .. Len(queue), At(i) = "KP_SET", NoStopAfter(i)
        PROVE  SetPending'
    <3>1. i \in 1 .. Len(queue)
      BY <1>1, <1>2, <2>1 DEF At
    <3>2. i - 1 \in 0 .. Len(queue') /\ At(i - 1)' = "KP_SET"
      BY <1>5, <2>1 DEF KpCmds
    <3> QED BY <1>7, <2>1, <3>1, <3>2 DEF SetPending
  <2> QED BY <2>1 DEF SetPending
<1>9. NoStop => NoStop'
  <2>1. ASSUME NoStop
        PROVE  Current' # "KP_STOP" /\ NoStopAfter(0)'
    <3>1. \A j \in 1 .. Len(queue) : queue[j] # "KP_STOP"
      BY <2>1 DEF NoStop, NoStopAfter
    <3>2. \A j \in 1 .. Len(queue') : j + 1 \in 1 .. Len(queue)
      BY <1>2
    <3> QED BY <1>2, <1>4, <3>1, <3>2 DEF NoStopAfter
  <2> QED BY <2>1 DEF NoStop
<1>10. Waits' => Waits
  BY <1>3 DEF Waits, PS_STA_DTIM_SWITCH
<1>11. TimerInv'
  BY <1>3, <1>4, <1>6 DEF BeaconInv, TimerInv
<1> QED BY <1>1, <1>3, <1>6, <1>8, <1>9, <1>10, <1>11 DEF BeaconInv, Ending

\* The current command was carried out and is gone; the others stay.
LEMMA Done ==
    ASSUME TypeOK, UNCHANGED queue, Current \in KpCmds, Current' = "rx"
    PROVE  /\ Current # "KP_HANDLER" /\ HandlerPending => HandlerPending'
           /\ Current # "KP_SET" /\ SetPending => SetPending'
           /\ NoStopAfter(0) => NoStop'
<1>1. Len(queue) \in Nat
  BY DEF TypeOK, BusTypes
<1>2. \A i \in 1 .. Len(queue) : At(i)' = At(i)
  BY <1>1 DEF At
<1>3. At(0) = Current
  BY DEF At
<1>4. Current # "KP_HANDLER" /\ HandlerPending => HandlerPending'
  BY <1>1, <1>2, <1>3 DEF HandlerPending
<1>5. \A i \in 0 .. Len(queue) : NoStopAfter(i) => NoStopAfter(i)'
  BY DEF NoStopAfter
<1>6. Current # "KP_SET" /\ SetPending => SetPending'
  BY <1>1, <1>2, <1>3, <1>5 DEF SetPending
<1>7. NoStopAfter(0) => NoStop'
  BY <1>1, <1>5 DEF NoStop
<1> QED BY <1>4, <1>6, <1>7

\* KP_SET, KP_STOP and the commands about the other timer.
LEMMA TimerStep ==
    ASSUME TypeOK, TypeOK', BeaconInv, ps_timer
    PROVE  BeaconInv'
<1>1. /\ UNCHANGED <<queue, lost, bk_ps_mode, sta, real_sleep, way, waiting_bcn, sleep_first, steady,
                     cmd, keep_period>>
      /\ pc \in {"KP_SET", "KP_STOP", "WAIT_TM_SET", "WAIT_TM_HANDLER"} /\ pc' = "check"
  BY DEF ps_timer, modeVars, bcnVars, busVars, power_save_keep_timer_set, ps_keep_timer_stop,
     power_save_wait_timer_start, power_save_wait_timer_real_handler
<1>2. cmd = "rx" /\ Current' = "rx" /\ (cmd' # "rx" => pc' \in BeforeCommand)
  BY <1>1 DEF BeaconInv, TimerInv, BeforeCommand, Current, KpCmds
<1>3. Waits' => Waits
  BY <1>1 DEF Waits, PS_STA_DTIM_SWITCH
<1>4. CASE pc \in {"WAIT_TM_SET", "WAIT_TM_HANDLER"}
  <2>1. UNCHANGED <<keep_status, keep_timer>> /\ Current = "rx"
    BY <1>2, <1>4 DEF ps_timer, power_save_wait_timer_start, power_save_wait_timer_real_handler,
       Current, KpCmds
  <2> QED BY <1>1, <1>2, <1>3, <2>1, Untouched, Quiet DEF BeaconInv, TimerInv
<1>5. CASE pc = "KP_SET"
  <2>1. Current = "KP_SET" /\ power_save_keep_timer_set
    BY <1>5 DEF ps_timer, Current, KpCmds
  <2>2. /\ HandlerPending => HandlerPending'
        /\ NoStopAfter(0) => NoStop'
    BY <1>1, <1>2, <2>1, Done DEF KpCmds
  <2>3. TimerInv'
    <3>1. keep_timer' # "none" <=> keep_timer # "none"
      BY <2>1 DEF power_save_keep_timer_set
    <3>2. keep_status' = 1 /\ ~lost' => keep_timer' = "running" \/ HandlerPending'
      BY <1>1, <2>1, <2>2 DEF power_save_keep_timer_set, BeaconInv, TimerInv
    <3> QED BY <1>1, <1>2, <3>1, <3>2 DEF BeaconInv, TimerInv
  <2>4. ASSUME Waits'
        PROVE  Ending'
    <3>1. CASE HandlerPending
      BY <2>2, <3>1 DEF Ending
    <3>2. CASE ~HandlerPending
      <4>1. keep_timer' = "running"
        BY <1>1, <1>3, <2>1, <2>4, <3>2 DEF Waits, power_save_keep_timer_set, BeaconInv, TimerInv,
           TypeOK, CoreTypes
      <4>2. CASE NoStopAfter(0)
        BY <2>2, <4>1, <4>2 DEF Ending
      <4>3. CASE ~NoStopAfter(0)
        <5>1. SetPending
          BY <1>1, <1>3, <2>4, <3>2, <4>3 DEF BeaconInv, Ending, NoStop
        <5>2. PICK i \in 0 .. Len(queue) : At(i) = "KP_SET" /\ NoStopAfter(i)
          BY <5>1 DEF SetPending
        <5>3. i # 0
          BY <4>3, <5>2
        <5>4. At(i)' = "KP_SET" /\ NoStopAfter(i)' /\ i \in 0 .. Len(queue')
          BY <1>1, <5>2, <5>3 DEF At, NoStopAfter
        <5> QED BY <5>4 DEF Ending, SetPending
      <4> QED BY <4>2, <4>3
    <3> QED BY <3>1, <3>2
  <2> QED BY <2>3, <2>4 DEF BeaconInv
<1>6. CASE pc = "KP_STOP"
  <2>1. Current = "KP_STOP" /\ power_save_keep_timer_stop
    BY <1>6 DEF ps_timer, ps_keep_timer_stop, Current, KpCmds
  <2>2. /\ HandlerPending => HandlerPending'
        /\ SetPending => SetPending'
    BY <1>1, <1>2, <2>1, Done DEF KpCmds
  <2>3. TimerInv'
    BY <1>1, <1>2, <2>1 DEF power_save_keep_timer_stop, BeaconInv, TimerInv
  <2>4. Waits' => Ending'
    BY <1>3, <1>6, <2>1, <2>2 DEF BeaconInv, Ending, NoStop
  <2> QED BY <2>3, <2>4 DEF BeaconInv
<1> QED BY <1>1, <1>4, <1>5, <1>6

\* The steps after which the station does not wait, or no longer without excuse.
LEMMA EndingSteps ==
    ASSUME IInv, TypeOK', BeaconInv,
           \/ power_save_set_keep_timer_time \/ keep_timer_bcn_lost \/ power_save_sleep
           \/ mm_set_ps_mode_cfm \/ me_set_ps_disable_req
    PROVE  BeaconInv'
<1>1. TypeOK /\ SleepIsWakeable
  BY DEF IInv
<1>2. CASE power_save_set_keep_timer_time
  <2>1. /\ UNCHANGED <<queue, lost, real_sleep, sleep_first, cmd>> /\ ~steady'
        /\ pc \in {"TIMER_INIT", "TIMER_DEINIT"} /\ pc' = "check"
    BY <1>2 DEF power_save_set_keep_timer_time, infoVars, busVars
  <2>2. keep_period' <=> keep_timer' # "none"
    <3>1. CASE pc = "TIMER_INIT"
      <4>1. keep_period' /\ keep_timer' = "stopped"
        BY <1>2, <3>1 DEF power_save_set_keep_timer_time
      <4> QED BY <4>1
    <3>2. CASE pc = "TIMER_DEINIT"
      <4>1. ~keep_period' /\ keep_timer' = "none"
        BY <1>2, <3>2 DEF power_save_set_keep_timer_time
      <4> QED BY <4>1
    <3> QED BY <2>1, <3>1, <3>2
  <2>3. keep_status' = 1 => keep_timer = "none" /\ keep_status = 1
    BY <1>2 DEF power_save_set_keep_timer_time
  <2>4. cmd = "rx" /\ Current' = Current
    BY <2>1 DEF BeaconInv, TimerInv, BeforeCommand, Current, KpCmds
  <2>5. HandlerPending => HandlerPending'
    BY <1>1, <2>1, <2>4, Keeps, Untouched
  <2>6. TimerInv'
    BY <2>1, <2>2, <2>3, <2>4, <2>5 DEF BeaconInv, TimerInv
  <2> QED BY <2>1, <2>6 DEF BeaconInv, Waits
<1>3. CASE keep_timer_bcn_lost
  <2>1. /\ UNCHANGED <<lost, bk_ps_mode, sta, real_sleep, sleep_first, way, keep_period,
                       keep_status, keep_timer, cmd>>
        /\ pc = "bcn_lost" /\ pc' = "check"
        /\ queue' = queue \/ (queue = <<>> /\ queue' = <<"rx">>)
    BY <1>3 DEF keep_timer_bcn_lost, modeVars, timerVars
  <2>2. ~Waits'
    BY <1>3, <2>1 DEF keep_timer_bcn_lost, bcn_lost_forgive, Waits, PS_STA_DTIM_SWITCH
  <2>3. cmd = "rx" /\ Current' = Current
    BY <2>1 DEF BeaconInv, TimerInv, BeforeCommand, Current, KpCmds
  <2>4. Grows
    BY <1>1, <2>1 DEF Grows, TypeOK, BusTypes
  <2>5. TimerInv'
    BY <1>1, <2>1, <2>3, <2>4, Keeps DEF BeaconInv, TimerInv
  <2> QED BY <2>2, <2>5 DEF BeaconInv
<1>4. CASE power_save_sleep
  <2>1. ps_lock = 1
    BY <1>1, <1>4 DEF power_save_sleep, SleepIsWakeable
  <2>2. /\ UNCHANGED <<keep_period, keep_status, keep_timer, cmd>>
        /\ pc = "check" /\ pc' = "pop" /\ real_sleep' = TRUE /\ sleep_first' = FALSE
        /\ bmsg_ps_sender(IF keep_status = 1 THEN <<"KP_STOP">> ELSE <<>>)
    BY <1>4, <2>1 DEF power_save_sleep, timerVars
  <2>3. Grows /\ (lost => lost')
    BY <1>1, <2>2, Posts DEF Cmds
  <2>4. cmd = "rx" /\ Current' = Current
    BY <2>2 DEF BeaconInv, TimerInv, BeforeCommand, Current, KpCmds
  <2>5. TimerInv'
    BY <1>1, <2>2, <2>3, <2>4, Keeps DEF BeaconInv, TimerInv
  <2> QED BY <2>2, <2>5 DEF BeaconInv, Waits
<1>5. CASE mm_set_ps_mode_cfm
  <2>1. UNCHANGED <<queue, lost, pc, cmd, keep_period>>
    BY <1>5 DEF mm_set_ps_mode_cfm, power_save_dtim_disable_handler, power_save_dtim_enable_handler,
       busVars, coreVars
  <2>2. Current' = Current
    BY <2>1 DEF Current
  <2>3. HandlerPending => HandlerPending'
    BY <1>1, <2>1, <2>2, Keeps, Untouched
  <2>4. CASE bk_ps_mode = "closing"
    <3>1. power_save_dtim_disable_handler
      BY <1>5, <2>4 DEF mm_set_ps_mode_cfm
    <3>2. TimerInv'
      BY <2>1, <3>1 DEF power_save_dtim_disable_handler, power_save_keep_timer_stop, BeaconInv, TimerInv
    <3>3. ~Waits'
      BY <3>1 DEF power_save_dtim_disable_handler, Waits, PS_STA_DTIM_SWITCH
    <3> QED BY <3>2, <3>3 DEF BeaconInv
  <2>5. CASE bk_ps_mode = "opening"
    <3>1. power_save_dtim_enable_handler
      BY <1>5, <2>5 DEF mm_set_ps_mode_cfm
    <3>2. ~real_sleep
      BY <1>1, <2>5 DEF SleepIsWakeable
    <3>3. TimerInv'
      BY <2>1, <2>3, <3>1, <3>2 DEF power_save_dtim_enable_handler, BeaconInv, TimerInv
    <3>4. ~Waits'
      BY <2>5, <3>1 DEF power_save_dtim_enable_handler, Waits, PS_STA_DTIM_SWITCH
    <3> QED BY <3>3, <3>4 DEF BeaconInv
  <2> QED BY <1>5, <2>4, <2>5 DEF mm_set_ps_mode_cfm
<1>6. CASE me_set_ps_disable_req
  <2>1. UNCHANGED <<pc, cmd, keep_period, keep_status, keep_timer, sta>> /\ pc = "sched"
    BY <1>6 DEF me_set_ps_disable_req, coreVars, timerVars
  <2>2. Current' = Current /\ (cmd' # "rx" => pc' \in BeforeCommand)
    BY <2>1 DEF Current, BeforeCommand
  <2>3. CASE ~ps_on
    <3>1. UNCHANGED <<queue, lost, real_sleep, sleep_first, way, waiting_bcn, steady, bk_ps_mode>>
      BY <1>6, <2>3 DEF me_set_ps_disable_req, wakeupVars, infoVars, bcnVars, busVars
    <3>2. Waits' => Waits
      BY <2>1, <3>1 DEF Waits, PS_STA_DTIM_SWITCH
    <3> QED BY <1>1, <2>1, <2>2, <3>1, <3>2, Untouched, Quiet DEF BeaconInv, TimerInv
  <2>4. CASE ps_on
    <3>1. bk_ps_mode' = "closing"
      BY <1>6, <2>4 DEF me_set_ps_disable_req
    <3>2. ~Waits'
      BY <3>1 DEF Waits, PS_STA_DTIM_SWITCH
    <3>3. CASE bk_ps_mode = "dtim" /\ way = "none" /\ real_sleep
      <4>1. power_save_ieee_dtim_wakeup("user", FALSE)
        BY <1>6, <2>4, <3>3 DEF me_set_ps_disable_req
      <4>2. /\ bmsg_ps_sender(IF ~sleep_first /\ keep_period THEN <<"KP_SET">> ELSE <<>>)
            /\ ~real_sleep' /\ "KP_SET" \in Cmds
        BY <4>1 DEF power_save_ieee_dtim_wakeup, Cmds
      <4>3. Grows /\ NoNewStop /\ (lost => lost')
        BY <1>1, <4>2, Posts
      <4> QED BY <1>1, <2>1, <2>2, <3>2, <4>2, <4>3, Quiet
    <3>4. CASE ~(bk_ps_mode = "dtim" /\ way = "none" /\ real_sleep)
      <4>1. UNCHANGED <<infoVars, busVars>>
        BY <1>6, <2>4, <3>4 DEF me_set_ps_disable_req
      <4>2. UNCHANGED <<queue, lost, real_sleep, sleep_first>>
        BY <4>1 DEF infoVars, busVars
      <4> QED BY <1>1, <2>1, <2>2, <3>2, <4>2, Untouched, Quiet DEF BeaconInv, TimerInv
    <3> QED BY <3>3, <3>4
  <2> QED BY <1>1, <2>3, <2>4
<1> QED BY <1>2, <1>3, <1>4, <1>5, <1>6

\* The handling of an expiry, which ends the wait in the next step.
LEMMA HandlerStep ==
    ASSUME TypeOK, TypeOK', BeaconInv, power_save_keep_timer_real_handler
    PROVE  BeaconInv'
<1>1. /\ UNCHANGED <<lost, real_sleep, sleep_first, keep_period, cmd>>
      /\ pc = "KP_HANDLER" /\ pc' = "bcn_lost" /\ keep_status' = 0
      /\ keep_timer' # "none" <=> keep_timer # "none"
  BY DEF power_save_keep_timer_real_handler, power_save_keep_timer_stop, infoVars, busVars
<1>2. cmd = "rx"
  BY <1>1 DEF BeaconInv, TimerInv, BeforeCommand
<1>3. TimerInv'
  BY <1>1, <1>2 DEF BeaconInv, TimerInv
<1> QED BY <1>1, <1>3 DEF BeaconInv, Ending

\* The keep timer expires: its handler is queued, or the command is lost.
LEMMA ExpiryStep ==
    ASSUME TypeOK, TypeOK', BeaconInv, keep_timer_expires
    PROVE  BeaconInv'
<1>1. /\ UNCHANGED <<real_sleep, sleep_first, keep_period, keep_status, pc, cmd>>
      /\ keep_timer = "running" /\ keep_timer' = "stopped"
      /\ bmsg_ps_sender(<<"KP_HANDLER">>)
  BY DEF keep_timer_expires, infoVars, coreVars
<1>2. ~lost' => HandlerPending'
  <2>1. ~lost' => Len(queue') = Len(queue) + 1 /\ queue'[Len(queue')] = "KP_HANDLER"
    BY <1>1, Posts DEF Cmds
  <2>2. Len(queue) \in Nat
    BY DEF TypeOK, BusTypes
  <2>3. PICK n \in Nat : n = Len(queue) + 1
    BY <2>2
  <2>4. ASSUME ~lost'
        PROVE  n \in 0 .. Len(queue') /\ At(n)' = "KP_HANDLER"
    BY <2>1, <2>2, <2>3, <2>4 DEF At
  <2> QED BY <2>4 DEF HandlerPending
<1>3. TimerInv'
  BY <1>1, <1>2 DEF BeaconInv, TimerInv
<1>4. Waits' => Ending'
  BY <1>2 DEF Waits, Ending
<1> QED BY <1>3, <1>4 DEF BeaconInv

\* The wakeup interrupt begins a wait: it posts the start of the timer behind every
\* stop that is still queued.
LEMMA WakeStep ==
    ASSUME IInv, TypeOK', BeaconInv, power_save_dtim_wake
    PROVE  BeaconInv'
<1>1. TypeOK /\ real_sleep
  BY DEF IInv, power_save_dtim_wake, SleepIsWakeable
<1>2. power_save_ieee_dtim_wakeup("rw", ble)
  BY <1>1 DEF power_save_dtim_wake
<1>3. /\ bmsg_ps_sender(IF ~sleep_first /\ keep_period THEN <<"KP_SET">> ELSE <<>>)
      /\ ~real_sleep' /\ "KP_SET" \in Cmds
  BY <1>2 DEF power_save_ieee_dtim_wakeup, Cmds
<1>4. UNCHANGED <<keep_period, keep_status, keep_timer, pc, cmd, sleep_first>>
  BY <1>2 DEF power_save_dtim_wake, power_save_ieee_dtim_wakeup, timerVars, coreVars
<1>5. Grows /\ (lost => lost')
  BY <1>1, <1>3, Posts
<1>6. Current' = Current
  BY <1>4 DEF Current
<1>7. TimerInv'
  BY <1>1, <1>3, <1>4, <1>5, <1>6, Keeps DEF BeaconInv, TimerInv
<1>8. ASSUME Waits'
      PROVE  Ending'
  <2>1. bmsg_ps_sender(<<"KP_SET">>) /\ ~lost'
    BY <1>3, <1>4, <1>8 DEF Waits
  <2>2. Len(queue') = Len(queue) + 1 /\ queue'[Len(queue')] = "KP_SET" /\ Len(queue) \in Nat
    BY <1>1, <1>3, <2>1, Posts DEF TypeOK, BusTypes
  <2>3. PICK n \in Nat : n = Len(queue) + 1
    BY <2>2
  <2>4. n \in 0 .. Len(queue') /\ At(n)' = "KP_SET"
    BY <2>2, <2>3 DEF At
  <2>5. NoStopAfter(n)'
    BY <2>2, <2>3 DEF NoStopAfter
  <2> QED BY <2>4, <2>5 DEF Ending, SetPending
<1> QED BY <1>7, <1>8 DEF BeaconInv
-----------------------------------------------------------------------------
\* In the beginning there is no keep timer and power save is off.
LEMMA BeaconInit == Init => BeaconInv
  BY DEF Init, BeaconInv, TimerInv, Waits, PS_STA_DTIM_SWITCH

\* Every step keeps the invariant.
LEMMA BeaconStep == IInv /\ TypeOK' /\ BeaconInv /\ [Next]_vars => BeaconInv'
<1> SUFFICES ASSUME IInv, TypeOK', BeaconInv, [Next]_vars
             PROVE  BeaconInv'
  OBVIOUS
<1>1. TypeOK
  BY DEF IInv
<1>2. CASE core_handlers
  BY <1>1, <1>2, PopStep, ManualSteps, PostingSteps, SilentSteps, EndingSteps, TimerStep, HandlerStep
     DEF core_handlers
<1>3. CASE mac_events
  BY <1>1, <1>3, SilentSteps, EndingSteps, PostingSteps, ManualSteps DEF mac_events
<1>4. CASE others
  BY <1>1, <1>4, WakeStep, ManualSteps, PostingSteps, SilentSteps, ExpiryStep DEF others
<1>5. CASE UNCHANGED vars
  <2>1. UNCHANGED <<queue, lost, keep_period, keep_status, keep_timer, real_sleep, sleep_first, pc,
                    cmd, bk_ps_mode, sta, way, waiting_bcn, steady>>
    BY <1>5 DEF vars, busVars, timerVars, infoVars, coreVars, modeVars, bcnVars
  <2>2. Waits' => Waits
    BY <2>1 DEF Waits, PS_STA_DTIM_SWITCH
  <2> QED BY <1>1, <2>1, <2>2, Untouched, Quiet DEF Current, BeaconInv, TimerInv
<1> QED BY <1>2, <1>3, <1>4, <1>5 DEF Next

(***************************************************************************)
(* A station woken for a beacon that never comes does not wait for ever:   *)
(* whatever the order in which the timer is started, stopped and expires   *)
(* and io_queue is filled, as long as no command is lost the keep timer    *)
(* runs, or will, or its expiry is still to be handled.                    *)
(***************************************************************************)
THEOREM BeaconWaitBoundedCorrect == Spec => []BeaconWaitBounded
<1>1. IInv /\ BeaconInv => BeaconWaitBounded
  <2> SUFFICES ASSUME IInv, BeaconInv, Waits
               PROVE  KeepTimerPending
    BY DEF BeaconWaitBounded, Waits
  <2>1. queue \in Seq(Cmds) /\ Len(queue) \in Nat
    BY DEF IInv, TypeOK, BusTypes
  <2>2. ASSUME NEW i \in 0 .. Len(queue), At(i) \in {"KP_SET", "KP_HANDLER"}
        PROVE  KeepTimerPending
    <3>1. CASE i = 0
      BY <2>2, <3>1 DEF At, Current, KpCmds, KeepTimerPending
    <3>2. CASE i # 0
      <4>1. i \in DOMAIN queue /\ queue[i] \in {"KP_SET", "KP_HANDLER"}
        BY <2>1, <2>2, <3>2 DEF At
      <4>2. queue[i] \in Elems(queue)
        BY <4>1 DEF Elems
      <4> QED BY <4>1, <4>2 DEF KeepTimerPending
    <3> QED BY <3>1, <3>2
  <2>3. Ending
    BY DEF BeaconInv
  <2>4. pc = "bcn_lost" => KeepTimerPending
    BY DEF KeepTimerPending
  <2>5. keep_timer = "running" => KeepTimerPending
    BY DEF KeepTimerPending
  <2> QED BY <2>2, <2>3, <2>4, <2>5 DEF Ending, HandlerPending, SetPending
<1>2. IInv => TypeOK
  BY DEF IInv
<1> QED BY <1>1, <1>2, BeaconInit, BeaconStep, Invariance, PTL DEF Spec
=============================================================================
