---------------------------- MODULE StaPsProofs ----------------------------
(***************************************************************************)
(* Proofs about StaPs, for any number of threads and any bounds.           *)
(***************************************************************************)
EXTENDS StaPs, TLAPS

\* The inductive invariant: that a sleeping station can be woken needs the
\* agreement of the mode with what the MAC has been asked to do, and that every
\* waiting thread has a waker needs both.
IInv ==
    TypeOK /\ SleepIsWakeable /\ WaitersHaveWaker /\ ModeAgrees /\ MacIntsRestored

-----------------------------------------------------------------------------
\* What an appended element adds to the elements of a sequence.
LEMMA ElemsAppend ==
    ASSUME NEW S, NEW s \in Seq(S), NEW x \in S
    PROVE  /\ Append(s, x) \in Seq(S) /\ Append(s, x) # <<>>
           /\ Elems(Append(s, x)) = Elems(s) \cup {x}
<1>1. /\ Append(s, x) \in Seq(S) /\ Len(Append(s, x)) = Len(s) + 1
      /\ Append(s, x)[Len(s) + 1] = x
      /\ \A i \in 1 .. Len(s) : Append(s, x)[i] = s[i]
      /\ DOMAIN s = 1 .. Len(s) /\ DOMAIN Append(s, x) = 1 .. Len(s) + 1
      /\ Len(s) \in Nat
  OBVIOUS
<1>2. Append(s, x) # <<>>
  BY <1>1
<1>3. Elems(Append(s, x)) \subseteq Elems(s) \cup {x}
  BY <1>1 DEF Elems
<1>4. Elems(s) \cup {x} \subseteq Elems(Append(s, x))
  BY <1>1 DEF Elems
<1> QED BY <1>1, <1>2, <1>3, <1>4

LEMMA ElemsEmpty == Elems(<<>>) = {}
  BY DEF Elems

LEMMA ElemsOf ==
    ASSUME NEW S, NEW s \in Seq(S)
    PROVE  Elems(s) \subseteq S
  BY DEF Elems

\* bmsg_ps_sender keeps io_queue within its bounds.
LEMMA Sends ==
    ASSUME BusTypes, NEW s \in Seq(Cmds), bmsg_ps_sender(s)
    PROVE  BusTypes'
<1>1. queue \o s \in Seq(Cmds) /\ Len(queue \o s) = Len(queue) + Len(s)
  BY DEF BusTypes
<1>2. queue' \in Seq(Cmds) /\ Len(queue') <= QLen
  BY <1>1 DEF BusTypes, bmsg_ps_sender
<1>3. lost' \in BOOLEAN
  BY Zenon DEF bmsg_ps_sender
<1> QED BY <1>2, <1>3 DEF BusTypes

\* Every thread that was in the list has its semaphore given, once.
LEMMA Served ==
    ASSUME ListTypes, ListAgrees, semlist_set
    PROVE  ListTypes' /\ ListAgrees' /\ wk_list' = <<>>
<1>1. wk_list' = <<>> /\ waiting' = waiting
  BY DEF semlist_set
<1>2. Elems(wk_list') = {}
  BY <1>1, ElemsEmpty
<1>3. Elems(wk_list) \subseteq Waiters
  BY ElemsOf DEF ListTypes
<1>4. \A w \in Waiters : sema'[w] = IF w \in Elems(wk_list) THEN 1 ELSE sema[w]
  BY DEF semlist_set, ListTypes, ListAgrees
<1>5. sema' \in [Waiters -> {0, 1}]
  BY <1>4 DEF semlist_set, ListTypes
<1>6. ListTypes'
  BY <1>1, <1>5 DEF ListTypes
<1>7. ASSUME NEW w \in Waiters
      PROVE  w \in waiting' <=> (w \in Elems(wk_list)' \/ sema'[w] = 1)
  BY <1>1, <1>2, <1>4 DEF ListAgrees
<1> QED BY <1>1, <1>2, <1>6, <1>7 DEF ListAgrees

\* A thread that is not waiting joins the list.
LEMMA Joins ==
    ASSUME ListTypes, ListAgrees, BusTypes, NEW w \in Waiters, w \notin waiting, semlist_wait(w)
    PROVE  ListTypes' /\ ListAgrees' /\ BusTypes' /\ waiting' = waiting \cup {w}
<1>1. /\ wk_list' = Append(wk_list, w) /\ waiting' = waiting \cup {w} /\ sema' = sema
      /\ wk_list \in Seq(Waiters)
  BY DEF semlist_wait, ListTypes
<1>2. wk_list' \in Seq(Waiters) /\ Elems(wk_list') = Elems(wk_list) \cup {w}
  BY <1>1, ElemsAppend
<1>3. sema[w] = 0 /\ w \notin Elems(wk_list)
  BY DEF ListTypes, ListAgrees
<1>4. ListTypes'
  BY <1>1, <1>2 DEF ListTypes
<1>5. Elems(wk_list)' = Elems(wk_list) \cup {w}
  BY <1>2 DEF Elems
<1>6. ListAgrees'
  BY <1>1, <1>3, <1>5 DEF ListAgrees
<1>7. BusTypes'
  <2>1. <<>> \in Seq(Cmds) /\ <<"RF_USER_WKUP">> \in Seq(Cmds)
    BY DEF Cmds
  <2>2. (IF ble THEN <<>> ELSE <<"RF_USER_WKUP">>) \in Seq(Cmds)
    BY <2>1
  <2> QED BY <2>2, Sends DEF semlist_wait
<1> QED BY <1>1, <1>4, <1>6, <1>7

\* A thread that has its semaphore is no longer in the list and leaves.
LEMMA Leaves ==
    ASSUME ListTypes, ListAgrees, NEW w \in Waiters, semlist_get(w)
    PROVE  ListTypes' /\ ListAgrees' /\ wk_list' = wk_list /\ waiting' = waiting \ {w}
<1>1. w \in waiting /\ sema[w] = 1 /\ w \notin Elems(wk_list)
  BY DEF semlist_get, ListTypes, ListAgrees
<1>2. /\ wk_list' = wk_list /\ waiting' = waiting \ {w}
      /\ sema' = [sema EXCEPT ![w] = 0]
  BY <1>1 DEF semlist_get
<1>3. Elems(wk_list)' = Elems(wk_list)
  BY <1>2 DEF Elems
<1>4. ListTypes'
  BY <1>2 DEF ListTypes
<1>5. ListAgrees'
  BY <1>1, <1>2, <1>3 DEF ListAgrees, ListTypes
<1> QED BY <1>2, <1>4, <1>5

\* What a wakeup leaves behind.
LEMMA Wakes ==
    ASSUME TypeOK, SleepIsWakeable, WaitersHaveWaker, real_sleep,
           NEW v \in {"rw", "user"}, NEW b \in BOOLEAN, power_save_ieee_dtim_wakeup(v, b)
    PROVE  /\ SleepTypes' /\ BusTypes' /\ ListTypes' /\ ListAgrees'
           /\ real_sleep' = FALSE /\ icu' = {"mac"} /\ ps_lock' = 1
           /\ ~b => wk_list' = <<>>
           /\ revert' => b
           /\ waiting' = waiting
<1>1. /\ real_sleep' = FALSE /\ ps_lock' = 1 /\ icu' = {"mac"} /\ can_sleep' = TRUE
      /\ way' = v /\ waited_beacon' = "false" /\ rf_wifi_used' = TRUE /\ steady' = TRUE
      /\ sleep_first' = sleep_first /\ bcn_loss' = bcn_loss /\ reseted' = reseted
  BY DEF power_save_ieee_dtim_wakeup, SleepIsWakeable
<1>2. waiting_bcn' \in BOOLEAN /\ revert' \in BOOLEAN
  BY Zenon DEF power_save_ieee_dtim_wakeup
<1>r. revert' => b
  BY Zenon DEF power_save_ieee_dtim_wakeup
<1>3. SleepTypes'
  BY <1>1, <1>2 DEF SleepTypes, TypeOK
<1>4. BusTypes'
  <2>1. <<>> \in Seq(Cmds) /\ <<"KP_SET">> \in Seq(Cmds)
    BY DEF Cmds
  <2>2. (IF ~sleep_first /\ keep_period THEN <<"KP_SET">> ELSE <<>>) \in Seq(Cmds)
    BY <2>1
  <2> QED BY <2>2, Sends DEF power_save_ieee_dtim_wakeup, TypeOK
<1>5. CASE b
  <2>1. UNCHANGED listVars
    BY <1>5 DEF power_save_ieee_dtim_wakeup
  <2> QED BY <1>r, <1>1, <1>3, <1>4, <1>5, <2>1
          DEF listVars, ListTypes, ListAgrees, WaitersHaveWaker, TypeOK, Elems
<1>6. CASE ~b
  <2>1. semlist_set
    BY <1>6 DEF power_save_ieee_dtim_wakeup
  <2>2. waiting' = waiting
    BY <2>1 DEF semlist_set
  <2> QED BY <1>r, <1>1, <1>3, <1>4, <2>1, <2>2, Served DEF WaitersHaveWaker, TypeOK
<1> QED BY <1>5, <1>6

\* The same for power_save_rf_dtim_manual_do_wakeup, which may find nothing to do.
LEMMA ManualWakes ==
    ASSUME IInv, power_save_rf_dtim_manual_do_wakeup
    PROVE  /\ SleepTypes' /\ BusTypes' /\ ListTypes' /\ ListAgrees'
           /\ wk_list' # <<>> => real_sleep' \/ ble
           /\ revert' => ble \/ real_sleep'
           /\ waiting' = waiting
           /\ \/ UNCHANGED <<real_sleep, way, icu, ps_lock>>
              \/ real_sleep' = FALSE /\ icu' = {"mac"} /\ ps_lock' = 1
<1>1. CASE ~ble /\ bk_ps_mode = "dtim" /\ way = "none" /\ real_sleep
  <2>1. power_save_ieee_dtim_wakeup("user", FALSE)
    BY <1>1 DEF power_save_rf_dtim_manual_do_wakeup
  <2> QED BY <1>1, <2>1, Wakes DEF IInv
<1>2. CASE ~(~ble /\ bk_ps_mode = "dtim" /\ way = "none" /\ real_sleep)
  <2>1. UNCHANGED wakeupVars
    BY <1>2 DEF power_save_rf_dtim_manual_do_wakeup
  <2> QED BY <2>1 DEF wakeupVars, infoVars, hwVars, bcnVars, busVars, listVars, IInv, TypeOK,
                      SleepTypes, BusTypes, ListTypes, ListAgrees, WaitersHaveWaker, MacIntsRestored,
                      Elems
<1> QED BY <1>1, <1>2
-----------------------------------------------------------------------------
LEMMA keeps_core_pop ==
    ASSUME IInv, core_pop
    PROVE  IInv'
<1> USE DEF IInv, TypeOK, core_pop, modeVars, infoVars, hwVars, bcnVars, timerVars, bleVars,
            listVars
<1>h. /\ Head(queue) \in Cmds /\ Tail(queue) \in Seq(Cmds)
      /\ Len(Tail(queue)) <= QLen
  BY StaPsAssumption DEF BusTypes
<1>1. SleepTypes'
  BY StaPsAssumption DEF SleepTypes, SleepIsWakeable
<1>2. BusTypes'
  BY <1>h DEF BusTypes
<1>3. ListTypes' /\ ListAgrees'
  BY DEF ListTypes, ListAgrees, WaitersHaveWaker, Elems
<1>4. CoreTypes'
  BY <1>h DEF CoreTypes, Cmds, AppCmds
<1>5. SleepIsWakeable'
  BY DEF SleepIsWakeable, SleepTypes, CoreTypes, ModeAgrees
<1>6. WaitersHaveWaker'
  BY <1>3 DEF WaitersHaveWaker
<1>7. ModeAgrees'
  BY DEF ModeAgrees, CoreTypes
<1>8. MacIntsRestored'
  BY DEF MacIntsRestored
<1> QED BY <1>1, <1>2, <1>3, <1>4, <1>5, <1>6, <1>7, <1>8

LEMMA keeps_core_disable ==
    ASSUME IInv, core_disable
    PROVE  IInv'
<1> USE DEF IInv, TypeOK, core_disable, power_save_dtim_disable, timerVars
<1>1. /\ SleepTypes' /\ BusTypes' /\ ListTypes' /\ ListAgrees'
      /\ wk_list' # <<>> => real_sleep' \/ ble
      /\ revert' => ble \/ real_sleep'
      /\ waiting' = waiting
      /\ \/ UNCHANGED <<real_sleep, way, icu, ps_lock>>
         \/ real_sleep' = FALSE /\ icu' = {"mac"} /\ ps_lock' = 1
  BY ManualWakes
<1>2. CoreTypes'
  BY DEF CoreTypes, Cmds
<1>3. SleepIsWakeable'
  BY <1>1 DEF SleepIsWakeable
<1>4. WaitersHaveWaker'
  BY <1>1 DEF WaitersHaveWaker
<1>5. ModeAgrees'
  BY <1>1 DEF ModeAgrees, CoreTypes
<1>6. MacIntsRestored'
  BY <1>1 DEF MacIntsRestored
<1> QED BY <1>1, <1>2, <1>3, <1>4, <1>5, <1>6

LEMMA keeps_core_tx ==
    ASSUME IInv, core_tx
    PROVE  IInv'
<1> USE DEF IInv, TypeOK, core_tx, modeVars, timerVars
<1>1. /\ SleepTypes' /\ BusTypes' /\ ListTypes' /\ ListAgrees'
      /\ wk_list' # <<>> => real_sleep' \/ ble
      /\ revert' => ble \/ real_sleep'
      /\ waiting' = waiting
      /\ \/ UNCHANGED <<real_sleep, way, icu, ps_lock>>
         \/ real_sleep' = FALSE /\ icu' = {"mac"} /\ ps_lock' = 1
  BY ManualWakes
<1>2. CoreTypes'
  BY DEF CoreTypes, Cmds
<1>3. SleepIsWakeable'
  BY <1>1 DEF SleepIsWakeable
<1>4. WaitersHaveWaker'
  BY <1>1 DEF WaitersHaveWaker
<1>5. ModeAgrees'
  BY <1>1 DEF ModeAgrees, CoreTypes
<1>6. MacIntsRestored'
  BY <1>1 DEF MacIntsRestored
<1> QED BY <1>1, <1>2, <1>3, <1>4, <1>5, <1>6

LEMMA keeps_core_tx_wakeup ==
    ASSUME IInv, core_tx_wakeup
    PROVE  IInv'
<1> USE DEF IInv, TypeOK, core_tx_wakeup, RfAway, modeVars, infoVars, hwVars, bcnVars, timerVars,
            bleVars, busVars, listVars
<1>1. SleepTypes'
  BY DEF SleepTypes
<1>2. SleepIsWakeable' /\ MacIntsRestored'
  BY DEF SleepIsWakeable, MacIntsRestored
<1>3. CoreTypes'
  BY DEF CoreTypes
<1>4. CASE RfAway
  <2>1. Core \in Waiters /\ Core \notin waiting
    BY DEF ModeAgrees, Waiters
  <2>2. semlist_wait(Core) /\ pc' = "tx_wait"
    BY <1>4
  <2>3. ListTypes' /\ ListAgrees' /\ BusTypes' /\ waiting' = waiting \cup {Core}
    BY <2>1, <2>2, Joins DEF WaitersHaveWaker
  <2>4. WaitersHaveWaker'
    BY <1>4, <2>3 DEF WaitersHaveWaker
  <2>5. ModeAgrees'
    BY <2>2, <2>3 DEF ModeAgrees, CoreTypes
  <2> QED BY <1>1, <1>2, <1>3, <2>3, <2>4, <2>5
<1>5. CASE ~RfAway
  <2>1. BusTypes' /\ ListTypes' /\ ListAgrees'
    BY <1>5 DEF BusTypes, ListTypes, ListAgrees, WaitersHaveWaker, Elems
  <2>2. WaitersHaveWaker'
    BY <1>5, <2>1 DEF WaitersHaveWaker
  <2>3. ModeAgrees'
    BY <1>5 DEF ModeAgrees, CoreTypes
  <2> QED BY <1>1, <1>2, <1>3, <2>1, <2>2, <2>3
<1> QED BY <1>4, <1>5

LEMMA keeps_core_tx_wait ==
    ASSUME IInv, core_tx_wait
    PROVE  IInv'
<1> USE DEF IInv, TypeOK, core_tx_wait, modeVars, infoVars, hwVars, bcnVars, timerVars, bleVars,
            busVars
<1>0. ListTypes' /\ ListAgrees' /\ wk_list' = wk_list /\ waiting' = waiting \ {Core}
  BY Leaves DEF Waiters, WaitersHaveWaker
<1>1. SleepTypes'
  BY StaPsAssumption DEF SleepTypes, SleepIsWakeable
<1>2. BusTypes'
  BY DEF BusTypes
<1>3. ListTypes' /\ ListAgrees'
  BY <1>0
<1>4. CoreTypes'
  BY StaPsAssumption DEF CoreTypes, Cmds
<1>5. SleepIsWakeable'
  BY DEF SleepIsWakeable, SleepTypes, CoreTypes, ModeAgrees
<1>6. WaitersHaveWaker'
  BY <1>0 DEF WaitersHaveWaker
<1>7. ModeAgrees'
  BY <1>0 DEF ModeAgrees, CoreTypes
<1>8. MacIntsRestored'
  BY DEF MacIntsRestored
<1> QED BY <1>1, <1>2, <1>3, <1>4, <1>5, <1>6, <1>7, <1>8

LEMMA keeps_me_send_ps_req ==
    ASSUME IInv, me_send_ps_req
    PROVE  IInv'
<1> USE DEF IInv, TypeOK, me_send_ps_req, Deliverable, infoVars, hwVars, bcnVars, timerVars,
            bleVars, busVars, coreVars, listVars
<1>1. SleepTypes'
  BY StaPsAssumption DEF SleepTypes, SleepIsWakeable
<1>2. BusTypes'
  BY DEF BusTypes
<1>3. ListTypes' /\ ListAgrees'
  BY DEF ListTypes, ListAgrees, WaitersHaveWaker, Elems
<1>4. CoreTypes'
  BY StaPsAssumption DEF CoreTypes, Cmds
<1>5. SleepIsWakeable'
  BY DEF SleepIsWakeable, SleepTypes, CoreTypes, ModeAgrees
<1>6. WaitersHaveWaker'
  BY <1>3 DEF WaitersHaveWaker
<1>7. ModeAgrees'
  BY DEF ModeAgrees, CoreTypes
<1>8. MacIntsRestored'
  BY DEF MacIntsRestored
<1> QED BY <1>1, <1>2, <1>3, <1>4, <1>5, <1>6, <1>7, <1>8

LEMMA keeps_me_set_ps_disable_req ==
    ASSUME IInv, me_set_ps_disable_req
    PROVE  IInv'
<1> USE DEF IInv, TypeOK
<1>1. /\ ke # <<>> /\ ~busy /\ Head(ke) = "off" /\ ke' = Tail(ke) /\ ps_on' = ps_on
      /\ UNCHANGED <<timerVars, sta, coreVars, cmds>> /\ pc = "sched"
  BY DEF me_set_ps_disable_req, Deliverable
<1>2. /\ ke' \in Seq({"on", "off"}) /\ ke[1] = "off" /\ 1 \in DOMAIN ke
      /\ \A i \in DOMAIN ke' : i + 1 \in DOMAIN ke /\ ke'[i] = ke[i + 1] /\ i \in Nat /\ i > 0
  BY <1>1 DEF CoreTypes
<1>3. \A i \in DOMAIN ke' : ke'[i] # "on"
  BY <1>2 DEF ModeAgrees
<1>4. CASE ~ps_on
  <2>1. UNCHANGED <<busy, bk_ps_mode, ble, wakeupVars>>
    BY <1>4 DEF me_set_ps_disable_req
  <2>2. SleepTypes' /\ BusTypes' /\ ListTypes' /\ ListAgrees'
    BY <2>1 DEF wakeupVars, infoVars, hwVars, bcnVars, busVars, listVars, SleepTypes, BusTypes,
                ListTypes, ListAgrees, WaitersHaveWaker, Elems
  <2>3. CoreTypes'
    BY <1>1, <1>2, <2>1 DEF CoreTypes, timerVars, coreVars
  <2>4. SleepIsWakeable' /\ WaitersHaveWaker' /\ MacIntsRestored'
    BY <2>1, <2>2 DEF SleepIsWakeable, WaitersHaveWaker, MacIntsRestored, wakeupVars, infoVars,
                      hwVars, listVars
  <2>5. ModeAgrees'
    BY <1>1, <1>3, <2>1 DEF ModeAgrees, wakeupVars, listVars, coreVars
  <2> QED BY <2>2, <2>3, <2>4, <2>5
<1>5. CASE ps_on
  <2>1. /\ busy' = TRUE /\ bk_ps_mode' = "closing" /\ ble' = FALSE
    BY <1>5 DEF me_set_ps_disable_req
  <2>2. CoreTypes'
    BY <1>1, <1>2, <2>1 DEF CoreTypes, timerVars, coreVars
  <2>3. /\ SleepTypes' /\ BusTypes' /\ ListTypes' /\ ListAgrees'
        /\ real_sleep' = FALSE /\ icu' = {"mac"} /\ ps_lock' = 1
        /\ wk_list' = <<>> /\ waiting' = waiting /\ ~revert'
    <3>1. CASE real_sleep
      <4>1. power_save_ieee_dtim_wakeup("user", FALSE)
        BY <1>5, <3>1 DEF me_set_ps_disable_req, SleepIsWakeable
      <4> QED BY <3>1, <4>1, Wakes
    <3>2. CASE ~real_sleep
      <4>1. /\ revert' = (revert /\ (~ble \/ real_sleep))
            /\ IF ble /\ ~real_sleep THEN semlist_set ELSE UNCHANGED listVars
            /\ UNCHANGED <<infoVars, hwVars, bcnVars, rf_wifi_used, busVars, steady>>
        BY <1>5, <3>2 DEF me_set_ps_disable_req
      <4>2. revert' \in BOOLEAN
        BY <4>1, Zenon
      <4>r. ~revert'
        BY <3>2, <4>1 DEF MacIntsRestored
      <4>3. SleepTypes' /\ BusTypes' /\ real_sleep' = FALSE /\ icu' = {"mac"} /\ ps_lock' = 1
        BY <3>2, <4>1, <4>2 DEF SleepTypes, BusTypes, SleepIsWakeable, infoVars, hwVars, bcnVars,
                                busVars
      <4>4. CASE ble
        <5>1. semlist_set
          BY <3>2, <4>1, <4>4
        <5> QED BY <4>r, <4>3, <5>1, Served DEF semlist_set, WaitersHaveWaker
      <4>5. CASE ~ble
        <5>1. UNCHANGED listVars
          BY <4>1, <4>5
        <5> QED BY <3>2, <4>r, <4>3, <4>5, <5>1
                DEF listVars, ListTypes, ListAgrees, WaitersHaveWaker, Elems
      <4> QED BY <4>4, <4>5
    <3> QED BY <3>1, <3>2
  <2>4. SleepIsWakeable' /\ WaitersHaveWaker' /\ MacIntsRestored'
    BY <2>3 DEF SleepIsWakeable, WaitersHaveWaker, MacIntsRestored
  <2>5. ModeAgrees'
    BY <1>1, <1>3, <1>5, <2>1, <2>3 DEF ModeAgrees, coreVars
  <2> QED BY <2>2, <2>3, <2>4, <2>5
<1> QED BY <1>4, <1>5 DEF CoreTypes

LEMMA keeps_core_sched ==
    ASSUME IInv, core_sched
    PROVE  IInv'
<1> USE DEF IInv, TypeOK, core_sched, Deliverable, modeVars, infoVars, hwVars, bcnVars, timerVars,
            bleVars, busVars, listVars
<1>1. SleepTypes'
  BY StaPsAssumption DEF SleepTypes, SleepIsWakeable
<1>2. BusTypes'
  BY DEF BusTypes
<1>3. ListTypes' /\ ListAgrees'
  BY DEF ListTypes, ListAgrees, WaitersHaveWaker, Elems
<1>4. CoreTypes'
  BY StaPsAssumption DEF CoreTypes, Cmds
<1>5. SleepIsWakeable'
  BY DEF SleepIsWakeable, SleepTypes, CoreTypes, ModeAgrees
<1>6. WaitersHaveWaker'
  BY <1>3 DEF WaitersHaveWaker
<1>7. ModeAgrees'
  <2>1. pc' # "tx_wait" /\ pc # "tx_wait"
    BY DEF CoreTypes, Cmds, AppCmds
  <2> QED BY <2>1 DEF ModeAgrees, CoreTypes
<1>8. MacIntsRestored'
  BY DEF MacIntsRestored
<1> QED BY <1>1, <1>2, <1>3, <1>4, <1>5, <1>6, <1>7, <1>8

LEMMA keeps_ps_user_wkup ==
    ASSUME IInv, ps_user_wkup
    PROVE  IInv'
<1> USE DEF IInv, TypeOK, ps_user_wkup, modeVars, timerVars
<1>1. /\ SleepTypes' /\ BusTypes' /\ ListTypes' /\ ListAgrees'
      /\ wk_list' # <<>> => real_sleep' \/ ble
      /\ revert' => ble \/ real_sleep'
      /\ waiting' = waiting
      /\ \/ UNCHANGED <<real_sleep, way, icu, ps_lock>>
         \/ real_sleep' = FALSE /\ icu' = {"mac"} /\ ps_lock' = 1
  BY ManualWakes
<1>2. CoreTypes'
  BY DEF CoreTypes, Cmds
<1>3. SleepIsWakeable'
  BY <1>1 DEF SleepIsWakeable
<1>4. WaitersHaveWaker'
  BY <1>1 DEF WaitersHaveWaker
<1>5. ModeAgrees'
  BY <1>1 DEF ModeAgrees, CoreTypes
<1>6. MacIntsRestored'
  BY <1>1 DEF MacIntsRestored
<1> QED BY <1>1, <1>2, <1>3, <1>4, <1>5, <1>6

LEMMA keeps_power_save_dtim_enable ==
    ASSUME IInv, power_save_dtim_enable
    PROVE  IInv'
<1> USE DEF IInv, TypeOK, power_save_dtim_enable, infoVars, hwVars, bcnVars, timerVars, bleVars,
            busVars, listVars
<1>1. SleepTypes'
  BY StaPsAssumption DEF SleepTypes, SleepIsWakeable
<1>2. BusTypes'
  BY DEF BusTypes
<1>3. ListTypes' /\ ListAgrees'
  BY DEF ListTypes, ListAgrees, WaitersHaveWaker, Elems
<1>4. CoreTypes'
  BY StaPsAssumption DEF CoreTypes, Cmds
<1>5. SleepIsWakeable'
  BY DEF SleepIsWakeable, SleepTypes, CoreTypes, ModeAgrees
<1>6. WaitersHaveWaker'
  BY <1>3 DEF WaitersHaveWaker
<1>7. ModeAgrees'
  BY DEF ModeAgrees, CoreTypes
<1>8. MacIntsRestored'
  BY DEF MacIntsRestored
<1> QED BY <1>1, <1>2, <1>3, <1>4, <1>5, <1>6, <1>7, <1>8

LEMMA keeps_ps_timer ==
    ASSUME IInv, ps_timer
    PROVE  IInv'
<1> USE DEF IInv, TypeOK, ps_timer, power_save_keep_timer_set, ps_keep_timer_stop,
            power_save_wait_timer_start, power_save_wait_timer_real_handler,
            power_save_keep_timer_stop, power_save_wait_timer_stop, modeVars, hwVars, bcnVars,
            bleVars, busVars, listVars
<1>1. SleepTypes'
  BY StaPsAssumption DEF SleepTypes, SleepIsWakeable
<1>2. BusTypes'
  BY DEF BusTypes
<1>3. ListTypes' /\ ListAgrees'
  BY DEF ListTypes, ListAgrees, WaitersHaveWaker, Elems
<1>4. CoreTypes'
  BY StaPsAssumption DEF CoreTypes, Cmds
<1>5. SleepIsWakeable'
  BY DEF SleepIsWakeable, SleepTypes, CoreTypes, ModeAgrees
<1>6. WaitersHaveWaker'
  BY <1>3 DEF WaitersHaveWaker
<1>7. ModeAgrees'
  BY DEF ModeAgrees, CoreTypes
<1>8. MacIntsRestored'
  BY DEF MacIntsRestored
<1> QED BY <1>1, <1>2, <1>3, <1>4, <1>5, <1>6, <1>7, <1>8

LEMMA keeps_power_save_set_keep_timer_time ==
    ASSUME IInv, power_save_set_keep_timer_time
    PROVE  IInv'
<1> USE DEF IInv, TypeOK, power_save_set_keep_timer_time, modeVars, infoVars, hwVars, bcnVars,
            bleVars, busVars, listVars
<1>1. SleepTypes'
  BY StaPsAssumption DEF SleepTypes, SleepIsWakeable
<1>2. BusTypes'
  BY DEF BusTypes
<1>3. ListTypes' /\ ListAgrees'
  BY DEF ListTypes, ListAgrees, WaitersHaveWaker, Elems
<1>4. CoreTypes'
  BY StaPsAssumption DEF CoreTypes, Cmds
<1>5. SleepIsWakeable'
  BY DEF SleepIsWakeable, SleepTypes, CoreTypes, ModeAgrees
<1>6. WaitersHaveWaker'
  BY <1>3 DEF WaitersHaveWaker
<1>7. ModeAgrees'
  BY DEF ModeAgrees, CoreTypes
<1>8. MacIntsRestored'
  BY DEF MacIntsRestored
<1> QED BY <1>1, <1>2, <1>3, <1>4, <1>5, <1>6, <1>7, <1>8

LEMMA keeps_power_save_keep_timer_real_handler ==
    ASSUME IInv, power_save_keep_timer_real_handler
    PROVE  IInv'
<1> USE DEF IInv, TypeOK, power_save_keep_timer_real_handler, power_save_keep_timer_stop,
            modeVars, infoVars, hwVars, bcnVars, busVars, listVars
<1>1. SleepTypes'
  BY StaPsAssumption DEF SleepTypes, SleepIsWakeable
<1>2. BusTypes'
  BY DEF BusTypes
<1>3. ListTypes' /\ ListAgrees'
  BY DEF ListTypes, ListAgrees, WaitersHaveWaker, Elems
<1>4. CoreTypes'
  BY StaPsAssumption DEF CoreTypes, Cmds
<1>5. SleepIsWakeable'
  BY DEF SleepIsWakeable, SleepTypes, CoreTypes, ModeAgrees
<1>6. WaitersHaveWaker'
  BY <1>3 DEF WaitersHaveWaker
<1>7. ModeAgrees'
  BY DEF ModeAgrees, CoreTypes
<1>8. MacIntsRestored'
  BY DEF MacIntsRestored
<1> QED BY <1>1, <1>2, <1>3, <1>4, <1>5, <1>6, <1>7, <1>8

LEMMA keeps_keep_timer_bcn_lost ==
    ASSUME IInv, keep_timer_bcn_lost
    PROVE  IInv'
<1> USE DEF IInv, TypeOK, keep_timer_bcn_lost, bcn_lost_forgive, modeVars, hwVars, bcnVars,
            timerVars, bleVars, listVars
<1>1. SleepTypes'
  <2>1. bcn_loss' \in 0 .. MaxLoss
    BY StaPsAssumption DEF SleepTypes
  <2> QED BY <2>1 DEF SleepTypes
<1>2. BusTypes'
  <2>1. <<"rx">> \in Seq(Cmds) /\ Len(<<"rx">>) = 1
    BY DEF Cmds
  <2>2. lost' = lost /\ (queue' = queue \/ queue' = <<"rx">>)
    OBVIOUS
  <2>3. 1 <= QLen
    BY StaPsAssumption
  <2> HIDE DEF keep_timer_bcn_lost
  <2>4. queue' \in Seq(Cmds) /\ Len(queue') <= QLen
    BY <2>1, <2>2, <2>3 DEF BusTypes
  <2> QED BY <2>2, <2>4 DEF BusTypes
<1>3. ListTypes' /\ ListAgrees'
  BY DEF ListTypes, ListAgrees, WaitersHaveWaker, Elems
<1>4. CoreTypes'
  BY StaPsAssumption DEF CoreTypes, Cmds
<1>5. SleepIsWakeable'
  BY DEF SleepIsWakeable, SleepTypes, CoreTypes, ModeAgrees
<1>6. WaitersHaveWaker'
  BY <1>3 DEF WaitersHaveWaker
<1>7. ModeAgrees'
  BY DEF ModeAgrees, CoreTypes
<1>8. MacIntsRestored'
  BY DEF MacIntsRestored
<1> QED BY <1>1, <1>2, <1>3, <1>4, <1>5, <1>6, <1>7, <1>8

LEMMA keeps_power_save_sleep ==
    ASSUME IInv, power_save_sleep
    PROVE  IInv'
<1> USE DEF IInv, TypeOK, power_save_sleep, PS_STA_DTIM_CAN_SLEEP, PS_STA_DTIM_SWITCH, modeVars,
            bcnVars, timerVars, bleVars, busVars, listVars
<1>0. /\ ps_lock = 1 /\ ps_lock' = 0 /\ icu' = {"wakeup"} /\ real_sleep' = TRUE /\ way' = "none"
      /\ bk_ps_mode = "dtim"
      /\ bmsg_ps_sender(IF keep_status = 1 THEN <<"KP_STOP">> ELSE <<>>)
  BY DEF SleepIsWakeable
<1>1. SleepTypes'
  BY <1>0 DEF SleepTypes
<1>2. BusTypes'
  <2>1. <<>> \in Seq(Cmds) /\ <<"KP_STOP">> \in Seq(Cmds)
    BY DEF Cmds
  <2>2. (IF keep_status = 1 THEN <<"KP_STOP">> ELSE <<>>) \in Seq(Cmds)
    BY <2>1
  <2> QED BY <1>0, <2>2, Sends
<1>3. ListTypes' /\ ListAgrees'
  BY DEF ListTypes, ListAgrees, WaitersHaveWaker, Elems
<1>4. CoreTypes'
  BY StaPsAssumption DEF CoreTypes, Cmds
<1>5. SleepIsWakeable'
  BY <1>0 DEF SleepIsWakeable
<1>6. WaitersHaveWaker'
  BY <1>3 DEF WaitersHaveWaker
<1>7. ModeAgrees'
  BY DEF ModeAgrees, CoreTypes
<1>8. MacIntsRestored'
  BY DEF MacIntsRestored
<1> QED BY <1>1, <1>2, <1>3, <1>4, <1>5, <1>6, <1>7, <1>8

LEMMA keeps_sleep_refused ==
    ASSUME IInv, sleep_refused
    PROVE  IInv'
<1> USE DEF IInv, TypeOK, sleep_refused, modeVars, infoVars, hwVars, bcnVars, timerVars, bleVars,
            busVars, listVars
<1>1. SleepTypes'
  BY StaPsAssumption DEF SleepTypes, SleepIsWakeable
<1>2. BusTypes'
  BY DEF BusTypes
<1>3. ListTypes' /\ ListAgrees'
  BY DEF ListTypes, ListAgrees, WaitersHaveWaker, Elems
<1>4. CoreTypes'
  BY StaPsAssumption DEF CoreTypes, Cmds
<1>5. SleepIsWakeable'
  BY DEF SleepIsWakeable, SleepTypes, CoreTypes, ModeAgrees
<1>6. WaitersHaveWaker'
  BY <1>3 DEF WaitersHaveWaker
<1>7. ModeAgrees'
  BY DEF ModeAgrees, CoreTypes
<1>8. MacIntsRestored'
  BY DEF MacIntsRestored
<1> QED BY <1>1, <1>2, <1>3, <1>4, <1>5, <1>6, <1>7, <1>8

LEMMA keeps_sm_disables_ps ==
    ASSUME IInv, sm_disables_ps
    PROVE  IInv'
<1> USE DEF IInv, TypeOK, sm_disables_ps, infoVars, hwVars, bcnVars, timerVars, bleVars, busVars,
            coreVars, listVars
<1>1. SleepTypes'
  BY StaPsAssumption DEF SleepTypes, SleepIsWakeable
<1>2. BusTypes'
  BY DEF BusTypes
<1>3. ListTypes' /\ ListAgrees'
  BY DEF ListTypes, ListAgrees, WaitersHaveWaker, Elems
<1>4. CoreTypes'
  BY StaPsAssumption DEF CoreTypes, Cmds
<1>5. SleepIsWakeable'
  BY DEF SleepIsWakeable, SleepTypes, CoreTypes, ModeAgrees
<1>6. WaitersHaveWaker'
  BY <1>3 DEF WaitersHaveWaker
<1>7. ModeAgrees'
  BY DEF ModeAgrees, CoreTypes
<1>8. MacIntsRestored'
  BY DEF MacIntsRestored
<1> QED BY <1>1, <1>2, <1>3, <1>4, <1>5, <1>6, <1>7, <1>8

LEMMA keeps_mm_set_ps_mode_cfm ==
    ASSUME IInv, mm_set_ps_mode_cfm
    PROVE  IInv'
<1> USE DEF IInv, TypeOK
<1>1. /\ busy /\ busy' = FALSE /\ pc = "sched"
      /\ UNCHANGED <<ke, hwVars, bcnVars, ble, sta, busVars, coreVars, cmds, steady>>
  BY DEF mm_set_ps_mode_cfm
<1>2. ~real_sleep /\ ps_on
  BY <1>1 DEF ModeAgrees, SleepIsWakeable
<1>3. BusTypes'
  BY <1>1 DEF BusTypes, busVars
<1>4. CASE bk_ps_mode = "closing" /\ power_save_dtim_disable_handler /\ ps_on' = FALSE
  <2> USE DEF power_save_dtim_disable_handler
  <2>1. revert' \in BOOLEAN
    BY <1>4, Zenon
  <2>2. SleepTypes'
    BY <1>1, <1>4, <2>1 DEF SleepTypes, hwVars, bcnVars
  <2>3. ListTypes' /\ ListAgrees' /\ waiting' = waiting /\ (wk_list' # <<>> => ble)
    <3>1. CASE revert /\ ~ble
      <4>1. semlist_set
        BY <1>4, <3>1
      <4> QED BY <4>1, Served DEF semlist_set, WaitersHaveWaker
    <3>2. CASE ~(revert /\ ~ble)
      <4>1. UNCHANGED listVars
        BY <1>4, <3>2
      <4> QED BY <1>2, <4>1 DEF listVars, ListTypes, ListAgrees, WaitersHaveWaker, Elems
    <3> QED BY <3>1, <3>2
  <2>4. CoreTypes'
    BY <1>1, <1>4 DEF CoreTypes, coreVars, power_save_keep_timer_stop, power_save_wait_timer_stop
  <2>5. SleepIsWakeable' /\ WaitersHaveWaker' /\ MacIntsRestored'
    BY <1>1, <1>2, <1>4, <2>3 DEF SleepIsWakeable, WaitersHaveWaker, MacIntsRestored, hwVars
  <2>6. ModeAgrees'
    BY <1>1, <1>4, <2>3 DEF ModeAgrees, coreVars
  <2> QED BY <1>3, <2>2, <2>3, <2>4, <2>5, <2>6
<1>5. CASE bk_ps_mode = "opening" /\ power_save_dtim_enable_handler /\ UNCHANGED ps_on
  <2> USE DEF power_save_dtim_enable_handler
  <2>1. SleepTypes'
    BY <1>1, <1>5 DEF SleepTypes, hwVars, bcnVars
  <2>2. ListTypes' /\ ListAgrees' /\ waiting' = waiting
    BY <1>5 DEF listVars, ListTypes, ListAgrees, WaitersHaveWaker, Elems
  <2>3. CoreTypes'
    BY <1>1, <1>5 DEF CoreTypes, coreVars
  <2>4. SleepIsWakeable' /\ WaitersHaveWaker' /\ MacIntsRestored'
    BY <1>1, <1>2, <1>5, <2>2 DEF SleepIsWakeable, WaitersHaveWaker, MacIntsRestored, hwVars, listVars
  <2>5. ModeAgrees'
    BY <1>1, <1>2, <1>5, <2>2 DEF ModeAgrees, coreVars
  <2> QED BY <1>3, <2>1, <2>2, <2>3, <2>4, <2>5
<1> QED BY <1>4, <1>5 DEF mm_set_ps_mode_cfm

LEMMA keeps_beacon ==
    ASSUME IInv, NEW probe \in BOOLEAN, beacon(probe)
    PROVE  IInv'
<1> USE DEF IInv, TypeOK, beacon, modeVars, hwVars, timerVars, coreVars, listVars
<1>1. SleepTypes'
  <2>1. waited_beacon' \in {"init", "true", "false"} /\ bcn_loss' \in 0 .. MaxLoss
    BY StaPsAssumption DEF SleepTypes
  <2> QED BY <2>1 DEF SleepTypes
<1>2. BusTypes'
  <2>1. <<"WAIT_TM_SET">> \in Seq(Cmds) /\ <<>> \in Seq(Cmds)
    BY DEF Cmds
  <2>2. (IF probe THEN <<"WAIT_TM_SET">> ELSE <<>>) \in Seq(Cmds)
    BY <2>1
  <2> QED BY <2>2, Sends
<1>3. ListTypes' /\ ListAgrees'
  BY DEF ListTypes, ListAgrees, WaitersHaveWaker, Elems
<1>4. CoreTypes'
  BY StaPsAssumption DEF CoreTypes, Cmds
<1>5. SleepIsWakeable'
  BY DEF SleepIsWakeable, SleepTypes, CoreTypes, ModeAgrees
<1>6. WaitersHaveWaker'
  BY <1>3 DEF WaitersHaveWaker
<1>7. ModeAgrees'
  BY DEF ModeAgrees, CoreTypes
<1>8. MacIntsRestored'
  BY DEF MacIntsRestored
<1> QED BY <1>1, <1>2, <1>3, <1>4, <1>5, <1>6, <1>7, <1>8

LEMMA keeps_power_save_wake_mac_rf_if_in_sleep ==
    ASSUME IInv, power_save_wake_mac_rf_if_in_sleep
    PROVE  IInv'
<1> USE DEF IInv, TypeOK, power_save_wake_mac_rf_if_in_sleep, modeVars, timerVars, coreVars
<1>1. /\ SleepTypes' /\ BusTypes' /\ ListTypes' /\ ListAgrees'
      /\ wk_list' # <<>> => real_sleep' \/ ble
      /\ revert' => ble \/ real_sleep'
      /\ waiting' = waiting
      /\ \/ UNCHANGED <<real_sleep, way, icu, ps_lock>>
         \/ real_sleep' = FALSE /\ icu' = {"mac"} /\ ps_lock' = 1
  BY ManualWakes
<1>2. CoreTypes'
  BY DEF CoreTypes, Cmds
<1>3. SleepIsWakeable'
  BY <1>1 DEF SleepIsWakeable
<1>4. WaitersHaveWaker'
  BY <1>1 DEF WaitersHaveWaker
<1>5. ModeAgrees'
  BY <1>1 DEF ModeAgrees, CoreTypes
<1>6. MacIntsRestored'
  BY <1>1 DEF MacIntsRestored
<1> QED BY <1>1, <1>2, <1>3, <1>4, <1>5, <1>6

LEMMA keeps_power_save_set_reseted_flag ==
    ASSUME IInv, power_save_set_reseted_flag
    PROVE  IInv'
<1> USE DEF IInv, TypeOK, power_save_set_reseted_flag, modeVars, infoVars, hwVars, timerVars,
            bleVars, busVars, coreVars, listVars
<1>1. SleepTypes'
  BY StaPsAssumption DEF SleepTypes, SleepIsWakeable
<1>2. BusTypes'
  BY DEF BusTypes
<1>3. ListTypes' /\ ListAgrees'
  BY DEF ListTypes, ListAgrees, WaitersHaveWaker, Elems
<1>4. CoreTypes'
  BY StaPsAssumption DEF CoreTypes, Cmds
<1>5. SleepIsWakeable'
  BY DEF SleepIsWakeable, SleepTypes, CoreTypes, ModeAgrees
<1>6. WaitersHaveWaker'
  BY <1>3 DEF WaitersHaveWaker
<1>7. ModeAgrees'
  BY DEF ModeAgrees, CoreTypes
<1>8. MacIntsRestored'
  BY DEF MacIntsRestored
<1> QED BY <1>1, <1>2, <1>3, <1>4, <1>5, <1>6, <1>7, <1>8

LEMMA keeps_power_save_dtim_wake ==
    ASSUME IInv, power_save_dtim_wake
    PROVE  IInv'
<1> USE DEF IInv, TypeOK, power_save_dtim_wake, modeVars, bcnVars, timerVars, busVars, coreVars,
            listVars
<1>1. real_sleep
  BY DEF SleepIsWakeable
<1>2. power_save_ieee_dtim_wakeup("rw", ble)
  BY <1>1
<1>3. /\ SleepTypes' /\ BusTypes' /\ ListTypes' /\ ListAgrees'
      /\ real_sleep' = FALSE /\ icu' = {"mac"} /\ ps_lock' = 1
      /\ ~ble => wk_list' = <<>>
      /\ revert' => ble
      /\ waiting' = waiting
  <2>1. ble \in BOOLEAN
    BY DEF CoreTypes
  <2> QED BY <1>1, <1>2, <2>1, Wakes
<1>4. CoreTypes'
  BY DEF CoreTypes
<1>5. SleepIsWakeable' /\ WaitersHaveWaker' /\ MacIntsRestored'
  BY <1>3 DEF SleepIsWakeable, WaitersHaveWaker, MacIntsRestored
<1>6. ModeAgrees'
  BY <1>3 DEF ModeAgrees, CoreTypes
<1> QED BY <1>3, <1>4, <1>5, <1>6

LEMMA keeps_wpas_wakeup ==
    ASSUME IInv, wpas_wakeup
    PROVE  IInv'
<1> USE DEF IInv, TypeOK, wpas_wakeup, modeVars, timerVars, coreVars
<1>1. /\ SleepTypes' /\ BusTypes' /\ ListTypes' /\ ListAgrees'
      /\ wk_list' # <<>> => real_sleep' \/ ble
      /\ revert' => ble \/ real_sleep'
      /\ waiting' = waiting
      /\ \/ UNCHANGED <<real_sleep, way, icu, ps_lock>>
         \/ real_sleep' = FALSE /\ icu' = {"mac"} /\ ps_lock' = 1
  BY ManualWakes
<1>2. CoreTypes'
  BY DEF CoreTypes, Cmds
<1>3. SleepIsWakeable'
  BY <1>1 DEF SleepIsWakeable
<1>4. WaitersHaveWaker'
  BY <1>1 DEF WaitersHaveWaker
<1>5. ModeAgrees'
  BY <1>1 DEF ModeAgrees, CoreTypes
<1>6. MacIntsRestored'
  BY <1>1 DEF MacIntsRestored
<1> QED BY <1>1, <1>2, <1>3, <1>4, <1>5, <1>6

LEMMA keeps_do_wakeup ==
    ASSUME IInv, NEW w \in Threads, do_wakeup(w)
    PROVE  IInv'
<1> USE DEF IInv, TypeOK, do_wakeup, modeVars, infoVars, hwVars, bcnVars, timerVars, bleVars,
            coreVars
<1>0. ListTypes' /\ ListAgrees' /\ BusTypes' /\ waiting' = waiting \cup {w}
  BY Joins DEF Waiters, WaitersHaveWaker
<1>1. SleepTypes'
  BY StaPsAssumption DEF SleepTypes, SleepIsWakeable
<1>2. BusTypes'
  BY <1>0
<1>3. ListTypes' /\ ListAgrees'
  BY <1>0
<1>4. CoreTypes'
  BY StaPsAssumption DEF CoreTypes, Cmds
<1>5. SleepIsWakeable'
  BY DEF SleepIsWakeable, SleepTypes, CoreTypes, ModeAgrees
<1>6. WaitersHaveWaker'
  BY <1>0 DEF WaitersHaveWaker, RfAway
<1>7. ModeAgrees'
  BY <1>0, StaPsAssumption DEF ModeAgrees, CoreTypes
<1>8. MacIntsRestored'
  BY DEF MacIntsRestored
<1> QED BY <1>1, <1>2, <1>3, <1>4, <1>5, <1>6, <1>7, <1>8

LEMMA keeps_do_wakeup_return ==
    ASSUME IInv, NEW w \in Threads, do_wakeup_return(w)
    PROVE  IInv'
<1> USE DEF IInv, TypeOK, do_wakeup_return, modeVars, infoVars, hwVars, bcnVars, timerVars,
            bleVars, busVars, coreVars
<1>0. ListTypes' /\ ListAgrees' /\ wk_list' = wk_list /\ waiting' = waiting \ {w}
  BY Leaves DEF Waiters, WaitersHaveWaker
<1>1. SleepTypes'
  BY StaPsAssumption DEF SleepTypes, SleepIsWakeable
<1>2. BusTypes'
  BY DEF BusTypes
<1>3. ListTypes' /\ ListAgrees'
  BY <1>0
<1>4. CoreTypes'
  BY StaPsAssumption DEF CoreTypes, Cmds
<1>5. SleepIsWakeable'
  BY DEF SleepIsWakeable, SleepTypes, CoreTypes, ModeAgrees
<1>6. WaitersHaveWaker'
  BY <1>0 DEF WaitersHaveWaker
<1>7. ModeAgrees'
  BY <1>0, StaPsAssumption DEF ModeAgrees, CoreTypes
<1>8. MacIntsRestored'
  BY DEF MacIntsRestored
<1> QED BY <1>1, <1>2, <1>3, <1>4, <1>5, <1>6, <1>7, <1>8

LEMMA keeps_ble_switch_rf_to_ble ==
    ASSUME IInv, ble_switch_rf_to_ble
    PROVE  IInv'
<1> USE DEF IInv, TypeOK, ble_switch_rf_to_ble, modeVars, infoVars, hwVars, bcnVars, timerVars,
            busVars, coreVars, listVars
<1>1. SleepTypes'
  BY StaPsAssumption DEF SleepTypes, SleepIsWakeable
<1>2. BusTypes'
  BY DEF BusTypes
<1>3. ListTypes' /\ ListAgrees'
  BY DEF ListTypes, ListAgrees, WaitersHaveWaker, Elems
<1>4. CoreTypes'
  BY StaPsAssumption DEF CoreTypes, Cmds
<1>5. SleepIsWakeable'
  BY DEF SleepIsWakeable, SleepTypes, CoreTypes, ModeAgrees
<1>6. WaitersHaveWaker'
  BY <1>3 DEF WaitersHaveWaker
<1>7. ModeAgrees'
  BY DEF ModeAgrees, CoreTypes
<1>8. MacIntsRestored'
  BY DEF MacIntsRestored
<1> QED BY <1>1, <1>2, <1>3, <1>4, <1>5, <1>6, <1>7, <1>8

LEMMA keeps_ble_switch_rf_to_wifi ==
    ASSUME IInv, ble_switch_rf_to_wifi
    PROVE  IInv'
<1> USE DEF IInv, TypeOK, ble_switch_rf_to_wifi, modeVars, infoVars, hwVars, bcnVars, timerVars,
            busVars, coreVars, listVars
<1>0. /\ ListTypes' /\ ListAgrees' /\ waiting' = waiting
      /\ wk_list' # <<>> => real_sleep
  <2>1. CASE real_sleep
    BY <2>1 DEF ListTypes, ListAgrees, WaitersHaveWaker, Elems
  <2>2. CASE ~real_sleep
    <3>1. semlist_set
      BY <2>2
    <3> QED BY <3>1, Served DEF semlist_set, WaitersHaveWaker
  <2> QED BY <2>1, <2>2 DEF SleepTypes
<1>1. SleepTypes'
  <2>1. revert' \in BOOLEAN
    BY DEF SleepTypes
  <2> QED BY <2>1 DEF SleepTypes
<1>2. BusTypes'
  BY DEF BusTypes
<1>3. ListTypes' /\ ListAgrees'
  BY <1>0
<1>4. CoreTypes'
  <2>1. ble' \in BOOLEAN
    BY Zenon
  <2>2. UNCHANGED <<modeVars, timerVars, sta, coreVars, cmds>>
    OBVIOUS
  <2> HIDE DEF ble_switch_rf_to_wifi
  <2> QED BY <2>1, <2>2 DEF CoreTypes
<1>5. SleepIsWakeable'
  BY DEF SleepIsWakeable, SleepTypes, CoreTypes, ModeAgrees
<1>6. WaitersHaveWaker'
  BY <1>0 DEF WaitersHaveWaker
<1>7. ModeAgrees'
  BY <1>0 DEF ModeAgrees, CoreTypes
<1>8. MacIntsRestored'
  BY DEF MacIntsRestored
<1> QED BY <1>1, <1>2, <1>3, <1>4, <1>5, <1>6, <1>7, <1>8

LEMMA keeps_keep_timer_expires ==
    ASSUME IInv, keep_timer_expires
    PROVE  IInv'
<1> USE DEF IInv, TypeOK, keep_timer_expires, modeVars, infoVars, hwVars, bcnVars, bleVars,
            coreVars, listVars
<1>1. SleepTypes'
  BY StaPsAssumption DEF SleepTypes, SleepIsWakeable
<1>2. BusTypes'
  <2>1. <<"KP_HANDLER">> \in Seq(Cmds)
    BY EnvAssumption DEF Cmds
  <2> QED BY <2>1, Sends
<1>3. ListTypes' /\ ListAgrees'
  BY DEF ListTypes, ListAgrees, WaitersHaveWaker, Elems
<1>4. CoreTypes'
  BY StaPsAssumption DEF CoreTypes, Cmds
<1>5. SleepIsWakeable'
  BY DEF SleepIsWakeable, SleepTypes, CoreTypes, ModeAgrees
<1>6. WaitersHaveWaker'
  BY <1>3 DEF WaitersHaveWaker
<1>7. ModeAgrees'
  BY DEF ModeAgrees, CoreTypes
<1>8. MacIntsRestored'
  BY DEF MacIntsRestored
<1> QED BY <1>1, <1>2, <1>3, <1>4, <1>5, <1>6, <1>7, <1>8

LEMMA keeps_wait_timer_expires ==
    ASSUME IInv, wait_timer_expires
    PROVE  IInv'
<1> USE DEF IInv, TypeOK, wait_timer_expires, modeVars, infoVars, hwVars, bcnVars, bleVars,
            coreVars, listVars
<1>1. SleepTypes'
  BY StaPsAssumption DEF SleepTypes, SleepIsWakeable
<1>2. BusTypes'
  <2>1. <<"WAIT_TM_HANDLER">> \in Seq(Cmds)
    BY EnvAssumption DEF Cmds
  <2> QED BY <2>1, Sends
<1>3. ListTypes' /\ ListAgrees'
  BY DEF ListTypes, ListAgrees, WaitersHaveWaker, Elems
<1>4. CoreTypes'
  BY StaPsAssumption DEF CoreTypes, Cmds
<1>5. SleepIsWakeable'
  BY DEF SleepIsWakeable, SleepTypes, CoreTypes, ModeAgrees
<1>6. WaitersHaveWaker'
  BY <1>3 DEF WaitersHaveWaker
<1>7. ModeAgrees'
  BY DEF ModeAgrees, CoreTypes
<1>8. MacIntsRestored'
  BY DEF MacIntsRestored
<1> QED BY <1>1, <1>2, <1>3, <1>4, <1>5, <1>6, <1>7, <1>8

LEMMA keeps_app_posts ==
    ASSUME IInv, NEW c \in Apps, app_posts(c)
    PROVE  IInv'
<1> USE DEF IInv, TypeOK, app_posts, modeVars, infoVars, hwVars, bcnVars, timerVars, bleVars,
            coreVars, listVars
<1>1. SleepTypes'
  BY StaPsAssumption DEF SleepTypes, SleepIsWakeable
<1>2. BusTypes'
  <2>1. <<c>> \in Seq(Cmds)
    BY EnvAssumption DEF Cmds
  <2> QED BY <2>1, Sends
<1>3. ListTypes' /\ ListAgrees'
  BY DEF ListTypes, ListAgrees, WaitersHaveWaker, Elems
<1>4. CoreTypes'
  BY StaPsAssumption DEF CoreTypes, Cmds
<1>5. SleepIsWakeable'
  BY DEF SleepIsWakeable, SleepTypes, CoreTypes, ModeAgrees
<1>6. WaitersHaveWaker'
  BY <1>3 DEF WaitersHaveWaker
<1>7. ModeAgrees'
  BY DEF ModeAgrees, CoreTypes
<1>8. MacIntsRestored'
  BY DEF MacIntsRestored
<1> QED BY <1>1, <1>2, <1>3, <1>4, <1>5, <1>6, <1>7, <1>8

LEMMA keeps_mac_irq ==
    ASSUME IInv, mac_irq
    PROVE  IInv'
<1> USE DEF IInv, TypeOK, mac_irq, modeVars, infoVars, hwVars, bcnVars, timerVars, bleVars,
            coreVars, listVars
<1>1. SleepTypes'
  BY StaPsAssumption DEF SleepTypes, SleepIsWakeable
<1>2. BusTypes'
  <2>1. Append(queue, "rx") \in Seq(Cmds) /\ Len(Append(queue, "rx")) = Len(queue) + 1
    BY DEF BusTypes, Cmds
  <2> QED BY <2>1, StaPsAssumption DEF BusTypes
<1>3. ListTypes' /\ ListAgrees'
  BY DEF ListTypes, ListAgrees, WaitersHaveWaker, Elems
<1>4. CoreTypes'
  BY StaPsAssumption DEF CoreTypes, Cmds
<1>5. SleepIsWakeable'
  BY DEF SleepIsWakeable, SleepTypes, CoreTypes, ModeAgrees
<1>6. WaitersHaveWaker'
  BY <1>3 DEF WaitersHaveWaker
<1>7. ModeAgrees'
  BY DEF ModeAgrees, CoreTypes
<1>8. MacIntsRestored'
  BY DEF MacIntsRestored
<1> QED BY <1>1, <1>2, <1>3, <1>4, <1>5, <1>6, <1>7, <1>8

LEMMA keeps_station_status ==
    ASSUME IInv, NEW s \in {"down", "connected", "ready"}, station_status(s)
    PROVE  IInv'
<1> USE DEF IInv, TypeOK, station_status, modeVars, infoVars, hwVars, bcnVars, timerVars, bleVars,
            busVars, coreVars, listVars
<1>1. SleepTypes'
  BY StaPsAssumption DEF SleepTypes, SleepIsWakeable
<1>2. BusTypes'
  BY DEF BusTypes
<1>3. ListTypes' /\ ListAgrees'
  BY DEF ListTypes, ListAgrees, WaitersHaveWaker, Elems
<1>4. CoreTypes'
  BY StaPsAssumption DEF CoreTypes, Cmds
<1>5. SleepIsWakeable'
  BY DEF SleepIsWakeable, SleepTypes, CoreTypes, ModeAgrees
<1>6. WaitersHaveWaker'
  BY <1>3 DEF WaitersHaveWaker
<1>7. ModeAgrees'
  BY DEF ModeAgrees, CoreTypes
<1>8. MacIntsRestored'
  BY DEF MacIntsRestored
<1> QED BY <1>1, <1>2, <1>3, <1>4, <1>5, <1>6, <1>7, <1>8

-----------------------------------------------------------------------------
LEMMA InitEstablishes == Init => IInv
<1> SUFFICES ASSUME Init PROVE IInv
  OBVIOUS
<1>1. SleepTypes /\ SleepIsWakeable
  <2>1. /\ real_sleep = FALSE /\ can_sleep \in BOOLEAN /\ sleep_first \in BOOLEAN
        /\ waiting_bcn \in BOOLEAN /\ reseted \in BOOLEAN /\ revert \in BOOLEAN
        /\ rf_wifi_used \in BOOLEAN /\ steady \in BOOLEAN
    BY Zenon DEF Init
  <2>2. way = "none" /\ waited_beacon = "init" /\ ps_lock = 1 /\ icu = {"mac"} /\ bcn_loss = 0
    BY DEF Init
  <2>3. 0 \in 0 .. MaxLoss
    BY StaPsAssumption
  <2> QED BY <2>1, <2>2, <2>3 DEF SleepTypes, SleepIsWakeable
<1>2. BusTypes
  <2>1. lost \in BOOLEAN /\ queue = <<>>
    BY Zenon DEF Init
  <2>2. 0 <= QLen
    BY StaPsAssumption
  <2> QED BY <2>1, <2>2 DEF BusTypes
<1>3. CoreTypes
  <2>1. /\ ps_on \in BOOLEAN /\ busy \in BOOLEAN /\ keep_period \in BOOLEAN /\ ble \in BOOLEAN
    BY Zenon DEF Init
  <2>2. /\ bk_ps_mode = "no" /\ ke = <<>> /\ keep_status = 0 /\ keep_timer = "none"
        /\ wait_timer = "none" /\ sta = "down" /\ cmd = "rx" /\ pc = "pop" /\ cmds = 0
    BY DEF Init
  <2>3. 0 \in 0 .. MaxCmds
    BY StaPsAssumption
  <2> QED BY <2>1, <2>2, <2>3 DEF CoreTypes, Cmds
<1>4. ListTypes
  BY DEF Init, ListTypes
<1>5. WaitersHaveWaker
  BY ElemsEmpty DEF Init, WaitersHaveWaker, ListAgrees
<1>6. ModeAgrees
  BY DEF Init, ModeAgrees
<1>7. MacIntsRestored
  BY DEF Init, MacIntsRestored
<1> QED BY <1>1, <1>2, <1>3, <1>4, <1>5, <1>6, <1>7 DEF IInv, TypeOK

LEMMA NextPreserves ==
    ASSUME IInv, Next
    PROVE  IInv'
<1>1. CASE core_handlers
  <2>1. CASE core_pop
    BY <2>1, keeps_core_pop
  <2>2. CASE core_disable
    BY <2>2, keeps_core_disable
  <2>3. CASE core_tx
    BY <2>3, keeps_core_tx
  <2>4. CASE core_tx_wakeup
    BY <2>4, keeps_core_tx_wakeup
  <2>5. CASE core_tx_wait
    BY <2>5, keeps_core_tx_wait
  <2>6. CASE me_send_ps_req
    BY <2>6, keeps_me_send_ps_req
  <2>7. CASE me_set_ps_disable_req
    BY <2>7, keeps_me_set_ps_disable_req
  <2>8. CASE core_sched
    BY <2>8, keeps_core_sched
  <2>9. CASE ps_user_wkup
    BY <2>9, keeps_ps_user_wkup
  <2>10. CASE power_save_dtim_enable
    BY <2>10, keeps_power_save_dtim_enable
  <2>11. CASE ps_timer
    BY <2>11, keeps_ps_timer
  <2>12. CASE power_save_set_keep_timer_time
    BY <2>12, keeps_power_save_set_keep_timer_time
  <2>13. CASE power_save_keep_timer_real_handler
    BY <2>13, keeps_power_save_keep_timer_real_handler
  <2>14. CASE keep_timer_bcn_lost
    BY <2>14, keeps_keep_timer_bcn_lost
  <2>15. CASE power_save_sleep
    BY <2>15, keeps_power_save_sleep
  <2>16. CASE sleep_refused
    BY <2>16, keeps_sleep_refused
  <2> QED BY <1>1, <2>1, <2>2, <2>3, <2>4, <2>5, <2>6, <2>7, <2>8, <2>9, <2>10, <2>11, <2>12,
            <2>13, <2>14, <2>15, <2>16 DEF core_handlers
<1>2. CASE mac_events
  <2>1. CASE sm_disables_ps
    BY <2>1, keeps_sm_disables_ps
  <2>2. CASE mm_set_ps_mode_cfm
    BY <2>2, keeps_mm_set_ps_mode_cfm
  <2>3. CASE \E probe \in BOOLEAN : beacon(probe)
    BY <2>3, keeps_beacon
  <2>4. CASE power_save_wake_mac_rf_if_in_sleep
    BY <2>4, keeps_power_save_wake_mac_rf_if_in_sleep
  <2>5. CASE power_save_set_reseted_flag
    BY <2>5, keeps_power_save_set_reseted_flag
  <2> QED BY <1>2, <2>1, <2>2, <2>3, <2>4, <2>5 DEF mac_events
<1>3. CASE others
  <2>1. CASE power_save_dtim_wake
    BY <2>1, keeps_power_save_dtim_wake
  <2>2. CASE wpas_wakeup
    BY <2>2, keeps_wpas_wakeup
  <2>3. CASE \E w \in Threads : do_wakeup(w)
    BY <2>3, keeps_do_wakeup
  <2>4. CASE \E w \in Threads : do_wakeup_return(w)
    BY <2>4, keeps_do_wakeup_return
  <2>5. CASE ble_switch_rf_to_ble
    BY <2>5, keeps_ble_switch_rf_to_ble
  <2>6. CASE ble_switch_rf_to_wifi
    BY <2>6, keeps_ble_switch_rf_to_wifi
  <2>7. CASE keep_timer_expires
    BY <2>7, keeps_keep_timer_expires
  <2>8. CASE wait_timer_expires
    BY <2>8, keeps_wait_timer_expires
  <2>9. CASE \E c \in Apps : app_posts(c)
    BY <2>9, keeps_app_posts
  <2>10. CASE mac_irq
    BY <2>10, keeps_mac_irq
  <2>11. CASE \E s \in {"down", "connected", "ready"} : station_status(s)
    BY <2>11, keeps_station_status
  <2> QED BY <1>3, <2>1, <2>2, <2>3, <2>4, <2>5, <2>6, <2>7, <2>8, <2>9, <2>10, <2>11 DEF others
<1> QED BY <1>1, <1>2, <1>3 DEF Next

LEMMA StutterPreserves ==
    ASSUME IInv, UNCHANGED vars
    PROVE  IInv'
<1> USE DEF IInv, TypeOK, vars
<1>1. SleepTypes' /\ SleepIsWakeable'
  BY DEF SleepTypes, SleepIsWakeable, infoVars, hwVars, bcnVars, bleVars, modeVars
<1>2. BusTypes' /\ CoreTypes'
  BY DEF BusTypes, CoreTypes, modeVars, timerVars, bleVars, busVars, coreVars
<1>3. ListTypes' /\ WaitersHaveWaker'
  BY DEF ListTypes, WaitersHaveWaker, ListAgrees, Elems, infoVars, bleVars, listVars
<1>4. ModeAgrees' /\ MacIntsRestored'
  BY DEF ModeAgrees, MacIntsRestored, modeVars, infoVars, bleVars, coreVars, listVars
<1> QED BY <1>1, <1>2, <1>3, <1>4

\* The inductive invariant holds throughout.
THEOREM Invariance == Spec => []IInv
<1>1. Init => IInv
  BY InitEstablishes
<1>2. IInv /\ [Next]_vars => IInv'
  BY NextPreserves, StutterPreserves
<1> QED BY <1>1, <1>2, PTL DEF Spec

\* Type correctness: ps_lock never leaves {0, 1}, so neither ASSERT(!ps_lock) of
\* power_save_wakeup nor the error branch of power_save_sleep is reached, and a
\* semaphore of the wait list is never given twice.
THEOREM TypeCorrect == Spec => []TypeOK
<1>1. IInv => TypeOK
  BY DEF IInv
<1> QED BY <1>1, Invariance, PTL

\* A station whose MAC sleeps always has its wakeup interrupt enabled and
\* accepts it, whatever BLE, the other threads and power save requests do.
THEOREM SleepIsWakeableCorrect == Spec => []SleepIsWakeable
<1>1. IInv => SleepIsWakeable
  BY DEF IInv
<1> QED BY <1>1, Invariance, PTL

\* No thread is left in the wait list with neither a wakeup nor a release by
\* BLE to come.
THEOREM WaitersHaveWakerCorrect == Spec => []WaitersHaveWaker
<1>1. IInv => WaitersHaveWaker
  BY DEF IInv
<1> QED BY <1>1, Invariance, PTL

\* The mode of power_save.c, TASK_ME and the position of the core thread agree.
THEOREM ModeAgreesCorrect == Spec => []ModeAgrees
<1>1. IInv => ModeAgrees
  BY DEF IInv
<1> QED BY <1>1, Invariance, PTL

\* Once BLE has given the RF back and the station is awake the MAC has its
\* interrupts again, in whatever order BLE events and sleep overlap.
THEOREM MacIntsRestoredCorrect == Spec => []MacIntsRestored
<1>1. IInv => MacIntsRestored
  BY DEF IInv
<1> QED BY <1>1, Invariance, PTL
-----------------------------------------------------------------------------
\* A manual wakeup gives a semaphore only when it ends with the RF there.
LEMMA ManualServes ==
    ASSUME power_save_rf_dtim_manual_do_wakeup
    PROVE  sema' = sema \/ (~real_sleep' /\ ~ble)
  BY DEF power_save_rf_dtim_manual_do_wakeup, power_save_ieee_dtim_wakeup, wakeupVars, listVars

\* A thread that returns takes its semaphore; no other is touched.
LEMMA GetTakes ==
    ASSUME ListTypes, NEW w \in Waiters, semlist_get(w)
    PROVE  \A v \in Waiters : ~(sema'[v] > sema[v])
  BY DEF semlist_get, ListTypes

\* Only a wakeup, a release by BLE and the end of power save give semaphores.
LEMMA ServesAwake ==
    ASSUME IInv, Next
    PROVE  (\A v \in Waiters : ~(sema'[v] > sema[v])) \/ (~real_sleep' /\ ~ble')
<1>0. ASSUME sema' = sema PROVE \A v \in Waiters : ~(sema'[v] > sema[v])
  BY <1>0 DEF IInv, TypeOK, ListTypes
<1> DEFINE Good == (\A v \in Waiters : ~(sema'[v] > sema[v])) \/ (~real_sleep' /\ ~ble')
<1> SUFFICES Good
  OBVIOUS
<1>1. CASE core_handlers
  <2>1. CASE core_pop
    <3>1. sema' = sema
      BY <2>1 DEF core_pop, listVars
    <3> QED BY <1>0, <3>1
  <2>2. CASE core_disable
    <3>1. power_save_rf_dtim_manual_do_wakeup /\ ble' = ble
      BY <2>2 DEF core_disable, bleVars
    <3> QED BY <1>0, <3>1, ManualServes
  <2>3. CASE core_tx
    <3>1. power_save_rf_dtim_manual_do_wakeup /\ ble' = ble
      BY <2>3 DEF core_tx, bleVars
    <3> QED BY <1>0, <3>1, ManualServes
  <2>4. CASE core_tx_wakeup
    <3>1. sema' = sema
      BY <2>4 DEF core_tx_wakeup, semlist_wait, listVars
    <3> QED BY <1>0, <3>1
  <2>5. CASE core_tx_wait
    BY <2>5, GetTakes DEF core_tx_wait, IInv, TypeOK, Waiters
  <2>6. CASE me_send_ps_req
    <3>1. sema' = sema
      BY <2>6 DEF me_send_ps_req, listVars
    <3> QED BY <1>0, <3>1
  <2>7. CASE me_set_ps_disable_req
    <3>1. sema' = sema \/ (~real_sleep' /\ ~ble')
      BY <2>7 DEF me_set_ps_disable_req, power_save_ieee_dtim_wakeup, wakeupVars, infoVars, listVars
    <3> QED BY <1>0, <3>1
  <2>8. CASE core_sched
    <3>1. sema' = sema
      BY <2>8 DEF core_sched, listVars
    <3> QED BY <1>0, <3>1
  <2>9. CASE ps_user_wkup
    <3>1. power_save_rf_dtim_manual_do_wakeup /\ ble' = ble
      BY <2>9 DEF ps_user_wkup, bleVars
    <3> QED BY <1>0, <3>1, ManualServes
  <2>10. CASE power_save_dtim_enable
    <3>1. sema' = sema
      BY <2>10 DEF power_save_dtim_enable, listVars
    <3> QED BY <1>0, <3>1
  <2>11. CASE ps_timer
    <3>1. sema' = sema
      BY <2>11 DEF ps_timer, listVars
    <3> QED BY <1>0, <3>1
  <2>12. CASE power_save_set_keep_timer_time
    <3>1. sema' = sema
      BY <2>12 DEF power_save_set_keep_timer_time, listVars
    <3> QED BY <1>0, <3>1
  <2>13. CASE power_save_keep_timer_real_handler
    <3>1. sema' = sema
      BY <2>13 DEF power_save_keep_timer_real_handler, listVars
    <3> QED BY <1>0, <3>1
  <2>14. CASE keep_timer_bcn_lost
    <3>1. sema' = sema
      BY <2>14 DEF keep_timer_bcn_lost, listVars
    <3> QED BY <1>0, <3>1
  <2>15. CASE power_save_sleep
    <3>1. sema' = sema
      BY <2>15 DEF power_save_sleep, listVars
    <3> QED BY <1>0, <3>1
  <2>16. CASE sleep_refused
    <3>1. sema' = sema
      BY <2>16 DEF sleep_refused, listVars
    <3> QED BY <1>0, <3>1
  <2> HIDE DEF Good
  <2> QED BY <1>1, <2>1, <2>2, <2>3, <2>4, <2>5, <2>6, <2>7, <2>8, <2>9, <2>10, <2>11, <2>12,
            <2>13, <2>14, <2>15, <2>16 DEF core_handlers
<1>2. CASE mac_events
  <2>1. CASE sm_disables_ps
    <3>1. sema' = sema
      BY <2>1 DEF sm_disables_ps, listVars
    <3> QED BY <1>0, <3>1
  <2>2. CASE mm_set_ps_mode_cfm
    <3>1. sema' = sema \/ (~real_sleep' /\ ~ble')
      BY <2>2 DEF mm_set_ps_mode_cfm, power_save_dtim_disable_handler,
                 power_save_dtim_enable_handler, listVars
    <3> QED BY <1>0, <3>1
  <2>3. CASE \E probe \in BOOLEAN : beacon(probe)
    <3>1. sema' = sema
      BY <2>3 DEF beacon, listVars
    <3> QED BY <1>0, <3>1
  <2>4. CASE power_save_wake_mac_rf_if_in_sleep
    <3>1. power_save_rf_dtim_manual_do_wakeup /\ ble' = ble
      BY <2>4 DEF power_save_wake_mac_rf_if_in_sleep, bleVars
    <3> QED BY <1>0, <3>1, ManualServes
  <2>5. CASE power_save_set_reseted_flag
    <3>1. sema' = sema
      BY <2>5 DEF power_save_set_reseted_flag, listVars
    <3> QED BY <1>0, <3>1
  <2> HIDE DEF Good
  <2> QED BY <1>2, <2>1, <2>2, <2>3, <2>4, <2>5 DEF mac_events
<1>3. CASE others
  <2>1. CASE power_save_dtim_wake
    <3>1. ble' = ble /\ (sema' = sema \/ (~real_sleep' /\ ~ble))
      BY <2>1 DEF power_save_dtim_wake, power_save_ieee_dtim_wakeup, listVars
    <3> QED BY <1>0, <3>1
  <2>2. CASE wpas_wakeup
    <3>1. power_save_rf_dtim_manual_do_wakeup /\ ble' = ble
      BY <2>2 DEF wpas_wakeup, bleVars
    <3> QED BY <1>0, <3>1, ManualServes
  <2>3. CASE \E w \in Threads : do_wakeup(w)
    <3>1. sema' = sema
      BY <2>3 DEF do_wakeup, semlist_wait
    <3> QED BY <1>0, <3>1
  <2>4. CASE \E w \in Threads : do_wakeup_return(w)
    BY <2>4, GetTakes DEF do_wakeup_return, IInv, TypeOK, Waiters
  <2>5. CASE ble_switch_rf_to_ble
    <3>1. sema' = sema
      BY <2>5 DEF ble_switch_rf_to_ble, listVars
    <3> QED BY <1>0, <3>1
  <2>6. CASE ble_switch_rf_to_wifi
    <3>1. sema' = sema \/ (~real_sleep' /\ ~ble')
      BY <2>6 DEF ble_switch_rf_to_wifi, infoVars, listVars
    <3> QED BY <1>0, <3>1
  <2>7. CASE keep_timer_expires
    <3>1. sema' = sema
      BY <2>7 DEF keep_timer_expires, listVars
    <3> QED BY <1>0, <3>1
  <2>8. CASE wait_timer_expires
    <3>1. sema' = sema
      BY <2>8 DEF wait_timer_expires, listVars
    <3> QED BY <1>0, <3>1
  <2>9. CASE \E c \in Apps : app_posts(c)
    <3>1. sema' = sema
      BY <2>9 DEF app_posts, listVars
    <3> QED BY <1>0, <3>1
  <2>10. CASE mac_irq
    <3>1. sema' = sema
      BY <2>10 DEF mac_irq, listVars
    <3> QED BY <1>0, <3>1
  <2>11. CASE \E s \in {"down", "connected", "ready"} : station_status(s)
    <3>1. sema' = sema
      BY <2>11 DEF station_status, listVars
    <3> QED BY <1>0, <3>1
  <2> HIDE DEF Good
  <2> QED BY <1>3, <2>1, <2>2, <2>3, <2>4, <2>5, <2>6, <2>7, <2>8, <2>9, <2>10, <2>11 DEF others
<1> QED BY <1>1, <1>2, <1>3 DEF Next

\* No thread is told that the RF is there while the station sleeps or BLE uses
\* it: the semaphores are given by the wakeup, by BLE or at the end of power
\* save, and each time with the station awake and the RF back.
THEOREM ServedAwakeCorrect == Spec => ServedAwake
<1>1. ASSUME IInv, [Next]_vars
      PROVE  [\A w \in Waiters : sema'[w] > sema[w] => ~real_sleep' /\ ~ble']_vars
  BY <1>1, ServesAwake
<1> QED BY <1>1, Invariance, PTL DEF Spec, ServedAwake
=============================================================================
