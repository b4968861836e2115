--------------------------- MODULE CoreBusProofs ---------------------------
(***************************************************************************)
(* Proofs about CoreBus for every queue capacity, every throttling limit   *)
(* and every finite set of contexts and threads.                           *)
(***************************************************************************)
EXTENDS CoreBus, FiniteSetTheorems, TLAPS

(***************************************************************************)
(* Appending a message to a queue adds one occurrence of it and none of    *)
(* any other (rtos_push_to_queue).                                         *)
(***************************************************************************)
LEMMA CountAppend ==
    ASSUME NEW S, NEW q \in Seq(S), NEW e \in S, NEW m
    PROVE  /\ Count(q, m) \in Nat
           /\ Count(Append(q, e), m) = Count(q, m) + (IF e = m THEN 1 ELSE 0)
<1> DEFINE D == {i \in 1 .. Len(q) : q[i] = m}
           E == {i \in 1 .. Len(Append(q, e)) : Append(q, e)[i] = m}
<1>1. Len(q) \in Nat
  OBVIOUS
<1>2. IsFiniteSet(1 .. Len(q))
  BY <1>1, FS_Interval
<1>3. IsFiniteSet(D)
  BY <1>2, FS_Subset
<1>4. Cardinality(D) \in Nat
  BY <1>3, FS_CardinalityType
<1>5. /\ Len(Append(q, e)) = Len(q) + 1
      /\ \A i \in 1 .. Len(q) : Append(q, e)[i] = q[i]
      /\ Append(q, e)[Len(q) + 1] = e
  OBVIOUS
<1>6. E = IF e = m THEN D \cup {Len(q) + 1} ELSE D
  BY <1>1, <1>5
<1>7. Len(q) + 1 \notin D
  BY <1>1
<1>8. Cardinality(D \cup {Len(q) + 1}) = Cardinality(D) + 1
  BY <1>3, <1>7, FS_AddElement
<1>9. Cardinality(E) = Cardinality(D) + (IF e = m THEN 1 ELSE 0)
  <2> HIDE DEF D, E
  <2>1. CASE e = m
    BY <2>1, <1>6, <1>8
  <2>2. CASE e # m
    BY <2>2, <1>4, <1>6
  <2>3. QED
    BY <2>1, <2>2
<1>10. QED
  BY <1>4, <1>9 DEF Count

(***************************************************************************)
(* Taking the head off a queue removes one occurrence of that message and  *)
(* none of any other (rtos_pop_from_queue): the positions of m in the tail *)
(* are those of m in q, without the first position, moved by one.          *)
(***************************************************************************)
LEMMA CountTail ==
    ASSUME NEW S, NEW q \in Seq(S), q # <<>>, NEW m
    PROVE  Count(q, m) = Count(Tail(q), m) + (IF Head(q) = m THEN 1 ELSE 0)
<1> DEFINE D == {i \in 1 .. Len(q) : q[i] = m}
           E == {i \in 1 .. Len(Tail(q)) : Tail(q)[i] = m}
           F == D \ {1}
           move == [i \in E |-> i + 1]
<1>1. /\ Len(q) \in Nat \ {0}
      /\ Len(Tail(q)) = Len(q) - 1
      /\ \A i \in 1 .. Len(q) - 1 : Tail(q)[i] = q[i + 1]
      /\ Head(q) = q[1]
  OBVIOUS
<1>2. IsFiniteSet(1 .. Len(q)) /\ IsFiniteSet(1 .. Len(Tail(q)))
  BY <1>1, FS_Interval
<1>3. IsFiniteSet(D) /\ IsFiniteSet(E) /\ IsFiniteSet(F)
  BY <1>2, FS_Subset
<1>4. Cardinality(D) \in Nat /\ Cardinality(E) \in Nat /\ Cardinality(F) \in Nat
  BY <1>3, FS_CardinalityType
<1>5. move \in Bijection(E, F)
  <2>1. move \in [E -> F]
    BY <1>1
  <2>2. \A a, b \in E : move[a] = move[b] => a = b
    BY <1>1
  <2>3. \A f \in F : \E a \in E : move[a] = f
    <3>1. TAKE f \in F
    <3>2. f - 1 \in E
      BY <1>1
    <3>3. move[f - 1] = f
      BY <3>2, <1>1
    <3>4. QED
      BY <3>2, <3>3
  <2>4. QED
    BY <2>1, <2>2, <2>3 DEF Bijection, Injection, Surjection, IsInjective
<1>6. Cardinality(E) = Cardinality(F)
  BY <1>3, <1>5, FS_Bijection DEF ExistsBijection
<1>7. Cardinality(D) = Cardinality(F) + (IF Head(q) = m THEN 1 ELSE 0)
  <2>1. CASE Head(q) = m
    <3>1. 1 \in D
      BY <1>1, <2>1
    <3>2. Cardinality(F) = Cardinality(D) - 1
      BY <1>3, <3>1, FS_RemoveElement
    <3> HIDE DEF D, F
    <3>3. QED
      BY <1>4, <2>1, <3>2
  <2>2. CASE Head(q) # m
    <3>1. F = D
      BY <1>1, <2>2
    <3> HIDE DEF D, F
    <3>2. QED
      BY <1>4, <2>2, <3>1
  <2>3. QED
    BY <2>1, <2>2
<1>8. QED
  BY <1>6, <1>7 DEF Count
-----------------------------------------------------------------------------
\* The messages that the senders post are messages of the bus, and those that
\* carry different things differ.
LEMMA MsgFacts ==
    /\ RxMsg \in BusMsg /\ NullMsg \in BusMsg
    /\ \A t \in Ctl : CtlMsg(t) \in BusMsg /\ CtlMsg(t) # RxMsg
    /\ \A b \in Bufs : BufMsg(b) \in BusMsg /\ BufMsg(b) # RxMsg
    /\ NullMsg # RxMsg
    /\ \A b \in Bufs : \A t \in Ctl : CtlMsg(t) # BufMsg(b)
    /\ \A b \in Bufs : BufMsg(b) # NullMsg
    /\ \A b, c \in Bufs : BufMsg(b) = BufMsg(c) => b = c
BY DEF RxMsg, NullMsg, CtlMsg, BufMsg, BusMsg, Ctl, Bufs

\* A message of the bus is the RX message, carries a buffer, or neither, and
\* its type tells which.
LEMMA MsgCases ==
    ASSUME NEW m \in BusMsg
    PROVE  /\ m.type = "rx" <=> m = RxMsg
           /\ m.type \in {"tx", "tx_raw"} => m.arg \in Bufs /\ m = BufMsg(m.arg)
           /\ m.type \in Ctl \cup {"null"} => \A b \in Bufs : m # BufMsg(b)
           /\ m.type \in Ctl \cup {"rx", "null", "tx", "tx_raw"}
BY BufsAssumption DEF RxMsg, NullMsg, CtlMsg, BufMsg, BusMsg, Ctl, Bufs

(***************************************************************************)
(* The types without the claim that no count is negative: that one is not  *)
(* inductive by itself, it follows from BufAccounting.                     *)
(***************************************************************************)
BaseTypes ==
    /\ io_queue \in Seq(BusMsg) /\ Len(io_queue) <= QItems
    /\ bmsg_rx_count \in Nat
    /\ rx_pc \in [RxCtx -> {"idle", "counted"}]
    /\ rx_lost \in Nat
    /\ ref \in [Bufs -> Int]
    /\ owned \in SUBSET Pbufs
    /\ sending \in [TxThreads -> Bufs \cup {None}]
    /\ core_pc \in {"pop", "dispatch", "free", "sched", "ps", "sleep_check"}
    /\ msg \in BusMsg
    /\ hold \in Bufs \cup {None}
    /\ ke_skip \in BOOLEAN
    /\ ps_flag \in BOOLEAN
    /\ deferred \in BOOLEAN

\* The initial values have the types that the code gives them.
LEMMA TypeInit == Init => BaseTypes
<1> SUFFICES ASSUME Init
             PROVE  BaseTypes
  OBVIOUS
<1>1. io_queue \in Seq(BusMsg) /\ Len(io_queue) <= QItems /\ msg \in BusMsg
  BY MsgFacts, QItemsAssumption DEF Init
<1>2. rx_pc \in [RxCtx -> {"idle", "counted"}]
  BY DEF Init
<1>3. ref \in [Bufs -> Int] /\ sending \in [TxThreads -> Bufs \cup {None}]
  BY DEF Init
<1>4. ke_skip \in BOOLEAN /\ ps_flag \in BOOLEAN /\ deferred \in BOOLEAN
  BY DEF Init
<1>5. bmsg_rx_count \in Nat /\ rx_lost \in Nat
  BY DEF Init
<1>6. QED
  BY <1>1, <1>2, <1>3, <1>4, <1>5 DEF Init, BaseTypes

\* Every step of the bus keeps the types.
LEMMA TypeStep == BaseTypes /\ [Next]_vars => BaseTypes'
<1> SUFFICES ASSUME BaseTypes, [Next]_vars
             PROVE  BaseTypes'
  OBVIOUS
<1> USE DEF BaseTypes
<1>1. ASSUME NEW c \in RxCtx, bmsg_rx_sender(c)
      PROVE  BaseTypes'
  BY <1>1 DEF bmsg_rx_sender, bufVars, coreVars
<1>2. ASSUME NEW c \in RxCtx, bmsg_rx_sender_push(c)
      PROVE  BaseTypes'
  <2>1. io_queue' \in Seq(BusMsg) /\ Len(io_queue') <= QItems
    BY <1>2, MsgFacts, QItemsAssumption DEF bmsg_rx_sender_push, Push, Room
  <2>2. rx_lost' \in Nat
    BY <1>2 DEF bmsg_rx_sender_push
  <2>3. QED
    BY <1>2, <2>1, <2>2 DEF bmsg_rx_sender_push, bufVars, coreVars
<1>3. ASSUME NEW b \in Pbufs, pbuf_alloc(b)
      PROVE  BaseTypes'
  BY <1>3 DEF pbuf_alloc, rxVars, coreVars, Bufs
<1>4. ASSUME NEW b \in Pbufs, stack_pbuf_free(b)
      PROVE  BaseTypes'
  BY <1>4 DEF stack_pbuf_free, rxVars, coreVars, Bufs
<1>5. ASSUME NEW t \in TxThreads, NEW b \in Pbufs, bmsg_tx_sender(t, b)
      PROVE  BaseTypes'
  BY <1>5 DEF bmsg_tx_sender, rxVars, coreVars, Bufs
<1>6. ASSUME NEW t \in TxThreads, NEW b \in Raws, bmsg_tx_raw_sender(t, b)
      PROVE  BaseTypes'
  BY <1>6 DEF bmsg_tx_raw_sender, rxVars, coreVars, Bufs
<1>7. ASSUME NEW t \in TxThreads, tx_push(t)
      PROVE  BaseTypes'
  <2>1. sending[t] \in Bufs
    BY <1>7 DEF tx_push
  <2>2. QED
    BY <1>7, <2>1, MsgFacts, QItemsAssumption DEF tx_push, Push, Room, rxVars, coreVars
<1>8. ASSUME NEW t \in TxThreads, tx_push_failed(t)
      PROVE  BaseTypes'
  BY <1>8 DEF tx_push_failed, rxVars, coreVars
<1>9. ASSUME NEW t \in Ctl, bmsg_ctl_sender(t)
      PROVE  BaseTypes'
  BY <1>9, MsgFacts, QItemsAssumption DEF bmsg_ctl_sender, Push, Room, rxVars, bufVars, coreVars
<1>10. CASE core_pop
  <2>1. Head(io_queue) \in BusMsg /\ Tail(io_queue) \in Seq(BusMsg)
    BY <1>10 DEF core_pop
  <2>2. Len(Tail(io_queue)) <= QItems
    BY <1>10, QItemsAssumption DEF core_pop
  <2>3. QED
    BY <1>10, <2>1, <2>2 DEF core_pop, rxVars, bufVars
<1>11. CASE bmsg_rx_handler
  BY <1>11 DEF bmsg_rx_handler, bufVars
<1>12. CASE bmsg_tx_handler
  <2>1. msg.arg \in Bufs
    BY <1>12, MsgCases DEF bmsg_tx_handler
  <2>2. QED
    BY <1>12, <2>1 DEF bmsg_tx_handler, rxVars
<1>13. CASE bmsg_tx_raw_handler
  <2>1. msg.arg \in Bufs
    BY <1>13, MsgCases DEF bmsg_tx_raw_handler
  <2>2. QED
    BY <1>13, <2>1 DEF bmsg_tx_raw_handler, rxVars, bufVars
<1>14. CASE core_free
  BY <1>14 DEF core_free, rxVars
<1>15. CASE core_ctl
  BY <1>15 DEF core_ctl, rxVars, bufVars
<1>16. CASE core_sched
  BY <1>16 DEF core_sched, rxVars, bufVars
<1>17. CASE core_ps
  <2>1. io_queue' \in Seq(BusMsg) /\ Len(io_queue') <= QItems
    BY <1>17, MsgFacts, QItemsAssumption DEF core_ps, Push
  <2>2. QED
    BY <1>17, <2>1 DEF core_ps, rxVars, bufVars
<1>18. CASE power_save_rf_sleep_check
  BY <1>18, MsgFacts DEF power_save_rf_sleep_check, rxVars, bufVars
<1>19. CASE UNCHANGED vars
  BY <1>19 DEF vars
<1>20. QED
  BY <1>1, <1>2, <1>3, <1>4, <1>5, <1>6, <1>7, <1>8, <1>9, <1>10, <1>11, <1>12,
     <1>13, <1>14, <1>15, <1>16, <1>17, <1>18, <1>19 DEF Next, core_thread

\* The types alone are kept by every step, whatever the counts are.
LEMMA BaseTypesCorrect == Spec => []BaseTypes
BY TypeInit, TypeStep, PTL DEF Spec
-----------------------------------------------------------------------------
\* The contexts that have raised bmsg_rx_count and not yet pushed are
\* finitely many.
LEMMA RxCountedFinite ==
    BaseTypes => IsFiniteSet(RxCounted) /\ Cardinality(RxCounted) \in Nat
BY RxCtxAssumption, FS_Subset, FS_CardinalityType DEF RxCounted

(***************************************************************************)
(* Every step of the bus keeps the accounting of RX messages: the counter  *)
(* is raised and lowered exactly when a message enters and leaves the path *)
(* from bmsg_rx_sender through the queue to bmsg_rx_handler.               *)
(***************************************************************************)
LEMMA RxStep == BaseTypes /\ RxAccounting /\ [Next]_vars => RxAccounting'
<1> SUFFICES ASSUME BaseTypes, RxAccounting, [Next]_vars
             PROVE  RxAccounting'
  OBVIOUS
<1> DEFINE Queued == Count(io_queue, RxMsg)
<1>a. /\ IsFiniteSet(RxCounted) /\ Cardinality(RxCounted) \in Nat
      /\ io_queue \in Seq(BusMsg) /\ msg \in BusMsg
      /\ bmsg_rx_count \in Nat /\ rx_lost \in Nat
  BY RxCountedFinite DEF BaseTypes
<1>b. Queued \in Nat
  BY <1>a, MsgFacts, CountAppend
<1>c. RxInHand \in {0, 1}
  BY DEF RxInHand
<1>d. ASSUME UNCHANGED rx_pc
      PROVE  RxCounted' = RxCounted
  BY <1>d DEF RxCounted
<1>e. ASSUME UNCHANGED io_queue
      PROVE  Queued' = Queued
  BY <1>e
<1>f. ASSUME NEW m \in BusMsg, Push(m), m # RxMsg
      PROVE  Queued' = Queued
  BY <1>a, <1>b, <1>f, CountAppend DEF Push
<1>g. ASSUME UNCHANGED <<core_pc, msg>>
      PROVE  RxInHand' = RxInHand
  BY <1>g DEF RxInHand
<1>h. ASSUME core_pc = "dispatch" => msg.type # "rx", core_pc' # "dispatch"
      PROVE  RxInHand' = 0 /\ RxInHand = 0
  BY <1>a, <1>h, MsgCases DEF RxInHand
<1>i. ASSUME RxCounted' = RxCounted, Queued' = Queued, RxInHand' = RxInHand,
             UNCHANGED <<bmsg_rx_count, rx_lost>>
      PROVE  RxAccounting'
  BY <1>i DEF RxAccounting
<1> HIDE DEF Queued
<1>1. ASSUME NEW c \in RxCtx, bmsg_rx_sender(c)
      PROVE  RxAccounting'
  <2>1. c \notin RxCounted /\ RxCounted' = RxCounted \cup {c}
    BY <1>1 DEF bmsg_rx_sender, RxCounted, BaseTypes
  <2>2. Cardinality(RxCounted') = Cardinality(RxCounted) + 1
    BY <2>1, <1>a, FS_AddElement
  <2>3. /\ Queued' = Queued /\ RxInHand' = RxInHand
        /\ bmsg_rx_count' = bmsg_rx_count + 1 /\ rx_lost' = rx_lost
        /\ bmsg_rx_count < RxLimit
    BY <1>1, <1>e, <1>g DEF bmsg_rx_sender, coreVars
  <2>4. QED
    BY <2>2, <2>3, <1>a, <1>b, <1>c, RxLimitAssumption DEF RxAccounting, Queued
<1>2. ASSUME NEW c \in RxCtx, bmsg_rx_sender_push(c)
      PROVE  RxAccounting'
  <2>1. c \in RxCounted /\ RxCounted' = RxCounted \ {c}
    BY <1>2 DEF bmsg_rx_sender_push, RxCounted, BaseTypes
  <2>2. Cardinality(RxCounted') = Cardinality(RxCounted) - 1
    BY <2>1, <1>a, FS_RemoveElement
  <2>3. RxInHand' = RxInHand /\ bmsg_rx_count' = bmsg_rx_count
    BY <1>2, <1>g DEF bmsg_rx_sender_push, coreVars
  <2>4. CASE Room /\ Push(RxMsg) /\ UNCHANGED rx_lost
    <3>1. Queued' = Queued + 1
      BY <2>4, <1>a, MsgFacts, CountAppend DEF Push, Queued
    <3>2. QED
      BY <2>2, <2>3, <2>4, <3>1, <1>a, <1>b, <1>c DEF RxAccounting, Queued
  <2>5. CASE ~Room /\ rx_lost' = rx_lost + 1 /\ UNCHANGED io_queue
    BY <2>2, <2>3, <2>5, <1>e, <1>a, <1>b, <1>c DEF RxAccounting, Queued
  <2>6. QED
    BY <1>2, <2>4, <2>5 DEF bmsg_rx_sender_push
<1>3. ASSUME NEW b \in Pbufs, pbuf_alloc(b) \/ stack_pbuf_free(b)
      PROVE  RxAccounting'
  BY <1>3, <1>d, <1>e, <1>g, <1>i DEF pbuf_alloc, stack_pbuf_free, rxVars, coreVars
<1>4. ASSUME NEW t \in TxThreads, NEW b \in Bufs, bmsg_tx_sender(t, b) \/ bmsg_tx_raw_sender(t, b)
      PROVE  RxAccounting'
  BY <1>4, <1>d, <1>e, <1>g, <1>i DEF bmsg_tx_sender, bmsg_tx_raw_sender, rxVars, coreVars
<1>5. ASSUME NEW t \in TxThreads, tx_push(t)
      PROVE  RxAccounting'
  <2>1. sending[t] \in Bufs
    BY <1>5 DEF tx_push, BaseTypes
  <2>2. Queued' = Queued
    BY <1>5, <2>1, <1>f, MsgFacts DEF tx_push
  <2>3. QED
    BY <1>5, <2>2, <1>d, <1>g, <1>i DEF tx_push, rxVars, coreVars
<1>6. ASSUME NEW t \in TxThreads, tx_push_failed(t)
      PROVE  RxAccounting'
  BY <1>6, <1>d, <1>e, <1>g, <1>i DEF tx_push_failed, rxVars, coreVars
<1>7. ASSUME NEW t \in Ctl, bmsg_ctl_sender(t)
      PROVE  RxAccounting'
  <2>1. Queued' = Queued
    BY <1>7, <1>f, MsgFacts DEF bmsg_ctl_sender
  <2>2. QED
    BY <1>7, <2>1, <1>d, <1>g, <1>i DEF bmsg_ctl_sender, rxVars, coreVars
<1>8. CASE core_pop
  <2>1. Queued = Queued' + (IF Head(io_queue) = RxMsg THEN 1 ELSE 0)
    BY <1>8, <1>a, CountTail DEF core_pop, Queued
  <2>2. Queued' \in Nat
    <3>1. io_queue' \in Seq(BusMsg)
      BY <1>8, <1>a DEF core_pop
    <3>2. QED
      BY <3>1, MsgFacts, CountAppend DEF Queued
  <2>3. RxInHand = 0 /\ RxInHand' = IF Head(io_queue) = RxMsg THEN 1 ELSE 0
    BY <1>8 DEF core_pop, RxInHand
  <2>4. RxCounted' = RxCounted
    BY <1>8, <1>d DEF core_pop, rxVars
  <2>5. QED
    BY <1>8, <2>1, <2>2, <2>3, <2>4, <1>a, <1>b DEF core_pop, rxVars, RxAccounting, Queued
<1>9. CASE bmsg_rx_handler
  <2>1. RxInHand = 1 /\ RxInHand' = 0
    BY <1>9, <1>a, MsgCases DEF bmsg_rx_handler, RxInHand
  <2>2. bmsg_rx_count > 0
    BY <2>1, <1>a, <1>b DEF RxAccounting, Queued
  <2>3. RxCounted' = RxCounted /\ Queued' = Queued
    BY <1>9, <1>d, <1>e DEF bmsg_rx_handler
  <2>4. QED
    BY <1>9, <2>1, <2>2, <2>3, <1>a, <1>b, RxLimitAssumption
    DEF bmsg_rx_handler, RxAccounting, Queued
<1>10. CASE bmsg_tx_handler \/ bmsg_tx_raw_handler
  <2>1. RxInHand' = RxInHand
    BY <1>10, <1>h DEF bmsg_tx_handler, bmsg_tx_raw_handler
  <2>2. QED
    BY <1>10, <2>1, <1>d, <1>e, <1>i DEF bmsg_tx_handler, bmsg_tx_raw_handler, rxVars
<1>11. CASE core_ctl
  <2>1. RxInHand' = RxInHand
    BY <1>11, <1>h DEF core_ctl, Ctl
  <2>2. QED
    BY <1>11, <2>1, <1>d, <1>e, <1>i DEF core_ctl, rxVars
<1>12. CASE core_free \/ core_sched \/ power_save_rf_sleep_check
  <2>1. RxInHand' = RxInHand
    BY <1>12, <1>h DEF core_free, core_sched, power_save_rf_sleep_check
  <2>2. QED
    BY <1>12, <2>1, <1>d, <1>e, <1>i DEF core_free, core_sched, power_save_rf_sleep_check, rxVars
<1>13. CASE core_ps
  <2>1. RxInHand' = RxInHand
    BY <1>13, <1>h DEF core_ps
  <2>2. Queued' = Queued
    BY <1>13, <1>e, <1>f, MsgFacts DEF core_ps
  <2>3. QED
    BY <1>13, <2>1, <2>2, <1>d, <1>i DEF core_ps, rxVars
<1>14. CASE UNCHANGED vars
  BY <1>14, <1>d, <1>e, <1>g, <1>i DEF vars
<1>15. QED
  BY <1>1, <1>2, <1>3, <1>4, <1>5, <1>6, <1>7, <1>8, <1>9, <1>10, <1>11, <1>12, <1>13, <1>14
  DEF Next, core_thread, Bufs
(***************************************************************************)
(* The RX throttle counts right: bmsg_rx_count is the number of RX         *)
(* messages between bmsg_rx_sender and bmsg_rx_handler plus the number of  *)
(* failed pushes, and never passes the limit.                              *)
(***************************************************************************)
THEOREM RxAccountingCorrect == Spec => []RxAccounting
<1>1. Init => RxAccounting
  <2> SUFFICES ASSUME Init
               PROVE  RxAccounting
    OBVIOUS
  <2>1. {i \in 1 .. Len(io_queue) : io_queue[i] = RxMsg} = {}
    BY DEF Init
  <2>2. RxCounted = {}
    BY DEF Init, RxCounted
  <2>3. RxInHand = 0
    BY DEF Init, RxInHand
  <2>4. QED
    BY <2>1, <2>2, <2>3, FS_EmptySet, RxLimitAssumption DEF Init, RxAccounting, Count
<1>2. BaseTypes /\ RxAccounting /\ [Next]_vars => RxAccounting'
  BY RxStep
<1>3. QED
  BY <1>1, <1>2, BaseTypesCorrect, PTL DEF Spec
-----------------------------------------------------------------------------
\* The handlers hold a buffer only between taking its message and freeing it.
LEMMA HoldStep == BaseTypes /\ HoldWhileFreeing /\ [Next]_vars => HoldWhileFreeing'
BY DEF BaseTypes, HoldWhileFreeing, Next, vars, core_thread, bmsg_rx_sender, bmsg_rx_sender_push,
       pbuf_alloc, stack_pbuf_free, bmsg_tx_sender, bmsg_tx_raw_sender, tx_push,
       tx_push_failed, bmsg_ctl_sender, core_pop, bmsg_rx_handler, bmsg_tx_handler,
       bmsg_tx_raw_handler, core_free, core_ctl, core_sched, core_ps,
       power_save_rf_sleep_check, coreVars

\* The threads that are posting a buffer are finitely many.
LEMMA PostingFinite ==
    ASSUME NEW b
    PROVE  /\ IsFiniteSet({t \in TxThreads : sending[t] = b})
           /\ Cardinality({t \in TxThreads : sending[t] = b}) \in Nat
BY TxThreadsAssumption, FS_Subset, FS_CardinalityType

(***************************************************************************)
(* Every step keeps the reference counts right: a reference is taken       *)
(* before the place that needs it exists and given back after it is gone.  *)
(***************************************************************************)
LEMMA BufStep == BaseTypes /\ HoldWhileFreeing /\ BufAccounting /\ [Next]_vars => BufAccounting'
<1> SUFFICES ASSUME BaseTypes, HoldWhileFreeing, BufAccounting, [Next]_vars, NEW b \in Bufs
             PROVE  ref'[b] = HeldBy(b)'
  BY DEF BufAccounting
<1> DEFINE Own == IF b \in owned THEN 1 ELSE 0
           Posters == {t \in TxThreads : sending[t] = b}
           Posting == Cardinality(Posters)
           Queued == Count(io_queue, BufMsg(b))
           InHand == IF core_pc = "dispatch" /\ msg = BufMsg(b) THEN 1 ELSE 0
           Held == IF hold = b THEN 1 ELSE 0
<1>a. /\ io_queue \in Seq(BusMsg) /\ msg \in BusMsg
      /\ ref \in [Bufs -> Int] /\ ref[b] \in Int
      /\ sending \in [TxThreads -> Bufs \cup {None}]
      /\ owned \in SUBSET Pbufs
      /\ None \notin Bufs
  BY BufsAssumption DEF BaseTypes, Bufs
<1>b. Queued \in Nat
  BY <1>a, MsgFacts, CountAppend
<1>c. IsFiniteSet(Posters) /\ Posting \in Nat
  BY PostingFinite
<1>d. Own \in {0, 1} /\ InHand \in {0, 1} /\ Held \in {0, 1}
  OBVIOUS
<1>e. ref[b] = Own + Posting + Queued + InHand + Held
  BY DEF BufAccounting, HeldBy
<1>f. HeldBy(b)' = Own' + Posting' + Queued' + InHand' + Held'
  BY DEF HeldBy
<1>g. ASSUME NEW m \in BusMsg, Push(m)
      PROVE  Queued' = Queued + (IF m = BufMsg(b) THEN 1 ELSE 0)
  BY <1>a, <1>g, CountAppend DEF Push
<1>h. ASSUME UNCHANGED owned PROVE Own' = Own
  BY <1>h
<1>i. ASSUME UNCHANGED sending PROVE Posting' = Posting
  BY <1>i
<1>j. ASSUME UNCHANGED io_queue PROVE Queued' = Queued
  BY <1>j
<1>k. ASSUME UNCHANGED <<core_pc, msg>> PROVE InHand' = InHand
  BY <1>k
<1>l. ASSUME UNCHANGED hold PROVE Held' = Held
  BY <1>l
<1>m. ASSUME NEW m \in BusMsg, Push(m), m # BufMsg(b)
      PROVE  Queued' = Queued
  BY <1>m, <1>g, <1>b
<1>n. ASSUME NEW t \in TxThreads, NEW c \in Bufs, sending[t] = None,
             sending' = [sending EXCEPT ![t] = c]
      PROVE  Posting' = Posting + (IF b = c THEN 1 ELSE 0)
  <2>1. CASE b = c
    <3>1. t \notin Posters /\ Posters' = Posters \cup {t}
      BY <1>n, <1>a, <2>1
    <3>2. QED
      BY <2>1, <3>1, <1>c, FS_AddElement
  <2>2. CASE b # c
    <3>1. Posters' = Posters
      BY <1>n, <1>a, <2>2
    <3>2. QED
      BY <2>2, <3>1, <1>c
  <2>3. QED
    BY <2>1, <2>2
<1>o. ASSUME NEW t \in TxThreads, sending[t] # None,
             sending' = [sending EXCEPT ![t] = None]
      PROVE  Posting' = Posting - (IF sending[t] = b THEN 1 ELSE 0)
  <2>1. CASE sending[t] = b
    <3>1. t \in Posters /\ Posters' = Posters \ {t}
      BY <1>o, <1>a, <2>1
    <3>2. QED
      BY <2>1, <3>1, <1>c, FS_RemoveElement
  <2>2. CASE sending[t] # b
    <3>1. Posters' = Posters
      BY <1>o, <1>a, <2>2
    <3>2. QED
      BY <2>2, <3>1, <1>c
  <2>3. QED
    BY <2>1, <2>2
<1>p. ASSUME NEW c \in Bufs, NEW k \in Int, ref' = [ref EXCEPT ![c] = k]
      PROVE  ref'[b] = IF b = c THEN k ELSE ref[b]
  BY <1>p, <1>a
<1>q. ASSUME core_pc # "dispatch" \/ msg # BufMsg(b), core_pc' # "dispatch"
      PROVE  InHand = 0 /\ InHand' = 0
  BY <1>q
<1>r. ASSUME UNCHANGED ref, Own' = Own, Posting' = Posting, Queued' = Queued,
             InHand' = InHand, Held' = Held
      PROVE  ref'[b] = HeldBy(b)'
  BY <1>r, <1>e, <1>f
<1> HIDE DEF Own, Posters, Posting, Queued, InHand, Held
<1>1. ASSUME NEW c \in RxCtx, bmsg_rx_sender(c)
      PROVE  ref'[b] = HeldBy(b)'
  BY <1>1, <1>h, <1>i, <1>j, <1>k, <1>l, <1>r DEF bmsg_rx_sender, bufVars, coreVars
<1>2. ASSUME NEW c \in RxCtx, bmsg_rx_sender_push(c)
      PROVE  ref'[b] = HeldBy(b)'
  <2>1. Queued' = Queued
    BY <1>2, <1>j, <1>m, MsgFacts DEF bmsg_rx_sender_push
  <2>2. QED
    BY <1>2, <2>1, <1>h, <1>i, <1>k, <1>l, <1>r DEF bmsg_rx_sender_push, bufVars, coreVars
<1>3. ASSUME NEW c \in Pbufs, pbuf_alloc(c)
      PROVE  ref'[b] = HeldBy(b)'
  <2>1. c \in Bufs /\ ref'[b] = IF b = c THEN 1 ELSE ref[b]
    BY <1>3, <1>a DEF pbuf_alloc, Bufs
  <2>2. b = c => Own = 0
    BY <1>3, <1>b, <1>c, <1>d, <1>e DEF pbuf_alloc
  <2>3. Own' = IF b = c THEN 1 ELSE Own
    BY <1>3 DEF pbuf_alloc, Own
  <2>4. Posting' = Posting /\ Queued' = Queued /\ InHand' = InHand /\ Held' = Held
    BY <1>3, <1>i, <1>j, <1>k, <1>l DEF pbuf_alloc, coreVars
  <2>5. b = c => ref[b] = 0
    BY <1>3 DEF pbuf_alloc
  <2>6. QED
    BY <2>1, <2>2, <2>3, <2>4, <2>5, <1>b, <1>c, <1>d, <1>e, <1>f
<1>4. ASSUME NEW c \in Pbufs, stack_pbuf_free(c)
      PROVE  ref'[b] = HeldBy(b)'
  <2>1. c \in Bufs /\ ref[c] - 1 \in Int
    BY <1>a DEF Bufs
  <2>2. ref'[b] = IF b = c THEN ref[b] - 1 ELSE ref[b]
    BY <1>4, <2>1, <1>p DEF stack_pbuf_free
  <2>3. Own' = IF b = c THEN Own - 1 ELSE Own
    BY <1>4 DEF stack_pbuf_free, Own
  <2>4. Posting' = Posting /\ Queued' = Queued /\ InHand' = InHand /\ Held' = Held
    BY <1>4, <1>i, <1>j, <1>k, <1>l DEF stack_pbuf_free, coreVars
  <2>5. QED
    BY <2>2, <2>3, <2>4, <1>b, <1>c, <1>d, <1>e, <1>f
<1>5. ASSUME NEW t \in TxThreads, NEW c \in Pbufs, bmsg_tx_sender(t, c)
      PROVE  ref'[b] = HeldBy(b)'
  <2>1. c \in Bufs /\ ref[c] + 1 \in Int
    BY <1>a DEF Bufs
  <2>2. ref'[b] = IF b = c THEN ref[b] + 1 ELSE ref[b]
    BY <1>5, <2>1, <1>p DEF bmsg_tx_sender
  <2>3. Posting' = Posting + (IF b = c THEN 1 ELSE 0)
    BY <1>5, <2>1, <1>n DEF bmsg_tx_sender
  <2>4. Own' = Own /\ Queued' = Queued /\ InHand' = InHand /\ Held' = Held
    BY <1>5, <1>h, <1>j, <1>k, <1>l DEF bmsg_tx_sender, coreVars
  <2>5. QED
    BY <2>2, <2>3, <2>4, <1>b, <1>c, <1>d, <1>e, <1>f
<1>6. ASSUME NEW t \in TxThreads, NEW c \in Raws, bmsg_tx_raw_sender(t, c)
      PROVE  ref'[b] = HeldBy(b)'
  <2>1. c \in Bufs /\ ref'[b] = IF b = c THEN 1 ELSE ref[b]
    BY <1>6, <1>a DEF bmsg_tx_raw_sender, Bufs
  <2>2. Posting' = Posting + (IF b = c THEN 1 ELSE 0)
    BY <1>6, <2>1, <1>n DEF bmsg_tx_raw_sender
  <2>3. Own' = Own /\ Queued' = Queued /\ InHand' = InHand /\ Held' = Held
    BY <1>6, <1>h, <1>j, <1>k, <1>l DEF bmsg_tx_raw_sender, coreVars
  <2>4. b = c => ref[b] = 0
    BY <1>6 DEF bmsg_tx_raw_sender
  <2>5. QED
    BY <2>1, <2>2, <2>3, <2>4, <1>b, <1>c, <1>d, <1>e, <1>f
<1>7. ASSUME NEW t \in TxThreads, tx_push(t)
      PROVE  ref'[b] = HeldBy(b)'
  <2>1. sending[t] \in Bufs
    BY <1>7, <1>a DEF tx_push
  <2>2. Queued' = Queued + (IF sending[t] = b THEN 1 ELSE 0)
    BY <1>7, <2>1, <1>g, MsgFacts DEF tx_push
  <2>3. Posting' = Posting - (IF sending[t] = b THEN 1 ELSE 0)
    BY <1>7, <1>o DEF tx_push
  <2>4. Own' = Own /\ InHand' = InHand /\ Held' = Held /\ ref' = ref
    BY <1>7, <1>h, <1>k, <1>l DEF tx_push, coreVars
  <2>5. QED
    BY <2>2, <2>3, <2>4, <1>b, <1>c, <1>d, <1>e, <1>f
<1>8. ASSUME NEW t \in TxThreads, tx_push_failed(t)
      PROVE  ref'[b] = HeldBy(b)'
  <2>1. sending[t] \in Bufs /\ ref[sending[t]] - 1 \in Int
    BY <1>8, <1>a DEF tx_push_failed
  <2>2. ref'[b] = IF b = sending[t] THEN ref[b] - 1 ELSE ref[b]
    BY <1>8, <2>1, <1>p DEF tx_push_failed
  <2>3. Posting' = Posting - (IF sending[t] = b THEN 1 ELSE 0)
    BY <1>8, <1>o DEF tx_push_failed
  <2>4. Own' = Own /\ Queued' = Queued /\ InHand' = InHand /\ Held' = Held
    BY <1>8, <1>h, <1>j, <1>k, <1>l DEF tx_push_failed, coreVars
  <2>5. QED
    BY <2>2, <2>3, <2>4, <1>b, <1>c, <1>d, <1>e, <1>f
<1>9. ASSUME NEW t \in Ctl, bmsg_ctl_sender(t)
      PROVE  ref'[b] = HeldBy(b)'
  <2>1. Queued' = Queued
    BY <1>9, <1>m, MsgFacts DEF bmsg_ctl_sender
  <2>2. QED
    BY <1>9, <2>1, <1>h, <1>i, <1>k, <1>l, <1>r DEF bmsg_ctl_sender, bufVars, coreVars
<1>10. CASE core_pop
  <2>1. Queued = Queued' + (IF Head(io_queue) = BufMsg(b) THEN 1 ELSE 0)
    BY <1>10, <1>a, CountTail DEF core_pop, Queued
  <2>2. Queued' \in Nat
    <3>1. io_queue' \in Seq(BusMsg)
      BY <1>10, <1>a DEF core_pop
    <3>2. QED
      BY <3>1, MsgFacts, CountAppend DEF Queued
  <2>3. InHand = 0 /\ InHand' = IF Head(io_queue) = BufMsg(b) THEN 1 ELSE 0
    BY <1>10 DEF core_pop, InHand
  <2>4. Own' = Own /\ Posting' = Posting /\ Held' = Held /\ ref' = ref
    BY <1>10, <1>h, <1>i, <1>l DEF core_pop, bufVars
  <2>5. QED
    BY <2>1, <2>2, <2>3, <2>4, <1>b, <1>c, <1>d, <1>e, <1>f
<1>11. CASE bmsg_rx_handler
  <2>1. msg # BufMsg(b)
    BY <1>11, <1>a, MsgCases, MsgFacts DEF bmsg_rx_handler
  <2>2. QED
    BY <1>11, <2>1, <1>q, <1>h, <1>i, <1>j, <1>l, <1>r DEF bmsg_rx_handler, bufVars
<1>12. CASE bmsg_tx_handler
  <2>1. msg.arg \in Bufs /\ msg = BufMsg(msg.arg)
    BY <1>12, <1>a, MsgCases DEF bmsg_tx_handler
  <2>2. InHand = (IF msg.arg = b THEN 1 ELSE 0) /\ InHand' = 0
    BY <1>12, <2>1, MsgFacts DEF bmsg_tx_handler, InHand
  <2>3. Held = 0
    BY <1>12, <1>a DEF bmsg_tx_handler, HoldWhileFreeing, Held
  <2>4. Own' = Own /\ Posting' = Posting /\ Queued' = Queued
    BY <1>12, <1>h, <1>i, <1>j DEF bmsg_tx_handler
  <2>5. CASE hold' = msg.arg /\ UNCHANGED ref
    <3>1. Held' = IF msg.arg = b THEN 1 ELSE 0
      BY <2>5 DEF Held
    <3>2. QED
      BY <2>5, <3>1, <2>2, <2>3, <2>4, <1>b, <1>c, <1>d, <1>e, <1>f
  <2>6. CASE hold' = None /\ ref' = [ref EXCEPT ![msg.arg] = @ - 1]
    <3>1. Held' = 0
      BY <2>6, <1>a DEF Held
    <3>2. ref[msg.arg] - 1 \in Int
      BY <2>1, <1>a
    <3>3. ref'[b] = IF b = msg.arg THEN ref[b] - 1 ELSE ref[b]
      BY <2>6, <2>1, <3>2, <1>p
    <3>4. QED
      BY <3>1, <3>3, <2>2, <2>3, <2>4, <1>b, <1>c, <1>d, <1>e, <1>f
  <2>7. QED
    BY <1>12, <2>5, <2>6 DEF bmsg_tx_handler
<1>13. CASE bmsg_tx_raw_handler
  <2>1. msg.arg \in Bufs /\ msg = BufMsg(msg.arg)
    BY <1>13, <1>a, MsgCases DEF bmsg_tx_raw_handler
  <2>2. InHand = (IF msg.arg = b THEN 1 ELSE 0) /\ InHand' = 0
    BY <1>13, <2>1, MsgFacts DEF bmsg_tx_raw_handler, InHand
  <2>3. Held = 0 /\ Held' = IF msg.arg = b THEN 1 ELSE 0
    BY <1>13, <1>a DEF bmsg_tx_raw_handler, HoldWhileFreeing, Held
  <2>4. Own' = Own /\ Posting' = Posting /\ Queued' = Queued /\ ref' = ref
    BY <1>13, <1>h, <1>i, <1>j DEF bmsg_tx_raw_handler, bufVars
  <2>5. QED
    BY <2>2, <2>3, <2>4, <1>b, <1>c, <1>d, <1>e, <1>f
<1>14. CASE core_free
  <2>1. InHand = 0 /\ InHand' = 0
    BY <1>14, <1>q DEF core_free
  <2>2. Own' = Own /\ Posting' = Posting /\ Queued' = Queued
    BY <1>14, <1>h, <1>i, <1>j DEF core_free
  <2>3. Held' = 0
    BY <1>14, <1>a DEF core_free, Held
  <2>4. CASE hold = None
    <3>1. Held = 0 /\ ref' = ref
      BY <1>14, <2>4, <1>a DEF core_free, Held
    <3>2. QED
      BY <3>1, <2>1, <2>2, <2>3, <1>e, <1>f
  <2>5. CASE hold # None
    <3>1. hold \in Bufs /\ ref[hold] - 1 \in Int
      BY <2>5, <1>a DEF BaseTypes
    <3>2. ref'[b] = IF b = hold THEN ref[b] - 1 ELSE ref[b]
      BY <1>14, <2>5, <3>1, <1>a DEF core_free
    <3>3. Held = IF b = hold THEN 1 ELSE 0
      BY DEF Held
    <3>4. QED
      BY <3>2, <3>3, <2>1, <2>2, <2>3, <1>b, <1>c, <1>d, <1>e, <1>f
  <2>6. QED
    BY <2>4, <2>5
<1>15. CASE core_ctl
  <2>1. msg # BufMsg(b)
    BY <1>15, <1>a, MsgCases DEF core_ctl
  <2>2. QED
    BY <1>15, <2>1, <1>q, <1>h, <1>i, <1>j, <1>l, <1>r DEF core_ctl, bufVars
<1>16. CASE core_sched \/ power_save_rf_sleep_check
  BY <1>16, <1>q, <1>h, <1>i, <1>j, <1>l, <1>r
  DEF core_sched, power_save_rf_sleep_check, bufVars
<1>17. CASE core_ps
  <2>1. Queued' = Queued
    BY <1>17, <1>j, <1>m, MsgFacts DEF core_ps
  <2>2. QED
    BY <1>17, <2>1, <1>q, <1>h, <1>i, <1>l, <1>r DEF core_ps, bufVars
<1>18. CASE UNCHANGED vars
  BY <1>18, <1>h, <1>i, <1>j, <1>k, <1>l, <1>r DEF vars
<1>19. QED
  BY <1>1, <1>2, <1>3, <1>4, <1>5, <1>6, <1>7, <1>8, <1>9, <1>10, <1>11, <1>12, <1>13, <1>14,
     <1>15, <1>16, <1>17, <1>18 DEF Next, core_thread

(***************************************************************************)
(* Buffer ownership on the bus: the reference count of every pbuf and raw  *)
(* frame is the number of places that refer to it, so a buffer is freed    *)
(* when the last of them lets go, never earlier and never twice.           *)
(***************************************************************************)
THEOREM BufAccountingCorrect == Spec => []BufAccounting
<1>1. Init => HoldWhileFreeing /\ BufAccounting
  <2> SUFFICES ASSUME Init, NEW b \in Bufs
               PROVE  HoldWhileFreeing /\ ref[b] = HeldBy(b)
    BY DEF BufAccounting, Init, HoldWhileFreeing
  <2>1. {i \in 1 .. Len(io_queue) : io_queue[i] = BufMsg(b)} = {}
    BY DEF Init
  <2>2. {t \in TxThreads : sending[t] = b} = {}
    BY BufsAssumption DEF Init, Bufs
  <2>3. hold # b /\ b \notin owned /\ core_pc = "pop" /\ ref[b] = 0 /\ hold = None
    BY BufsAssumption DEF Init, Bufs
  <2>4. Cardinality({}) = 0
    BY FS_EmptySet
  <2>5. HeldBy(b) = 0
    <3>1. Count(io_queue, BufMsg(b)) = 0
      BY <2>1, <2>4 DEF Count
    <3>2. Cardinality({t \in TxThreads : sending[t] = b}) = 0
      BY <2>2, <2>4
    <3>3. QED
      BY <3>1, <3>2, <2>3 DEF HeldBy
  <2>6. QED
    BY <2>3, <2>5 DEF HoldWhileFreeing
<1>2. BaseTypes /\ HoldWhileFreeing /\ BufAccounting /\ [Next]_vars
        => HoldWhileFreeing' /\ BufAccounting'
  BY HoldStep, BufStep
<1>3. QED
  BY <1>1, <1>2, BaseTypesCorrect, PTL DEF Spec

(***************************************************************************)
(* Type correctness: the core thread only ever takes well-formed messages  *)
(* off the queue, and no buffer is freed once more than it was referred    *)
(* to, on whatever path: a count is a number of places, hence never        *)
(* negative.                                                               *)
(***************************************************************************)
THEOREM TypeCorrect == Spec => []TypeOK
<1>1. BaseTypes /\ BufAccounting => TypeOK
  <2> SUFFICES ASSUME BaseTypes, BufAccounting
               PROVE  TypeOK
    OBVIOUS
  <2>1. ASSUME NEW b \in Bufs
        PROVE  ref[b] \in Nat
    <3>1. Cardinality({t \in TxThreads : sending[t] = b}) \in Nat
      BY TxThreadsAssumption, FS_Subset, FS_CardinalityType
    <3>2. Count(io_queue, BufMsg(b)) \in Nat
      BY MsgFacts, CountAppend DEF BaseTypes
    <3>3. QED
      BY <3>1, <3>2 DEF BufAccounting, HeldBy
  <2>2. ref \in [Bufs -> Nat]
    BY <2>1 DEF BaseTypes
  <2>3. QED
    BY <2>2 DEF BaseTypes, TypeOK
<1>2. QED
  BY <1>1, BaseTypesCorrect, BufAccountingCorrect, PTL

(***************************************************************************)
(* core_thread never blocks on an empty queue after an RF sleep check that *)
(* a queued message cut short.                                             *)
(***************************************************************************)
THEOREM SleepCheckCorrect == Spec => []SleepCheckNotSkipped
<1>1. Init => SleepCheckNotSkipped
  BY DEF Init, SleepCheckNotSkipped
<1>2. BaseTypes /\ SleepCheckNotSkipped /\ [Next]_vars => SleepCheckNotSkipped'
  <2> SUFFICES ASSUME BaseTypes, SleepCheckNotSkipped, [Next]_vars
               PROVE  SleepCheckNotSkipped'
    OBVIOUS
  <2>1. ASSUME NEW m \in BusMsg, Push(m)
        PROVE  io_queue' # <<>>
    BY <2>1 DEF Push, BaseTypes
  <2>2. CASE core_thread
    BY <2>2 DEF core_thread, core_pop, bmsg_rx_handler, bmsg_tx_handler, bmsg_tx_raw_handler,
       core_free, core_ctl, core_sched, core_ps, power_save_rf_sleep_check,
       SleepCheckNotSkipped, BaseTypes
  <2>3. CASE UNCHANGED <<core_pc, deferred>> /\ (io_queue' = io_queue \/ io_queue' # <<>>)
    BY <2>3 DEF SleepCheckNotSkipped
  <2>4. ASSUME NEW t \in TxThreads, tx_push(t)
        PROVE  io_queue' # <<>>
    BY <2>1, <2>4, MsgFacts DEF tx_push, BaseTypes
  <2>5. QED
    BY <2>1, <2>2, <2>3, <2>4, MsgFacts DEF Next, vars, bmsg_rx_sender, bmsg_rx_sender_push,
       pbuf_alloc, stack_pbuf_free, bmsg_tx_sender, bmsg_tx_raw_sender, tx_push,
       tx_push_failed, bmsg_ctl_sender, coreVars
<1>3. QED
  BY <1>1, <1>2, BaseTypesCorrect, PTL DEF Spec
=============================================================================
