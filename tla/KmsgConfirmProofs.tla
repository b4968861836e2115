------------------------- MODULE KmsgConfirmProofs -------------------------
(***************************************************************************)
(* Proofs about KmsgConfirm for every set of callers, whatever their       *)
(* priorities, every set of node addresses and every set of ids.           *)
(***************************************************************************)
EXTENDS KmsgConfirm, SequenceTheorems, TLAPS

(***************************************************************************)
(* What a sequence is after one element is taken out (co_list_extract).    *)
(***************************************************************************)
LEMMA RemoveAtFacts ==
    ASSUME NEW S, NEW s \in Seq(S), NEW i \in 1 .. Len(s)
    PROVE  /\ RemoveAt(s, i) \in Seq(S)
           /\ Len(RemoveAt(s, i)) = Len(s) - 1
           /\ \A j \in 1 .. Len(s) - 1 :
                 RemoveAt(s, i)[j] = IF j < i THEN s[j] ELSE s[j + 1]
<1> DEFINE a == SubSeq(s, 1, i - 1)
           b == SubSeq(s, i + 1, Len(s))
<1>1. Len(s) \in Nat /\ i \in Nat /\ 1 <= i /\ i <= Len(s)
  OBVIOUS
<1>2. a \in Seq(S) /\ Len(a) = i - 1 /\ \A j \in 1 .. i - 1 : a[j] = s[j]
  BY <1>1
<1>3. b \in Seq(S) /\ Len(b) = Len(s) - i /\ \A j \in 1 .. Len(s) - i : b[j] = s[i + j]
  BY <1>1
<1>4. /\ a \o b \in Seq(S)
      /\ Len(a \o b) = Len(s) - 1
      /\ \A j \in 1 .. Len(s) - 1 :
            (a \o b)[j] = IF j <= i - 1 THEN a[j] ELSE b[j - (i - 1)]
  <2> HIDE DEF a, b
  <2>1. a \o b \in Seq(S) /\ Len(a \o b) = Len(a) + Len(b)
    BY <1>2, <1>3, ConcatProperties
  <2>2. \A j \in 1 .. Len(a) + Len(b) :
           (a \o b)[j] = IF j <= Len(a) THEN a[j] ELSE b[j - Len(a)]
    BY <1>2, <1>3, ConcatProperties
  <2>3. Len(a) + Len(b) = Len(s) - 1
    BY <1>1, <1>2, <1>3
  <2>4. QED
    BY <1>2, <2>1, <2>2, <2>3
<1>5. ASSUME NEW j \in 1 .. Len(s) - 1
      PROVE  (a \o b)[j] = IF j < i THEN s[j] ELSE s[j + 1]
  <2> HIDE DEF a, b
  <2>1. CASE j < i
    BY <2>1, <1>1, <1>2, <1>4
  <2>2. CASE ~(j < i)
    <3>1. j - (i - 1) \in 1 .. Len(s) - i /\ i + (j - (i - 1)) = j + 1
      BY <2>2, <1>1
    <3>2. b[j - (i - 1)] = s[j + 1]
      BY <3>1, <1>3
    <3>3. QED
      BY <2>2, <3>2, <1>1, <1>4
  <2>3. QED
    BY <2>1, <2>2
<1>6. QED
  BY <1>4, <1>5 DEF RemoveAt

\* The elements of a sequence, and that it has no two equal ones.
Elems(s) == {s[j] : j \in 1 .. Len(s)}
NoRepeat(s) == \A j, k \in 1 .. Len(s) : s[j] = s[k] => j = k

(***************************************************************************)
(* Taking the element at i out of a sequence without repetitions removes   *)
(* exactly that element, and leaves the sequence without repetitions.      *)
(***************************************************************************)
LEMMA RemoveAtRange ==
    ASSUME NEW S, NEW s \in Seq(S), NEW i \in 1 .. Len(s), NoRepeat(s)
    PROVE  Elems(RemoveAt(s, i)) = Elems(s) \ {s[i]} /\ NoRepeat(RemoveAt(s, i))
<1> SUFFICES ASSUME NEW r, r = RemoveAt(s, i)
             PROVE  Elems(r) = Elems(s) \ {s[i]} /\ NoRepeat(r)
  OBVIOUS
<1> USE DEF Elems, NoRepeat
<1>1. /\ Len(s) \in Nat /\ i \in Nat /\ 1 <= i /\ i <= Len(s)
      /\ Len(r) = Len(s) - 1
      /\ \A j \in 1 .. Len(s) - 1 : r[j] = IF j < i THEN s[j] ELSE s[j + 1]
  BY RemoveAtFacts
<1>2. ASSUME NEW j \in 1 .. Len(r)
      PROVE  r[j] \in {s[k] : k \in 1 .. Len(s)} \ {s[i]}
  <2>1. PICK k \in 1 .. Len(s) : k # i /\ r[j] = s[k]
    BY <1>1
  <2>2. QED
    BY <2>1
<1>3. ASSUME NEW k \in 1 .. Len(s), s[k] # s[i]
      PROVE  \E j \in 1 .. Len(r) : r[j] = s[k]
  <2>1. CASE k < i
    BY <2>1, <1>1
  <2>2. CASE k > i
    <3>1. k - 1 \in 1 .. Len(r) /\ ~(k - 1 < i) /\ (k - 1) + 1 = k
      BY <2>2, <1>1
    <3>2. r[k - 1] = s[k]
      BY <3>1, <1>1
    <3>3. QED
      BY <3>1, <3>2
  <2>3. k # i
    BY <1>3
  <2>4. QED
    BY <2>1, <2>2, <2>3, <1>1
<1>4. ASSUME NEW j \in 1 .. Len(r), NEW k \in 1 .. Len(r), r[j] = r[k]
      PROVE  j = k
  BY <1>1, <1>4
<1>5. QED
  BY <1>2, <1>3, <1>4
-----------------------------------------------------------------------------
(***************************************************************************)
(* The inductive invariant behind CorruptionNeedsFault.  Until one of the  *)
(* faults happens, each call owns its node; linked nodes are allocated,    *)
(* linked once, and not given yet; and while rwnx_recv_msg walks the list  *)
(* there is a set R of allocated nodes that it cannot leave: it holds the  *)
(* linked nodes, the current one, and wherever a node of R that was        *)
(* unlinked under the walk still points to.                                *)
(***************************************************************************)
Confined(R) ==
    /\ k_cur \in R
    /\ Linked \subseteq R
    /\ \A n \in R : /\ n \in live
                    /\ fields[n].sema = 0
                    /\ n \notin Linked => stale[n] \in R \cup {None}

Owned ==
    /\ \A c \in Callers : pc[c] # "idle" => ptr[c] \in live
    /\ \A c, d \in Callers :
          pc[c] # "idle" /\ pc[d] # "idle" /\ ptr[c] = ptr[d] => c = d
    /\ \A c \in Callers : pc[c] = "unlinked" => ptr[c] \notin Linked

WellLinked ==
    /\ NoRepeat(tx_head)
    /\ \A n \in Linked : n \in live /\ fields[n].sema = 0

Walk ==
    /\ k_pc \in Walking => \E R \in SUBSET Nodes : Confined(R)
    /\ k_pc \in {"copy", "signal"} => k_cur \notin Linked

NodeInv == ~corrupt /\ Owned /\ WellLinked /\ Walk

Faults == abandoned \/ (raced /\ High # {})
IInv == (raced => High # {}) /\ (~Faults => NodeInv)
-----------------------------------------------------------------------------
\* The initial values have the types that the code gives them.
LEMMA TypeInit == Init => TypeOK
<1> SUFFICES ASSUME Init
             PROVE  TypeOK
  OBVIOUS
<1>1. NoMsg \in Msg
  BY DEF NoMsg, Msg
<1>2. CallerTypes
  BY DEF Init, CallerTypes
<1>3. HeapTypes
  BY DEF Init, HeapTypes, NoFields
<1>4. ListTypes
  BY DEF Init, ListTypes
<1>5. MacTypes /\ KmsgTypes
  <2>1. mac \in Seq(Msg) /\ rx_head \in Seq(Msg)
    BY DEF Init
  <2>2. app_sema \in {0, 1} /\ inds \in Nat
    BY DEF Init
  <2>3. fwd \in BOOLEAN
    BY DEF Init
  <2>4. KmsgTypes
    BY <1>1 DEF Init, KmsgTypes
  <2>5. QED
    BY <2>1, <2>2, <2>3, <2>4 DEF MacTypes
<1>6. HistTypes
  BY DEF Init, HistTypes
<1>7. QED
  BY <1>2, <1>3, <1>4, <1>5, <1>6 DEF TypeOK

\* A step that leaves a group of variables alone leaves their types alone.
LEMMA TypeFrame ==
    /\ UNCHANGED callerVars => (CallerTypes => CallerTypes')
    /\ UNCHANGED heapVars => (HeapTypes => HeapTypes')
    /\ UNCHANGED listVars => (ListTypes => ListTypes')
    /\ UNCHANGED macVars => (MacTypes => MacTypes')
    /\ UNCHANGED kmsgVars => (KmsgTypes => KmsgTypes')
    /\ UNCHANGED <<calls, corrupt, histVars>> => (HistTypes => HistTypes')
<1>1. UNCHANGED callerVars => (CallerTypes => CallerTypes')
  BY DEF callerVars, CallerTypes
<1>2. UNCHANGED heapVars => (HeapTypes => HeapTypes')
  BY DEF heapVars, HeapTypes
<1>3. UNCHANGED listVars => (ListTypes => ListTypes')
  BY DEF listVars, ListTypes
<1>4. UNCHANGED macVars => (MacTypes => MacTypes')
  BY DEF macVars, MacTypes
<1>5. UNCHANGED kmsgVars => (KmsgTypes => KmsgTypes')
  BY DEF kmsgVars, KmsgTypes
<1>6. UNCHANGED <<calls, corrupt, histVars>> => (HistTypes => HistTypes')
  BY DEF histVars, HistTypes
<1>7. QED
  BY <1>1, <1>2, <1>3, <1>4, <1>5, <1>6

\* An access to a freed node changes nothing but corrupt.
LEMMA TypeCorrupt ==
    ASSUME TypeOK, corrupt' = TRUE,
           UNCHANGED <<callerVars, heapVars, listVars, macVars, kmsgVars, calls, histVars>>
    PROVE  TypeOK'
<1>1. HistTypes'
  BY DEF TypeOK, HistTypes, histVars
<1>2. QED
  BY <1>1, TypeFrame DEF TypeOK

\* co_list_extract keeps the list a list of nodes.
LEMMA TypeExtract ==
    ASSUME TypeOK, NEW n \in Nodes, co_list_extract(n)
    PROVE  ListTypes'
<1>1. CASE n \in Linked
  <2>1. Pos(n) \in 1 .. Len(tx_head)
    BY <1>1 DEF Pos, Linked
  <2>2. tx_head \in Seq(Nodes)
    BY DEF TypeOK, ListTypes
  <2>3. RemoveAt(tx_head, Pos(n)) \in Seq(Nodes)
    BY <2>1, <2>2, RemoveAtFacts
  <2>4. Successor(Pos(n)) \in Nodes \cup {None}
    BY <2>1, <2>2 DEF Successor
  <2>5. QED
    BY <1>1, <2>3, <2>4 DEF co_list_extract, TypeOK, ListTypes
<1>2. CASE n \notin Linked
  BY <1>2, TypeFrame DEF co_list_extract, TypeOK
<1>3. QED
  BY <1>1, <1>2

\* The steps of rw_msg_send keep the types.
LEMMA TypeCaller ==
    ASSUME TypeOK, NEW c \in Callers,
           \/ \E r \in Reqs, n \in Nodes : rw_msg_send(c, r, n)
           \/ caller_step(c)
    PROVE  TypeOK'
<1>1. ASSUME NEW r \in Reqs, NEW n \in Nodes, rw_msg_send(c, r, n)
      PROVE  TypeOK'
  <2>1. CASE ~(PushTouches(n) \subseteq live)
    BY <1>1, <2>1, TypeCorrupt DEF rw_msg_send, Touching
  <2>2. CASE PushTouches(n) \subseteq live
    <3>0. link_node(c, r, n)
      BY <1>1, <2>2 DEF rw_msg_send, Touching
    <3>1. CallerTypes'
      BY <3>0 DEF link_node, TypeOK, CallerTypes, HistTypes
    <3>2. HeapTypes'
      BY <3>0 DEF link_node, TypeOK, HeapTypes
    <3>3. ListTypes'
      BY <3>0 DEF link_node, TypeOK, ListTypes
    <3>4. MacTypes' /\ KmsgTypes'
      BY <3>0, TypeFrame DEF link_node, TypeOK
    <3>5. HistTypes'
      <4>1. corrupt' \in BOOLEAN
        BY <1>1, <2>2 DEF rw_msg_send, Touching, TypeOK, HistTypes
      <4>2. QED
        BY <3>0, <4>1 DEF link_node, TypeOK, HistTypes
    <3>6. QED
      BY <3>1, <3>2, <3>3, <3>4, <3>5 DEF TypeOK
  <2>3. QED
    BY <2>1, <2>2
<1>2. CASE send_posted(c)
  <2>1. CallerTypes'
    BY <1>2 DEF send_posted, TypeOK, CallerTypes
  <2>2. [id |-> req[c], call |-> call[c]] \in Msg
    BY DEF TypeOK, CallerTypes, Msg
  <2>3. MacTypes'
    BY <1>2, <2>2 DEF send_posted, TypeOK, MacTypes
  <2>4. QED
    BY <1>2, <2>1, <2>3, TypeFrame DEF send_posted, TypeOK
<1>3. ASSUME NEW value \in {0, -1}, free_node(c, value)
      PROVE  CallerTypes' /\ HeapTypes' /\ ListTypes' /\ MacTypes' /\ KmsgTypes'
  <2>1. CallerTypes'
    BY <1>3 DEF free_node, TypeOK, CallerTypes
  <2>2. HeapTypes'
    BY <1>3 DEF free_node, TypeOK, HeapTypes
  <2>3. ListTypes'
    BY <1>3 DEF free_node, TypeOK, ListTypes
  <2>4. QED
    BY <1>3, <2>1, <2>2, <2>3, TypeFrame DEF free_node, TypeOK
<1>4. CASE send_failed(c)
  <2>1. HistTypes'
    BY <1>4 DEF send_failed, free_node, TypeOK, HistTypes
  <2>2. QED
    BY <1>3, <1>4, <2>1 DEF send_failed, TypeOK
<1>5. CASE get_semaphore(c)
  <2>1. HistTypes'
    BY <1>5 DEF get_semaphore, free_node, TypeOK, HistTypes
  <2>2. QED
    BY <1>3, <1>5, <2>1 DEF get_semaphore, TypeOK
<1>6. CASE get_semaphore_timeout(c)
  <2>1. CallerTypes'
    BY <1>6 DEF get_semaphore_timeout, TypeOK, CallerTypes
  <2>2. QED
    BY <1>6, <2>1, TypeFrame DEF get_semaphore_timeout, TypeOK
<1>7. CASE timeout_extract(c)
  <2>1. CASE ~(ExtractTouches(ptr[c]) \subseteq live)
    BY <1>7, <2>1, TypeCorrupt DEF timeout_extract, Touching
  <2>2. CASE ExtractTouches(ptr[c]) \subseteq live
    <3>1. CallerTypes'
      BY <1>7, <2>2 DEF timeout_extract, Touching, TypeOK, CallerTypes
    <3>2. co_list_extract(ptr[c])
      BY <1>7, <2>2 DEF timeout_extract, Touching
    <3>3. ListTypes'
      <4>1. CASE ptr[c] \in Nodes
        BY <3>2, <4>1, TypeExtract
      <4>2. CASE ptr[c] \notin Nodes
        <5>1. ptr[c] \notin Linked
          BY <4>2 DEF Linked, TypeOK, ListTypes
        <5>2. QED
          BY <3>2, <5>1, TypeFrame DEF co_list_extract, TypeOK
      <4>3. QED
        BY <4>1, <4>2
    <3>4. QED
      BY <1>7, <2>2, <3>1, <3>3, TypeFrame DEF timeout_extract, Touching, TypeOK
  <2>3. QED
    BY <2>1, <2>2
<1>8. CASE timeout_free(c)
  <2>1. HistTypes'
    BY <1>8 DEF timeout_free, free_node, TypeOK, HistTypes
  <2>2. QED
    BY <1>3, <1>8, <2>1 DEF timeout_free, TypeOK
<1>9. QED
  BY <1>1, <1>2, <1>4, <1>5, <1>6, <1>7, <1>8 DEF caller_step

\* The steps of the MAC and of mr_kmsg_fwd keep the types.
LEMMA TypeMac ==
    ASSUME TypeOK, mac_step
    PROVE  TypeOK'
<1>1. ASSUME NEW i \in 1 .. Len(mac), mac_confirm(i)
      PROVE  TypeOK'
  <2>1. mac \in Seq(Msg) /\ rx_head \in Seq(Msg)
    BY DEF TypeOK, MacTypes
  <2>2. RemoveAt(mac, i) \in Seq(Msg)
    BY <2>1, RemoveAtFacts
  <2>3. Append(rx_head, mac[i]) \in Seq(Msg)
    BY <2>1
  <2>4. MacTypes'
    BY <1>1, <2>2, <2>3 DEF mac_confirm, TypeOK, MacTypes
  <2>5. QED
    BY <1>1, <2>4, TypeFrame DEF mac_confirm, TypeOK
<1>2. CASE mac_indication
  <2>1. NoMsg \in Msg
    BY DEF NoMsg, Msg
  <2>2. MacTypes'
    BY <1>2, <2>1 DEF mac_indication, TypeOK, MacTypes
  <2>3. QED
    BY <1>2, <2>2, TypeFrame DEF mac_indication, TypeOK
<1>3. CASE app_set_sema
  <2>1. MacTypes'
    BY <1>3 DEF app_set_sema, TypeOK, MacTypes
  <2>2. QED
    BY <1>3, <2>1, TypeFrame DEF app_set_sema, TypeOK
<1>4. QED
  BY <1>1, <1>2, <1>3 DEF mac_step

\* The steps of the kmsgbk thread keep the types.
LEMMA TypeKmsg ==
    ASSUME TypeOK, kmsg_thread
    PROVE  TypeOK'
<1>1. CASE kmsg_wait
  <2>1. MacTypes' /\ KmsgTypes'
    BY <1>1 DEF kmsg_wait, TypeOK, MacTypes, KmsgTypes
  <2>2. QED
    BY <1>1, <2>1, TypeFrame DEF kmsg_wait, TypeOK
<1>2. CASE recv_pop
  <2>1. NoMsg \in Msg
    BY DEF NoMsg, Msg
  <2>2. rx_head # <<>> => Head(rx_head) \in Msg /\ Tail(rx_head) \in Seq(Msg)
    BY DEF TypeOK, MacTypes
  <2>3. MacTypes' /\ KmsgTypes'
    BY <1>2, <2>1, <2>2 DEF recv_pop, TypeOK, MacTypes, KmsgTypes
  <2>4. QED
    BY <1>2, <2>3, TypeFrame DEF recv_pop, TypeOK
<1>3. ASSUME NEW n \in Nodes \cup {None}, recv_goto(n), UNCHANGED corrupt
      PROVE  TypeOK'
  <2>1. KmsgTypes'
    BY <1>3 DEF recv_goto, TypeOK, KmsgTypes
  <2>2. QED
    BY <1>3, <2>1, TypeFrame DEF recv_goto, TypeOK
<1>4. CASE recv_pick
  <2>1. (IF tx_head = <<>> THEN None ELSE Head(tx_head)) \in Nodes \cup {None}
    BY DEF TypeOK, ListTypes
  <2>2. QED
    BY <1>3, <1>4, <2>1 DEF recv_pick
<1>5. ASSUME recv_match, UNCHANGED corrupt
      PROVE  TypeOK'
  <2>1. KmsgTypes'
    BY <1>5 DEF recv_match, TypeOK, KmsgTypes
  <2>2. QED
    BY <1>5, <2>1, TypeFrame DEF recv_match, TypeOK
<1>6. CASE recv_compare
  BY <1>5, <1>6, TypeCorrupt DEF recv_compare, Touching
<1>7. CASE recv_next
  <2>1. CASE {k_cur} \subseteq live
    <3>1. k_cur \in Nodes
      BY <2>1 DEF TypeOK, HeapTypes
    <3>2. co_list_next(k_cur) \in Nodes \cup {None}
      <4>1. CASE k_cur \in Linked
        <5>1. Pos(k_cur) \in 1 .. Len(tx_head)
          BY <4>1 DEF Pos, Linked
        <5>2. QED
          BY <4>1, <5>1 DEF co_list_next, Successor, TypeOK, ListTypes
      <4>2. CASE k_cur \notin Linked
        BY <3>1, <4>2 DEF co_list_next, TypeOK, ListTypes
      <4>3. QED
        BY <4>1, <4>2
    <3>3. recv_goto(co_list_next(k_cur)) /\ UNCHANGED corrupt
      BY <1>7, <2>1 DEF recv_next, Touching
    <3>4. QED
      BY <1>3, <3>2, <3>3
  <2>2. CASE ~({k_cur} \subseteq live)
    BY <1>7, <2>2, TypeCorrupt DEF recv_next, Touching
  <2>3. QED
    BY <2>1, <2>2
<1>8. CASE recv_extract
  <2>1. CASE ExtractTouches(k_cur) \subseteq live
    <3>1. co_list_extract(k_cur)
      BY <1>8, <2>1 DEF recv_extract, Touching
    <3>2. ListTypes'
      <4>1. CASE k_cur \in Nodes
        BY <3>1, <4>1, TypeExtract
      <4>2. CASE k_cur \notin Nodes
        <5>1. k_cur \notin Linked
          BY <4>2 DEF Linked, TypeOK, ListTypes
        <5>2. QED
          BY <3>1, <5>1, TypeFrame DEF co_list_extract, TypeOK
      <4>3. QED
        BY <4>1, <4>2
    <3>3. KmsgTypes'
      BY <1>8, <2>1 DEF recv_extract, Touching, TypeOK, KmsgTypes
    <3>4. QED
      BY <1>8, <2>1, <3>2, <3>3, TypeFrame DEF recv_extract, Touching, TypeOK
  <2>2. CASE ~(ExtractTouches(k_cur) \subseteq live)
    BY <1>8, <2>2, TypeCorrupt DEF recv_extract, Touching
  <2>3. QED
    BY <2>1, <2>2
<1>9. CASE recv_copy
  <2>1. CASE {k_cur} \subseteq live
    <3>1. k_msg.call \in Nat
      BY DEF TypeOK, KmsgTypes, Msg
    <3>2. CallerTypes' /\ KmsgTypes'
      BY <1>9, <2>1, <3>1 DEF recv_copy, Touching, TypeOK, CallerTypes, KmsgTypes
    <3>3. QED
      BY <1>9, <2>1, <3>2, TypeFrame DEF recv_copy, Touching, TypeOK
  <2>2. CASE ~({k_cur} \subseteq live)
    BY <1>9, <2>2, TypeCorrupt DEF recv_copy, Touching
  <2>3. QED
    BY <2>1, <2>2
<1>10. CASE recv_signal
  <2>1. CASE {k_cur} \subseteq live
    <3>1. HeapTypes'
      BY <1>10, <2>1 DEF recv_signal, Touching, TypeOK, HeapTypes
    <3>2. KmsgTypes'
      BY <1>10, <2>1 DEF recv_signal, Touching, TypeOK, KmsgTypes
    <3>3. QED
      BY <1>10, <2>1, <3>1, <3>2, TypeFrame DEF recv_signal, Touching, TypeOK
  <2>2. CASE ~({k_cur} \subseteq live)
    BY <1>10, <2>2, TypeCorrupt DEF recv_signal, Touching
  <2>3. QED
    BY <2>1, <2>2
<1>11. CASE recv_handle
  <2>1. KmsgTypes'
    BY <1>11 DEF recv_handle, TypeOK, KmsgTypes
  <2>2. QED
    BY <1>11, <2>1, TypeFrame DEF recv_handle, TypeOK
<1>12. QED
  BY <1>1, <1>2, <1>4, <1>6, <1>7, <1>8, <1>9, <1>10, <1>11 DEF kmsg_thread

\* Every step keeps the types.
LEMMA TypeStep == TypeOK /\ [Next]_vars => TypeOK'
<1> SUFFICES ASSUME TypeOK, [Next]_vars
             PROVE  TypeOK'
  OBVIOUS
<1>1. CASE Next
  BY <1>1, TypeCaller, TypeMac, TypeKmsg DEF Next
<1>2. CASE UNCHANGED vars
  BY <1>2, TypeFrame DEF vars, TypeOK
<1>3. QED
  BY <1>1, <1>2

(***************************************************************************)
(* Type correctness: in particular app_sema and the semaphores of the      *)
(* nodes stay binary, and the lists only hold nodes and messages.          *)
(***************************************************************************)
THEOREM TypeCorrect == Spec => []TypeOK
BY TypeInit, TypeStep, PTL DEF Spec
-----------------------------------------------------------------------------
\* Every step keeps the wakeup: a message is linked before app_sema is set,
\* and rwnx_recv_msg returns to the wait only after it found the list empty.
LEMMA WakeupStep == NoLostWakeup /\ [Next]_vars => NoLostWakeup'
<1> SUFFICES ASSUME NoLostWakeup, [Next]_vars
             PROVE  NoLostWakeup'
  OBVIOUS
<1>1. ASSUME UNCHANGED <<macVars, kmsgVars>>
      PROVE  NoLostWakeup'
  BY <1>1 DEF NoLostWakeup, macVars, kmsgVars
<1>2. ASSUME UNCHANGED macVars, k_pc' # "wait"
      PROVE  NoLostWakeup'
  BY <1>2 DEF NoLostWakeup
<1>3. ASSUME NEW c \in Callers, NEW r \in Reqs, NEW n \in Nodes, rw_msg_send(c, r, n)
      PROVE  NoLostWakeup'
  BY <1>1, <1>3 DEF rw_msg_send, Touching, link_node
<1>4. ASSUME NEW c \in Callers, caller_step(c)
      PROVE  NoLostWakeup'
  <2>1. CASE send_posted(c)
    BY <2>1 DEF send_posted, NoLostWakeup, kmsgVars
  <2>2. CASE timeout_extract(c)
    BY <1>1, <2>2 DEF timeout_extract, Touching
  <2>3. CASE send_failed(c) \/ get_semaphore(c) \/ get_semaphore_timeout(c) \/ timeout_free(c)
    BY <1>1, <2>3 DEF send_failed, get_semaphore, get_semaphore_timeout, timeout_free, free_node
  <2>4. QED
    BY <1>4, <2>1, <2>2, <2>3 DEF caller_step
<1>5. CASE mac_step
  BY <1>5 DEF mac_step, mac_confirm, mac_indication, app_set_sema, NoLostWakeup
<1>6. CASE kmsg_thread
  <2>1. CASE kmsg_wait \/ recv_pop
    BY <2>1 DEF kmsg_wait, recv_pop, NoLostWakeup
  <2>2. CASE recv_pick \/ recv_handle
    BY <1>2, <2>2 DEF recv_pick, recv_goto, recv_handle
  <2>3. CASE recv_compare \/ recv_next \/ recv_extract \/ recv_copy \/ recv_signal
    BY <1>1, <1>2, <2>3 DEF recv_compare, recv_match, recv_next, recv_goto, recv_extract,
       recv_copy, recv_signal, Touching
  <2>4. QED
    BY <1>6, <2>1, <2>2, <2>3 DEF kmsg_thread
<1>7. CASE UNCHANGED vars
  BY <1>1, <1>7 DEF vars
<1>8. QED
  BY <1>3, <1>4, <1>5, <1>6, <1>7 DEF Next

(***************************************************************************)
(* The kmsgbk thread never sleeps over a message of the MAC, for any       *)
(* number of messages that mr_kmsg_fwd links while it runs, although       *)
(* app_sema counts at most one of them.                                    *)
(***************************************************************************)
THEOREM NoLostWakeupCorrect == Spec => []NoLostWakeup
<1>1. Init => NoLostWakeup
  BY DEF Init, NoLostWakeup
<1>2. QED
  BY <1>1, WakeupStep, PTL DEF Spec
-----------------------------------------------------------------------------
\* Linking a node that is not in the list adds it, and only once.
LEMMA AppendEffect ==
    ASSUME TypeOK, WellLinked, NEW n \in Nodes, n \notin Linked, tx_head' = Append(tx_head, n)
    PROVE  /\ Linked' = Linked \cup {n}
           /\ NoRepeat(tx_head')
<1>1. tx_head \in Seq(Nodes) /\ Len(tx_head) \in Nat
  BY DEF TypeOK, ListTypes
<1>2. /\ Len(tx_head') = Len(tx_head) + 1
      /\ \A i \in 1 .. Len(tx_head) : tx_head'[i] = tx_head[i]
      /\ tx_head'[Len(tx_head) + 1] = n
  BY <1>1
<1>3. \A i \in 1 .. Len(tx_head) : tx_head[i] # n
  BY DEF Linked
<1>4. Linked' = Linked \cup {n}
  <2>1. ASSUME NEW i \in 1 .. Len(tx_head')
        PROVE  tx_head'[i] \in Linked \cup {n}
    BY <1>1, <1>2 DEF Linked
  <2>2. ASSUME NEW i \in 1 .. Len(tx_head)
        PROVE  tx_head[i] \in Linked'
    BY <1>1, <1>2 DEF Linked
  <2>3. n \in Linked'
    BY <1>1, <1>2 DEF Linked
  <2>4. QED
    BY <2>1, <2>2, <2>3 DEF Linked
<1>5. NoRepeat(tx_head')
  BY <1>1, <1>2, <1>3 DEF WellLinked, NoRepeat
<1>6. QED
  BY <1>4, <1>5

\* Extracting a node unlinks it and nothing else; the next pointer that it
\* keeps leads to a node that is linked.
LEMMA ExtractEffect ==
    ASSUME TypeOK, WellLinked, NEW n \in Nodes, co_list_extract(n)
    PROVE  /\ Linked' = Linked \ {n}
           /\ NoRepeat(tx_head')
           /\ \A m \in Nodes : m # n => stale'[m] = stale[m]
           /\ n \notin Linked => stale' = stale
           /\ n \in Linked => stale'[n] \in Linked \cup {None}
<1>1. CASE n \in Linked
  <2>1. Pos(n) \in 1 .. Len(tx_head) /\ tx_head[Pos(n)] = n
    BY <1>1 DEF Pos, Linked
  <2>2. tx_head \in Seq(Nodes)
    BY DEF TypeOK, ListTypes
  <2>3. tx_head' = RemoveAt(tx_head, Pos(n)) /\ stale' = [stale EXCEPT ![n] = Successor(Pos(n))]
    BY <1>1 DEF co_list_extract
  <2>4. NoRepeat(tx_head)
    BY DEF WellLinked
  <2>5. Elems(tx_head') = Elems(tx_head) \ {n} /\ NoRepeat(tx_head')
    BY <2>1, <2>2, <2>3, <2>4, RemoveAtRange
  <2>6. Linked' = Linked \ {n}
    BY <2>5 DEF Linked, Elems
  <2>7. Successor(Pos(n)) \in Linked \cup {None}
    BY <2>1, <2>2 DEF Successor, Linked
  <2>8. QED
    BY <1>1, <2>3, <2>5, <2>6, <2>7 DEF TypeOK, ListTypes
<1>2. CASE n \notin Linked
  <2>1. UNCHANGED <<tx_head, stale>>
    BY <1>2 DEF co_list_extract, listVars
  <2>2. Linked' = Linked
    BY <2>1 DEF Linked
  <2>3. QED
    BY <1>2, <2>1, <2>2 DEF WellLinked
<1>3. QED
  BY <1>1, <1>2

\* Before a fault, no list operation meets a freed node.
LEMMA TouchedLive ==
    ASSUME TypeOK, NodeInv
    PROVE  /\ \A n \in Nodes : n \notin live => n \notin Linked
           /\ \A n : PushTouches(n) \subseteq live
           /\ \A n : ExtractTouches(n) \subseteq live
           /\ k_pc \in Walking => k_cur \in live /\ k_cur \in Nodes
<1>1. Linked \subseteq live
  BY DEF NodeInv, WellLinked
<1>2. \A n : PushTouches(n) \subseteq Linked
  <2>1. TAKE n
  <2>2. tx_head \in Seq(Nodes) /\ Len(tx_head) \in Nat
    BY DEF TypeOK, ListTypes
  <2>3. QED
    BY <2>2 DEF PushTouches, Linked
<1>3. \A n : ExtractTouches(n) \subseteq Linked
  <2>1. TAKE n
  <2>2. CASE n \in Linked
    <3>1. Pos(n) \in 1 .. Len(tx_head)
      BY <2>2 DEF Pos, Linked
    <3>2. Len(tx_head) \in Nat
      BY DEF TypeOK, ListTypes
    <3>3. QED
      BY <2>2, <3>1, <3>2 DEF ExtractTouches, Linked
  <2>3. CASE n \notin Linked
    BY <2>3 DEF ExtractTouches
  <2>4. QED
    BY <2>2, <2>3
<1>4. k_pc \in Walking => k_cur \in live /\ k_cur \in Nodes
  BY DEF NodeInv, Walk, Confined
<1>5. QED
  BY <1>1, <1>2, <1>3, <1>4

\* A step that leaves the callers, the heap, the list and the position of the
\* walk alone keeps the invariant.
LEMMA NodeFrame ==
    ASSUME NodeInv, UNCHANGED <<pc, ptr, heapVars, listVars, k_pc, k_cur, corrupt>>
    PROVE  NodeInv'
<1>1. Linked' = Linked
  BY DEF Linked, listVars
<1>2. Owned'
  BY <1>1 DEF NodeInv, Owned, heapVars
<1>3. WellLinked'
  BY <1>1 DEF NodeInv, WellLinked, heapVars, listVars
<1>4. Walk'
  BY <1>1 DEF NodeInv, Walk, Confined, heapVars, listVars
<1>5. QED
  BY <1>2, <1>3, <1>4 DEF NodeInv

\* rw_msg_send links a fresh node; the walk may come to it.
LEMMA NodeSend ==
    ASSUME TypeOK, NodeInv, NEW c \in Callers, NEW r \in Reqs, NEW n \in Nodes,
           rw_msg_send(c, r, n)
    PROVE  NodeInv'
<1>1. link_node(c, r, n) /\ UNCHANGED corrupt
  BY TouchedLive DEF rw_msg_send, Touching
<1>2. n \notin live /\ n \notin Linked /\ pc[c] = "idle"
  BY TouchedLive DEF rw_msg_send
<1>3. Linked' = Linked \cup {n} /\ NoRepeat(tx_head')
  BY <1>1, <1>2, AppendEffect DEF link_node, NodeInv
<1>4. /\ live' = live \cup {n}
      /\ fields'[n].sema = 0
      /\ \A m \in Nodes : m # n => fields'[m] = fields[m]
  BY <1>1 DEF link_node, TypeOK, HeapTypes
<1>5. /\ pc'[c] = "linked" /\ ptr'[c] = n
      /\ \A d \in Callers : d # c => pc'[d] = pc[d] /\ ptr'[d] = ptr[d]
  BY <1>1 DEF link_node, TypeOK, CallerTypes
<1>6. Linked \subseteq Nodes
  BY DEF Linked, TypeOK, ListTypes
<1>7. Owned'
  BY <1>2, <1>3, <1>4, <1>5 DEF NodeInv, Owned
<1>8. WellLinked'
  BY <1>2, <1>3, <1>4, <1>6 DEF NodeInv, WellLinked
<1>9. Walk'
  <2>1. UNCHANGED <<k_pc, k_cur, stale>>
    BY <1>1 DEF link_node, kmsgVars
  <2>2. ASSUME k_pc \in Walking
        PROVE  \E R \in SUBSET Nodes : Confined(R)'
    <3>1. PICK R \in SUBSET Nodes : Confined(R)
      BY <2>2 DEF NodeInv, Walk
    <3>2. Confined(R \cup {n})'
      BY <1>2, <1>3, <1>4, <2>1, <3>1 DEF Confined
    <3>3. QED
      BY <3>2
  <2>3. k_pc \in {"copy", "signal"} => k_cur \notin Linked'
    <3>1. k_pc \in {"copy", "signal"} => k_cur \in live
      BY TouchedLive DEF Walking
    <3>2. QED
      BY <1>2, <1>3, <3>1 DEF NodeInv, Walk
  <2>4. QED
    BY <2>1, <2>2, <2>3 DEF Walk
<1>10. QED
  BY <1>1, <1>7, <1>8, <1>9 DEF NodeInv

\* Freeing a node that is not linked keeps the invariant when rwnx_recv_msg
\* is not walking, or when the node was given: the walk cannot come to it.
LEMMA NodeFree ==
    ASSUME TypeOK, NodeInv, NEW c \in Callers, NEW value, free_node(c, value),
           pc[c] # "idle", ptr[c] \notin Linked,
           k_pc \in Walking => fields[ptr[c]].sema = 1
    PROVE  NodeInv'
<1> DEFINE p == ptr[c]
<1>1. p \in live /\ p \in Nodes
  BY DEF NodeInv, Owned, TypeOK, HeapTypes
<1>2. UNCHANGED <<tx_head, k_pc, k_cur, corrupt>>
  BY DEF free_node, kmsgVars
<1>3. Linked' = Linked
  BY <1>2 DEF Linked
<1>4. /\ live' = live \ {p}
      /\ \A m \in Nodes : m # p => fields'[m] = fields[m] /\ stale'[m] = stale[m]
  BY <1>1 DEF free_node, TypeOK, HeapTypes, ListTypes
<1>5. /\ pc'[c] = "idle"
      /\ \A d \in Callers : d # c => pc'[d] = pc[d] /\ ptr'[d] = ptr[d]
  BY DEF free_node, TypeOK, CallerTypes
<1>6. Linked \subseteq Nodes
  BY DEF Linked, TypeOK, ListTypes
<1>7. Owned'
  <2>1. \A d \in Callers : d # c /\ pc[d] # "idle" => ptr[d] # p
    BY DEF NodeInv, Owned
  <2>2. QED
    BY <1>3, <1>4, <1>5, <2>1 DEF NodeInv, Owned
<1>8. WellLinked'
  BY <1>2, <1>3, <1>4, <1>6 DEF NodeInv, WellLinked
<1>9. Walk'
  <2>1. ASSUME k_pc \in Walking
        PROVE  \E R \in SUBSET Nodes : Confined(R)'
    <3>1. PICK R \in SUBSET Nodes : Confined(R)
      BY <2>1 DEF NodeInv, Walk
    <3>2. p \notin R
      BY <2>1, <3>1 DEF Confined
    <3>3. Confined(R)'
      BY <1>2, <1>3, <1>4, <3>1, <3>2 DEF Confined
    <3>4. QED
      BY <3>3
  <2>2. QED
    BY <1>2, <1>3, <2>1 DEF NodeInv, Walk
<1>10. QED
  BY <1>2, <1>7, <1>8, <1>9 DEF NodeInv

\* Extracting a node leaves the walk confined to the same set.
LEMMA NodeExtract ==
    ASSUME TypeOK, NodeInv, NEW n \in Nodes, co_list_extract(n), UNCHANGED heapVars
    PROVE  /\ Linked' = Linked \ {n}
           /\ WellLinked'
           /\ UNCHANGED k_cur => \A R \in SUBSET Nodes : Confined(R) => Confined(R)'
<1>1. /\ Linked' = Linked \ {n}
      /\ NoRepeat(tx_head')
      /\ \A m \in Nodes : m # n => stale'[m] = stale[m]
      /\ n \notin Linked => stale' = stale
      /\ n \in Linked => stale'[n] \in Linked \cup {None}
  BY ExtractEffect DEF NodeInv
<1>2. WellLinked'
  BY <1>1 DEF NodeInv, WellLinked, heapVars
<1>3. ASSUME UNCHANGED k_cur, NEW R \in SUBSET Nodes, Confined(R)
      PROVE  Confined(R)'
  <2>1. k_cur' \in R /\ Linked' \subseteq R
    BY <1>1, <1>3 DEF Confined
  <2>2. ASSUME NEW m \in R
        PROVE  /\ m \in live' /\ fields'[m].sema = 0
               /\ m \notin Linked' => stale'[m] \in R \cup {None}
    <3>1. m \in live' /\ fields'[m].sema = 0
      BY <1>3 DEF Confined, heapVars
    <3>2. CASE m = n
      BY <1>1, <1>3, <3>1, <3>2 DEF Confined
    <3>3. CASE m # n
      BY <1>1, <1>3, <3>1, <3>3 DEF Confined
    <3>4. QED
      BY <3>1, <3>2, <3>3
  <2>3. QED
    BY <2>1, <2>2 DEF Confined
<1>4. QED
  BY <1>1, <1>2, <1>3

\* The steps of rw_msg_send keep the invariant or are a fault.
LEMMA NodeCaller ==
    ASSUME TypeOK, NodeInv, NEW c \in Callers, caller_step(c)
    PROVE  NodeInv' \/ abandoned' \/ raced'
<1>1. CASE send_posted(c)
  <2>1. /\ pc'[c] = "waiting"
        /\ \A d \in Callers : d # c => pc'[d] = pc[d]
        /\ UNCHANGED <<ptr, heapVars, listVars, k_pc, k_cur, corrupt>>
    BY <1>1 DEF send_posted, kmsgVars, TypeOK, CallerTypes
  <2>2. Linked' = Linked
    BY <2>1 DEF Linked, listVars
  <2>3. Owned'
    BY <1>1, <2>1, <2>2 DEF NodeInv, Owned, heapVars, send_posted
  <2>4. WellLinked' /\ Walk'
    BY <2>1, <2>2 DEF NodeInv, WellLinked, Walk, Confined, heapVars, listVars
  <2>5. QED
    BY <2>1, <2>3, <2>4 DEF NodeInv
<1>2. CASE send_failed(c)
  BY <1>2 DEF send_failed
<1>3. CASE get_semaphore(c)
  <2>1. ptr[c] \notin Linked /\ pc[c] # "idle" /\ fields[ptr[c]].sema = 1 /\ free_node(c, 0)
    BY <1>3 DEF get_semaphore, NodeInv, WellLinked
  <2>2. QED
    BY <2>1, NodeFree
<1>4. CASE get_semaphore_timeout(c)
  <2>1. /\ pc'[c] = "expired"
        /\ \A d \in Callers : d # c => pc'[d] = pc[d]
        /\ UNCHANGED <<ptr, heapVars, listVars, k_pc, k_cur, corrupt>>
    BY <1>4 DEF get_semaphore_timeout, kmsgVars, TypeOK, CallerTypes
  <2>2. Linked' = Linked
    BY <2>1 DEF Linked, listVars
  <2>3. Owned'
    BY <1>4, <2>1, <2>2 DEF NodeInv, Owned, heapVars, get_semaphore_timeout
  <2>4. WellLinked' /\ Walk'
    BY <2>1, <2>2 DEF NodeInv, WellLinked, Walk, Confined, heapVars, listVars
  <2>5. QED
    BY <2>1, <2>3, <2>4 DEF NodeInv
<1>5. CASE timeout_extract(c)
  <2>1. pc[c] = "expired" /\ ptr[c] \in live /\ ptr[c] \in Nodes
    BY <1>5 DEF timeout_extract, NodeInv, Owned, TypeOK, HeapTypes
  <2>2. /\ co_list_extract(ptr[c])
        /\ pc'[c] = "unlinked"
        /\ \A d \in Callers : d # c => pc'[d] = pc[d]
        /\ UNCHANGED <<ptr, heapVars, k_pc, k_cur, corrupt>>
    BY <1>5, TouchedLive DEF timeout_extract, Touching, kmsgVars, TypeOK, CallerTypes
  <2>3. /\ Linked' = Linked \ {ptr[c]}
        /\ WellLinked'
        /\ \A R \in SUBSET Nodes : Confined(R) => Confined(R)'
    BY <2>1, <2>2, NodeExtract
  <2>4. Owned'
    BY <2>1, <2>2, <2>3 DEF NodeInv, Owned, heapVars
  <2>5. Walk'
    BY <2>2, <2>3 DEF NodeInv, Walk
  <2>6. QED
    BY <2>2, <2>3, <2>4, <2>5 DEF NodeInv
<1>6. CASE timeout_free(c)
  <2>1. CASE k_pc \in Walking
    BY <1>6, <2>1 DEF timeout_free
  <2>2. CASE k_pc \notin Walking
    <3>1. ptr[c] \notin Linked /\ pc[c] # "idle" /\ free_node(c, -1)
      BY <1>6 DEF timeout_free, NodeInv, Owned
    <3>2. QED
      BY <2>2, <3>1, NodeFree
  <2>3. QED
    BY <2>1, <2>2
<1>7. QED
  BY <1>1, <1>2, <1>3, <1>4, <1>5, <1>6 DEF caller_step

\* The steps of the kmsgbk thread keep the invariant.
LEMMA NodeKmsg ==
    ASSUME TypeOK, NodeInv, kmsg_thread
    PROVE  NodeInv'
<1>1. ASSUME UNCHANGED <<pc, ptr, heapVars, listVars, corrupt>>, Walk'
      PROVE  NodeInv'
  <2>1. Linked' = Linked
    BY <1>1 DEF Linked, listVars
  <2>2. QED
    BY <1>1, <2>1 DEF NodeInv, Owned, WellLinked, heapVars, listVars
<1>2. ASSUME UNCHANGED <<pc, ptr, heapVars, listVars, corrupt>>, k_pc' \notin Walking
      PROVE  NodeInv'
  <2>1. Walk'
    BY <1>2 DEF Walk, Walking
  <2>2. QED
    BY <1>1, <1>2, <2>1
<1>3. CASE kmsg_wait
  BY <1>2, <1>3 DEF kmsg_wait, Walking, callerVars
<1>4. CASE recv_pop
  BY <1>2, <1>4 DEF recv_pop, Walking, callerVars
<1>5. CASE recv_pick
  <2>1. UNCHANGED <<pc, ptr, heapVars, listVars, corrupt>>
    BY <1>5 DEF recv_pick, recv_goto, callerVars
  <2>2. CASE tx_head = <<>>
    BY <1>2, <1>5, <2>1, <2>2 DEF recv_pick, recv_goto, Walking
  <2>3. CASE tx_head # <<>>
    <3>1. Head(tx_head) \in Linked /\ Linked \subseteq Nodes
      BY <2>3 DEF Linked, TypeOK, ListTypes
    <3>2. k_cur' = Head(tx_head) /\ k_pc' = "compare"
      BY <1>5, <2>3, <3>1, KmsgAssumption DEF recv_pick, recv_goto
    <3>3. Linked' = Linked
      BY <2>1 DEF Linked, listVars
    <3>4. Confined(Linked)'
      BY <2>1, <3>1, <3>2, <3>3 DEF Confined, NodeInv, WellLinked, heapVars
    <3>5. \E R \in SUBSET Nodes : Confined(R)'
      BY <3>1, <3>3, <3>4 DEF Confined
    <3>6. Walk'
      BY <3>2, <3>5 DEF Walk
    <3>7. QED
      BY <1>1, <2>1, <3>6
  <2>4. QED
    BY <2>2, <2>3
<1>6. CASE recv_compare
  <2>1. k_pc \in Walking
    BY <1>6 DEF recv_compare, Walking
  <2>2. /\ UNCHANGED <<pc, ptr, heapVars, listVars, k_cur, corrupt>>
        /\ k_pc' \in {"extract", "next"}
    BY <1>6, <2>1, TouchedLive DEF recv_compare, Touching, recv_match, callerVars
  <2>3. Linked' = Linked
    BY <2>2 DEF Linked, listVars
  <2>4. Walk'
    BY <2>1, <2>2, <2>3 DEF NodeInv, Walk, Confined, heapVars, listVars
  <2>5. QED
    BY <1>1, <2>2, <2>4
<1>7. CASE recv_next
  <2>1. k_pc \in Walking
    BY <1>7 DEF recv_next, Walking
  <2>2. recv_goto(co_list_next(k_cur)) /\ UNCHANGED corrupt
    BY <1>7, <2>1, TouchedLive DEF recv_next, Touching
  <2>3. UNCHANGED <<pc, ptr, heapVars, listVars, corrupt>>
    BY <2>2 DEF recv_goto, callerVars
  <2>4. CASE co_list_next(k_cur) = None
    BY <1>2, <2>2, <2>3, <2>4 DEF recv_goto, Walking
  <2>5. CASE co_list_next(k_cur) # None
    <3>1. PICK R \in SUBSET Nodes : Confined(R)
      BY <2>1 DEF NodeInv, Walk
    <3>2. co_list_next(k_cur) \in R
      <4>1. CASE k_cur \in Linked
        <5>1. Pos(k_cur) \in 1 .. Len(tx_head) /\ tx_head \in Seq(Nodes)
          BY <4>1 DEF Pos, Linked, TypeOK, ListTypes
        <5>2. co_list_next(k_cur) \in Linked
          BY <2>5, <4>1, <5>1 DEF co_list_next, Successor, Linked
        <5>3. QED
          BY <3>1, <5>2 DEF Confined
      <4>2. CASE k_cur \notin Linked
        BY <2>5, <3>1, <4>2 DEF co_list_next, Confined
      <4>3. QED
        BY <4>1, <4>2
    <3>3. k_cur' = co_list_next(k_cur) /\ k_pc' = "compare"
      BY <2>2, <2>5 DEF recv_goto
    <3>4. Linked' = Linked
      BY <2>3 DEF Linked, listVars
    <3>5. Confined(R)'
      BY <2>3, <3>1, <3>2, <3>3, <3>4 DEF Confined, heapVars, listVars
    <3>6. Walk'
      BY <3>3, <3>5 DEF Walk
    <3>7. QED
      BY <1>1, <2>3, <3>6
  <2>6. QED
    BY <2>4, <2>5
<1>8. CASE recv_extract
  <2>1. k_pc \in Walking /\ k_cur \in Nodes
    BY <1>8, TouchedLive DEF recv_extract, Walking
  <2>2. /\ co_list_extract(k_cur)
        /\ k_pc' = "copy"
        /\ UNCHANGED <<pc, ptr, heapVars, k_cur, corrupt>>
    BY <1>8, TouchedLive DEF recv_extract, Touching, callerVars
  <2>3. /\ Linked' = Linked \ {k_cur}
        /\ WellLinked'
        /\ \A R \in SUBSET Nodes : Confined(R) => Confined(R)'
    BY <2>1, <2>2, NodeExtract
  <2>4. Walk'
    BY <2>1, <2>2, <2>3 DEF NodeInv, Walk
  <2>5. Owned'
    BY <2>2, <2>3 DEF NodeInv, Owned, heapVars
  <2>6. QED
    BY <2>2, <2>3, <2>4, <2>5 DEF NodeInv
<1>9. CASE recv_copy
  <2>1. k_pc \in Walking /\ k_pc = "copy"
    BY <1>9 DEF recv_copy, Walking
  <2>2. /\ UNCHANGED <<pc, ptr, heapVars, listVars, k_cur, corrupt>>
        /\ k_pc' = "signal"
    BY <1>9, <2>1, TouchedLive DEF recv_copy, Touching
  <2>3. Linked' = Linked
    BY <2>2 DEF Linked, listVars
  <2>4. Walk'
    BY <2>1, <2>2, <2>3 DEF NodeInv, Walk, Confined, heapVars, listVars
  <2>5. QED
    BY <1>1, <2>2, <2>4
<1>10. CASE recv_signal
  <2>1. k_pc \in Walking /\ k_cur \notin Linked /\ k_cur \in Nodes
    BY <1>10, TouchedLive DEF recv_signal, Walking, NodeInv, Walk
  <2>2. /\ UNCHANGED <<pc, ptr, live, listVars, corrupt>>
        /\ \A m \in Nodes : m # k_cur => fields'[m] = fields[m]
        /\ k_pc' = "pop"
    BY <1>10, <2>1, TouchedLive DEF recv_signal, Touching, callerVars, TypeOK, HeapTypes
  <2>3. Linked' = Linked /\ Linked \subseteq Nodes
    BY <2>2 DEF Linked, listVars, TypeOK, ListTypes
  <2>4. Owned' /\ WellLinked'
    BY <2>1, <2>2, <2>3 DEF NodeInv, Owned, WellLinked, listVars
  <2>5. Walk'
    BY <2>2 DEF Walk, Walking
  <2>6. QED
    BY <2>2, <2>4, <2>5 DEF NodeInv
<1>11. CASE recv_handle
  BY <1>2, <1>11 DEF recv_handle, Walking, callerVars
<1>12. QED
  BY <1>3, <1>4, <1>5, <1>6, <1>7, <1>8, <1>9, <1>10, <1>11 DEF kmsg_thread

\* A thread that times out during the walk has preempted the kmsgbk thread,
\* and no step takes a fault back.
LEMMA FaultStep ==
    ASSUME raced => High # {}, TypeOK, [Next]_vars
    PROVE  /\ raced' => High # {}
           /\ abandoned => abandoned'
           /\ raced => raced'
<1>1. ASSUME UNCHANGED <<abandoned, raced>>
      PROVE  (raced' => High # {}) /\ (abandoned => abandoned') /\ (raced => raced')
  BY <1>1
<1>2. ASSUME NEW c \in Callers, NEW r \in Reqs, NEW n \in Nodes, rw_msg_send(c, r, n)
      PROVE  UNCHANGED <<abandoned, raced>>
  BY <1>2 DEF rw_msg_send, Touching, link_node, histVars
<1>3. ASSUME NEW c \in Callers, caller_step(c)
      PROVE  (raced' => High # {}) /\ (abandoned => abandoned') /\ (raced => raced')
  <2>1. CASE send_posted(c) \/ get_semaphore_timeout(c)
    BY <1>1, <2>1 DEF send_posted, get_semaphore_timeout, histVars
  <2>2. CASE timeout_extract(c)
    BY <1>1, <2>2 DEF timeout_extract, Touching, histVars
  <2>3. CASE send_failed(c) \/ get_semaphore(c)
    BY <2>3 DEF send_failed, get_semaphore
  <2>4. CASE timeout_free(c)
    <3>1. k_pc \in Walking => c \in High
      BY <2>4 DEF timeout_free, MayRun, Walking
    <3>2. QED
      BY <2>4, <3>1 DEF timeout_free
  <2>5. QED
    BY <1>3, <2>1, <2>2, <2>3, <2>4 DEF caller_step
<1>4. mac_step => UNCHANGED <<abandoned, raced>>
  BY DEF mac_step, mac_confirm, mac_indication, app_set_sema, histVars
<1>5. kmsg_thread => UNCHANGED <<abandoned, raced>>
  BY DEF kmsg_thread, kmsg_wait, recv_pop, recv_pick, recv_goto, recv_compare, recv_match,
     recv_next, recv_extract, recv_copy, recv_signal, recv_handle, Touching, histVars
<1>6. CASE Next
  BY <1>1, <1>2, <1>3, <1>4, <1>5, <1>6 DEF Next
<1>7. CASE UNCHANGED vars
  BY <1>1, <1>7 DEF vars, histVars
<1>8. QED
  BY <1>6, <1>7

\* Every step keeps the inductive invariant.
LEMMA InvStep == TypeOK /\ IInv /\ [Next]_vars => IInv'
<1> SUFFICES ASSUME TypeOK, IInv, [Next]_vars
             PROVE  IInv'
  OBVIOUS
<1>1. /\ raced' => High # {}
      /\ abandoned => abandoned'
      /\ raced => raced'
  BY FaultStep DEF IInv
<1>2. ASSUME ~abandoned, ~raced
      PROVE  NodeInv' \/ abandoned' \/ raced'
  <2>1. NodeInv
    BY <1>2 DEF IInv, Faults
  <2>2. ASSUME NEW c \in Callers, NEW r \in Reqs, NEW n \in Nodes, rw_msg_send(c, r, n)
        PROVE  NodeInv'
    BY <2>1, <2>2, NodeSend
  <2>3. ASSUME NEW c \in Callers, caller_step(c)
        PROVE  NodeInv' \/ abandoned' \/ raced'
    BY <2>1, <2>3, NodeCaller
  <2>4. CASE mac_step
    <3>1. UNCHANGED <<pc, ptr, heapVars, listVars, k_pc, k_cur, corrupt>>
      BY <2>4 DEF mac_step, mac_confirm, mac_indication, app_set_sema, callerVars, kmsgVars
    <3>2. QED
      BY <2>1, <3>1, NodeFrame
  <2>5. CASE kmsg_thread
    BY <2>1, <2>5, NodeKmsg
  <2>6. CASE UNCHANGED vars
    BY <2>1, <2>6, NodeFrame DEF vars, callerVars, kmsgVars
  <2>7. QED
    BY <2>2, <2>3, <2>4, <2>5, <2>6 DEF Next
<1>3. QED
  BY <1>1, <1>2 DEF IInv, Faults

\* No call is under way and no list is linked in the beginning.
LEMMA InvInit == Init => IInv
<1> SUFFICES ASSUME Init
             PROVE  IInv
  OBVIOUS
<1>1. Linked = {}
  BY DEF Init, Linked
<1>2. Owned
  BY DEF Init, Owned
<1>3. WellLinked
  BY <1>1 DEF Init, WellLinked, NoRepeat
<1>4. Walk
  BY DEF Init, Walk, Walking
<1>5. QED
  BY <1>2, <1>3, <1>4 DEF Init, IInv, NodeInv

(***************************************************************************)
(* rwnx_recv_msg and rw_msg_send never access a freed node unless the bus  *)
(* was full for some request or a thread that can preempt kmsgbk timed out *)
(* during the walk, for every number of callers, nodes and requests.       *)
(***************************************************************************)
THEOREM CorruptionNeedsFaultCorrect == Spec => []CorruptionNeedsFault
<1>1. IInv => CorruptionNeedsFault
  BY DEF IInv, Faults, NodeInv, CorruptionNeedsFault
<1>2. QED
  BY <1>1, TypeInit, TypeStep, InvInit, InvStep, PTL DEF Spec
=============================================================================
