------------------------- MODULE ScanResultsProofs -------------------------
(***************************************************************************)
(* Proofs about ScanResults for every number of shells, readers and access *)
(* points, and without a bound that matters on scans and connections.      *)
(***************************************************************************)
EXTENDS ScanResults, FiniteSetTheorems, TLAPS

(***************************************************************************)
(* What mhdr_scanu_result_ind leaves in a set: results it held before, and *)
(* possibly one of the scan under way.                                     *)
(***************************************************************************)
LEMMA ResultInd ==
    ASSUME NEW items \in SUBSET Item, NEW b \in Bssids, NEW on \in BOOLEAN,
           scans \in Nat,
           NEW new \in mhdr_scanu_result_ind(items, b, on)
    PROVE  /\ new \in SUBSET Item
           /\ \A i \in new : i \in items \/ i.scan = scans
<1> DEFINE item == [bssid |-> b, on_channel |-> on, scan |-> scans]
           known == {i \in items : i.bssid = b}
<1>1. item \in Item /\ item.scan = scans
  BY DEF Item
<1>2. new = items \/ new = (items \ known) \cup {item}
  BY DEF mhdr_scanu_result_ind
<1> HIDE DEF item, known
<1>3. known \subseteq items
  BY DEF known
<1>4. QED
  BY <1>1, <1>2, <1>3

(***************************************************************************)
(* Type correctness                                                        *)
(***************************************************************************)
LEMMA TypeInit == Init => TypeOK
<1> SUFFICES ASSUME Init
             PROVE  TypeOK
  OBVIOUS
<1>1. res \in [Shells -> SUBSET Item] /\ ref \in [Shells -> Nat]
  BY DEF Init
<1>2. QED
  BY <1>1 DEF Init, TypeOK

LEMMA TypeRelease ==
    ASSUME TypeOK, NEW p \in Shells \cup {None},
           release_keep(p) \/ release_later(p) \/ release_last(p)
    PROVE  /\ alloc' \subseteq Shells
           /\ ref' \in [Shells -> Nat]
           /\ res' \in [Shells -> SUBSET Item]
<1>1. CASE release_keep(p)
  BY <1>1 DEF TypeOK, release_keep, heap
<1>2. CASE release_later(p)
  <2>1. p \in Shells /\ ref[p] \in Nat /\ ref[p] > 1
    BY <1>2 DEF release_later, TypeOK
  <2>2. ref[p] - 1 \in Nat
    BY <2>1
  <2>3. QED
    BY <1>2, <2>1, <2>2 DEF release_later, TypeOK
<1>3. CASE release_last(p)
  BY <1>3 DEF release_last, sr_free_all, TypeOK
<1>4. QED
  BY <1>1, <1>2, <1>3

LEMMA TypeKmsgbk == TypeOK /\ kmsgbk => TypeOK'
<1> SUFFICES ASSUME TypeOK, kmsgbk
             PROVE  TypeOK'
  OBVIOUS
<1>1. ASSUME NEW b \in Bssids, NEW on \in BOOLEAN, result_ind_add(b, on)
      PROVE  TypeOK'
  <2>1. res[scan_rst_set_ptr] \in SUBSET Item /\ scan_rst_set_ptr \in Shells
    BY <1>1 DEF result_ind_add, TypeOK
  <2>2. PICK items \in mhdr_scanu_result_ind(res[scan_rst_set_ptr], b, on) :
            res' = [res EXCEPT ![scan_rst_set_ptr] = items]
    BY <1>1 DEF result_ind_add
  <2>3. items \in SUBSET Item
    BY <2>1, ResultInd DEF TypeOK
  <2>4. res' \in [Shells -> SUBSET Item]
    BY <2>1, <2>2, <2>3 DEF TypeOK
  <2>5. QED
    BY <1>1, <2>4 DEF result_ind_add, TypeOK, shared, threads, bounds, history
<1>2. ASSUME NEW b \in Bssids, NEW on \in BOOLEAN, result_ind_new(b, on)
      PROVE  TypeOK'
  <2> DEFINE old == IF ToFlush THEN {scan_rst_set_ptr} ELSE {}
             ref0 == [p \in Shells |-> IF p \in old THEN 0 ELSE ref[p]]
             res0 == [p \in Shells |-> IF p \in old THEN {} ELSE res[p]]
  <2>1. ref0 \in [Shells -> Nat] /\ res0 \in [Shells -> SUBSET Item]
    BY DEF TypeOK
  <2>2. /\ scan_rst_set_ptr' \in Shells \cup {None}
        /\ alloc' \subseteq Shells
        /\ ref' \in [Shells -> Nat]
        /\ res' \in [Shells -> SUBSET Item]
    <3>1. CASE \E p \in Shells \ (alloc \ old) :
                  \E items \in mhdr_scanu_result_ind({}, b, on) :
                     /\ scan_rst_set_ptr' = p
                     /\ alloc' = (alloc \ old) \cup {p}
                     /\ ref' = [ref0 EXCEPT ![p] = 0]
                     /\ res' = [res0 EXCEPT ![p] = items]
      <4>1. PICK p \in Shells \ (alloc \ old) :
                 \E items \in mhdr_scanu_result_ind({}, b, on) :
                     /\ scan_rst_set_ptr' = p
                     /\ alloc' = (alloc \ old) \cup {p}
                     /\ ref' = [ref0 EXCEPT ![p] = 0]
                     /\ res' = [res0 EXCEPT ![p] = items]
        BY <3>1
      <4>2. PICK items \in mhdr_scanu_result_ind({}, b, on) :
                     /\ scan_rst_set_ptr' = p
                     /\ alloc' = (alloc \ old) \cup {p}
                     /\ ref' = [ref0 EXCEPT ![p] = 0]
                     /\ res' = [res0 EXCEPT ![p] = items]
        BY <4>1
      <4>3. items \in SUBSET Item
        BY ResultInd DEF TypeOK
      <4> HIDE DEF ref0, res0, old
      <4>4. QED
        BY <2>1, <4>2, <4>3 DEF TypeOK
    <3>2. CASE /\ scan_rst_set_ptr' = None
               /\ alloc' = alloc \ old
               /\ ref' = ref0
               /\ res' = res0
      BY <2>1, <3>2 DEF TypeOK
    <3>3. QED
      BY <1>2, <3>1, <3>2 DEF result_ind_new
  <2>3. /\ s_scan_result_upload_ptr' \in Shells \cup {None}
        /\ pulled' \in BOOLEAN
        /\ resultful_scan_cfm' = 0
    BY <1>2 DEF result_ind_new, TypeOK
  <2>4. QED
    BY <1>2, <2>2, <2>3 DEF result_ind_new, TypeOK, threads, bounds
<1>3. CASE SCANU_START_CFM
  BY <1>3 DEF SCANU_START_CFM, TypeOK, heap, threads, history
<1>4. CASE SM_CONNECT_IND
  <2>1. CASE scan_rst_set_ptr = None
    BY <1>4, <2>1 DEF SM_CONNECT_IND, TypeOK, shared, heap, threads
  <2>2. CASE scan_rst_set_ptr # None
    <3>1. /\ alloc' \subseteq Shells
          /\ ref' \in [Shells -> Nat]
          /\ res' \in [Shells -> SUBSET Item]
      <4>1. \/ release_keep(scan_rst_set_ptr)
            \/ release_later(scan_rst_set_ptr)
            \/ release_last(scan_rst_set_ptr)
        BY <1>4, <2>2 DEF SM_CONNECT_IND
      <4>2. QED
        BY <4>1, TypeRelease DEF TypeOK
    <3>2. /\ s_scan_result_upload_ptr' \in Shells \cup {None}
          /\ scan_rst_set_ptr' = None
          /\ resultful_scan_cfm' = 0
      BY <1>4, <2>2 DEF SM_CONNECT_IND, TypeOK, release_last
    <3>3. pulled' \in BOOLEAN /\ unread' \in BOOLEAN
      BY <1>4, <2>2 DEF SM_CONNECT_IND, TypeOK
    <3>4. QED
      BY <1>4, <2>2, <3>1, <3>2, <3>3 DEF SM_CONNECT_IND, TypeOK, threads
  <2>3. QED
    BY <2>1, <2>2
<1>5. QED
  BY <1>1, <1>2, <1>3, <1>4 DEF kmsgbk, SCANU_RESULT_IND

LEMMA TypeReader == TypeOK /\ reader => TypeOK'
<1> SUFFICES ASSUME TypeOK, reader
             PROVE  TypeOK'
  OBVIOUS
<1>1. ASSUME sr_get_scan_results
      PROVE  ref' \in [Shells -> Nat]
  BY <1>1 DEF sr_get_scan_results, TypeOK
<1>2. ASSUME NEW t \in Apps, bk_wlan_get_scan_ap_result(t)
      PROVE  TypeOK'
  BY <1>1, <1>2 DEF bk_wlan_get_scan_ap_result, TypeOK, Readers, shared,
     bounds, history
<1>3. CASE wpa_get_scan_rst
  BY <1>1, <1>3 DEF wpa_get_scan_rst, TypeOK, Readers, bounds, history
<1>4. CASE sta_disable
  BY <1>4 DEF sta_disable, TypeOK, Readers, shared, heap, bounds, history
<1>5. CASE wpa_hostapd_release_scan_rst
  BY <1>1, <1>5 DEF wpa_hostapd_release_scan_rst, TypeOK, Readers, shared,
     bounds, history
<1>6. ASSUME NEW t \in Readers, sr_release_scan_results(t)
      PROVE  TypeOK'
  <2>1. /\ held' \in [Readers -> Shells \cup {None}]
        /\ pc' \in [Readers -> {"idle", "test", "release"}]
        /\ held[t] \in Shells \cup {None}
    BY <1>6 DEF sr_release_scan_results, TypeOK
  <2>2. CASE UNCHANGED <<heap, scan_rst_set_ptr, resultful_scan_cfm>>
    BY <1>6, <2>1, <2>2 DEF sr_release_scan_results, Freed, TypeOK,
       heap, bounds, release_last
  <2>3. CASE ~UNCHANGED <<heap, scan_rst_set_ptr, resultful_scan_cfm>>
    <3>1. /\ alloc' \subseteq Shells
          /\ ref' \in [Shells -> Nat]
          /\ res' \in [Shells -> SUBSET Item]
      BY <1>6, <2>1, <2>3, TypeRelease DEF sr_release_scan_results
    <3>2. /\ scan_rst_set_ptr' \in Shells \cup {None}
          /\ resultful_scan_cfm' \in {0, 1}
          /\ s_scan_result_upload_ptr' \in Shells \cup {None}
          /\ corrupt' \in BOOLEAN
      BY <1>6 DEF sr_release_scan_results, release_last, Freed, TypeOK
    <3>3. QED
      BY <1>6, <2>1, <3>1, <3>2 DEF sr_release_scan_results, TypeOK, bounds
  <2>4. QED
    BY <2>2, <2>3
<1>7. QED
  BY <1>2, <1>3, <1>4, <1>5, <1>6 DEF reader

(***************************************************************************)
(* Every step of the handlers and of the readers keeps the types.          *)
(***************************************************************************)
THEOREM TypeCorrect == Spec => []TypeOK
<1>1. TypeOK /\ [Next]_vars => TypeOK'
  <2>1. TypeOK /\ Next => TypeOK'
    BY TypeKmsgbk, TypeReader DEF Next
  <2>2. TypeOK /\ UNCHANGED vars => TypeOK'
    BY DEF TypeOK, vars, shared, heap, threads, bounds, history
  <2>3. QED
    BY <2>1, <2>2
<1>2. QED
  BY <1>1, TypeInit, PTL DEF Spec

(***************************************************************************)
(* The flag and the scan of the current set                                *)
(***************************************************************************)
LEMMA FlagKmsgbk == TypeOK /\ FlagTellsScan /\ kmsgbk => FlagTellsScan'
<1> SUFFICES ASSUME TypeOK, FlagTellsScan, kmsgbk
             PROVE  FlagTellsScan'
  OBVIOUS
<1>1. ASSUME NEW b \in Bssids, NEW on \in BOOLEAN, result_ind_add(b, on)
      PROVE  FlagTellsScan'
  <2>1. /\ res[scan_rst_set_ptr] \in SUBSET Item
        /\ scan_rst_set_ptr \in Shells
        /\ resultful_scan_cfm = 0
    BY <1>1 DEF result_ind_add, ToFlush, TypeOK
  <2>2. PICK items \in mhdr_scanu_result_ind(res[scan_rst_set_ptr], b, on) :
            res' = [res EXCEPT ![scan_rst_set_ptr] = items]
    BY <1>1 DEF result_ind_add
  <2>3. \A i \in items : i \in res[scan_rst_set_ptr] \/ i.scan = scans
    BY <2>1, ResultInd DEF TypeOK
  <2>4. \A i \in items : i.scan = scans
    BY <1>1, <2>1, <2>3 DEF FlagTellsScan, result_ind_add
  <2>5. res'[scan_rst_set_ptr] = items
    BY <2>1, <2>2 DEF TypeOK
  <2>6. QED
    BY <1>1, <2>1, <2>4, <2>5
    DEF FlagTellsScan, result_ind_add, shared, bounds
<1>2. ASSUME NEW b \in Bssids, NEW on \in BOOLEAN, result_ind_new(b, on)
      PROVE  FlagTellsScan'
  <2> DEFINE old == IF ToFlush THEN {scan_rst_set_ptr} ELSE {}
             res0 == [p \in Shells |-> IF p \in old THEN {} ELSE res[p]]
  <2>1. CASE scan_rst_set_ptr' = None
    BY <2>1 DEF FlagTellsScan
  <2>2. CASE scan_rst_set_ptr' # None
    <3>1. PICK p \in Shells, items \in mhdr_scanu_result_ind({}, b, on) :
              scan_rst_set_ptr' = p /\ res' = [res0 EXCEPT ![p] = items]
      BY <1>2, <2>2 DEF result_ind_new
    <3>2. \A i \in items : i.scan = scans
      BY ResultInd DEF TypeOK
    <3>3. res'[p] = items
      BY <3>1
    <3>4. QED
      BY <1>2, <3>1, <3>2, <3>3 DEF FlagTellsScan, result_ind_new, bounds
  <2>3. QED
    BY <2>1, <2>2
<1>3. CASE SCANU_START_CFM
  <2>1. CASE scan_rst_set_ptr = None
    BY <1>3, <2>1 DEF SCANU_START_CFM, FlagTellsScan
  <2>2. CASE scan_rst_set_ptr # None
    <3>1. \A i \in res[scan_rst_set_ptr] : i.scan \in Nat
      BY <2>2 DEF TypeOK, Item
    <3>2. \A i \in res[scan_rst_set_ptr] : i.scan < scans + 1
      BY <2>2, <3>1 DEF FlagTellsScan, TypeOK
    <3>3. QED
      BY <1>3, <2>2, <3>2 DEF SCANU_START_CFM, FlagTellsScan, heap
  <2>3. QED
    BY <2>1, <2>2
<1>4. CASE SM_CONNECT_IND
  <2>1. scan_rst_set_ptr' = None
    BY <1>4 DEF SM_CONNECT_IND, shared
  <2>2. QED
    BY <2>1 DEF FlagTellsScan
<1>5. QED
  BY <1>1, <1>2, <1>3, <1>4 DEF kmsgbk, SCANU_RESULT_IND

LEMMA FlagReader == TypeOK /\ FlagTellsScan /\ reader => FlagTellsScan'
<1> SUFFICES ASSUME TypeOK, FlagTellsScan, reader
             PROVE  FlagTellsScan'
  OBVIOUS
<1>1. \/ scan_rst_set_ptr' = None
      \/ UNCHANGED <<scan_rst_set_ptr, resultful_scan_cfm, res, scans>>
  <2>1. ASSUME NEW t \in Apps, bk_wlan_get_scan_ap_result(t)
        PROVE  UNCHANGED <<scan_rst_set_ptr, resultful_scan_cfm, res, scans>>
    BY <2>1 DEF bk_wlan_get_scan_ap_result, shared, bounds
  <2>2. ASSUME NEW t \in Readers, sr_release_scan_results(t)
        PROVE  \/ scan_rst_set_ptr' = None
               \/ UNCHANGED <<scan_rst_set_ptr, resultful_scan_cfm, res, scans>>
    BY <2>2 DEF sr_release_scan_results, release_keep, release_later,
       release_last, heap, bounds
  <2>3. QED
    BY <2>1, <2>2 DEF reader, wpa_get_scan_rst, sta_disable,
       wpa_hostapd_release_scan_rst, shared, heap, bounds
<1>2. QED
  BY <1>1 DEF FlagTellsScan

(***************************************************************************)
(* resultful_scan_cfm tells the results of the scan under way from those   *)
(* of an earlier one, so SCANU_RESULT_IND neither mixes two scans nor      *)
(* flushes its own results (rw_msg_rx.c, rwnx_handle_recv_msg).            *)
(***************************************************************************)
THEOREM FlagTellsScanCorrect == Spec => []FlagTellsScan
<1>1. Init => FlagTellsScan
  BY DEF Init, FlagTellsScan
<1>2. TypeOK /\ FlagTellsScan /\ [Next]_vars => FlagTellsScan'
  <2>1. TypeOK /\ FlagTellsScan /\ Next => FlagTellsScan'
    BY FlagKmsgbk, FlagReader DEF Next
  <2>2. FlagTellsScan /\ UNCHANGED vars => FlagTellsScan'
    BY DEF FlagTellsScan, vars, shared, heap, bounds
  <2>3. QED
    BY <2>1, <2>2
<1>3. QED
  BY <1>1, <1>2, TypeCorrect, PTL DEF Spec

(***************************************************************************)
(* One entry per access point                                              *)
(***************************************************************************)
GoodList(items) ==
    /\ IsFiniteSet(items)
    /\ Cardinality(items) <= MAX_BSS_LIST
    /\ \A i, j \in items : i.bssid = j.bssid => i = j

ListInv == \A p \in alloc : GoodList(res[p])

LEMMA GoodEmpty == GoodList({})
  BY FS_EmptySet, ScanAssumption DEF GoodList

(***************************************************************************)
(* mhdr_scanu_result_ind keeps a list good: it adds an entry only below    *)
(* the limit, and takes the entries of the same access point out.          *)
(***************************************************************************)
LEMMA GoodResultInd ==
    ASSUME NEW items, GoodList(items), NEW b, NEW on \in BOOLEAN,
           NEW new \in mhdr_scanu_result_ind(items, b, on)
    PROVE  GoodList(new)
<1> DEFINE item == [bssid |-> b, on_channel |-> on, scan |-> scans]
           known == {i \in items : i.bssid = b}
           rest == items \ known
<1>1. CASE new = items
  BY <1>1
<1>2. CASE new = rest \cup {item} /\ ~(Cardinality(items) >= MAX_BSS_LIST)
  <2>1. /\ IsFiniteSet(rest)
        /\ Cardinality(rest) <= Cardinality(items)
    <3> HIDE DEF known
    <3>1. rest \in SUBSET items
      OBVIOUS
    <3>2. QED
      BY <3>1, FS_Subset DEF GoodList
  <2>2. /\ IsFiniteSet(new)
        /\ Cardinality(new) <= Cardinality(rest) + 1
    <3> HIDE DEF rest, item
    <3>1. Cardinality(rest) \in Nat
      BY <2>1, FS_CardinalityType
    <3>2. /\ IsFiniteSet(rest \cup {item})
          /\ Cardinality(rest \cup {item}) =
                IF item \in rest THEN Cardinality(rest) ELSE Cardinality(rest) + 1
      BY <2>1, FS_AddElement
    <3>3. new = rest \cup {item}
      BY <1>2
    <3>4. QED
      BY <3>1, <3>2, <3>3
  <2>3. Cardinality(new) <= MAX_BSS_LIST
    <3>1. /\ Cardinality(items) \in Nat
          /\ Cardinality(rest) \in Nat
          /\ Cardinality(new) \in Nat
      BY <2>1, <2>2, FS_CardinalityType DEF GoodList
    <3> HIDE DEF rest
    <3>2. QED
      BY <1>2, <2>1, <2>2, <3>1, ScanAssumption
  <2>4. \A i, j \in new : i.bssid = j.bssid => i = j
    <3>1. \A i \in rest : i \in items /\ i.bssid # b
      OBVIOUS
    <3>2. item.bssid = b
      OBVIOUS
    <3> HIDE DEF rest, item
    <3>3. QED
      BY <1>2, <3>1, <3>2 DEF GoodList
  <2>5. QED
    BY <2>2, <2>3, <2>4 DEF GoodList
<1>3. QED
  BY <1>1, <1>2 DEF mhdr_scanu_result_ind

LEMMA ListStep == TypeOK /\ ListInv /\ Next => ListInv'
<1> SUFFICES ASSUME TypeOK, ListInv, Next
             PROVE  ListInv'
  OBVIOUS
<1>1. ASSUME NEW b \in Bssids, NEW on \in BOOLEAN, result_ind_add(b, on)
      PROVE  ListInv'
  <2>1. PICK items \in mhdr_scanu_result_ind(res[scan_rst_set_ptr], b, on) :
            res' = [res EXCEPT ![scan_rst_set_ptr] = items]
    BY <1>1 DEF result_ind_add
  <2>2. alloc' = alloc /\ alloc \subseteq Shells
    BY <1>1 DEF result_ind_add, TypeOK
  <2>3. ASSUME NEW p \in alloc
        PROVE  GoodList(res'[p])
    <3>1. GoodList(res[p])
      BY DEF ListInv
    <3>2. CASE p = scan_rst_set_ptr
      <4>1. GoodList(items)
        BY <3>1, <3>2, GoodResultInd
      <4>2. res'[p] = items
        BY <2>1, <2>2, <3>2 DEF TypeOK
      <4>3. QED
        BY <4>1, <4>2
    <3>3. CASE p # scan_rst_set_ptr
      <4>1. res'[p] = res[p]
        BY <2>1, <2>2, <3>3 DEF TypeOK
      <4>2. QED
        BY <3>1, <4>1
    <3>4. QED
      BY <3>2, <3>3
  <2>4. QED
    BY <2>2, <2>3 DEF ListInv, GoodList
<1>2. ASSUME NEW b \in Bssids, NEW on \in BOOLEAN, result_ind_new(b, on)
      PROVE  ListInv'
  <2> DEFINE old == IF ToFlush THEN {scan_rst_set_ptr} ELSE {}
             res0 == [p \in Shells |-> IF p \in old THEN {} ELSE res[p]]
  <2>1. \A p \in alloc \ old : p \in Shells /\ res0[p] = res[p]
    BY DEF TypeOK
  <2>2. CASE alloc' = alloc \ old /\ res' = res0
    <3> HIDE DEF old, res0
    <3>1. QED
      BY <2>1, <2>2 DEF ListInv, GoodList
  <2>3. CASE \E p \in Shells, items \in mhdr_scanu_result_ind({}, b, on) :
                /\ alloc' = (alloc \ old) \cup {p}
                /\ res' = [res0 EXCEPT ![p] = items]
    <3>1. PICK p \in Shells, items \in mhdr_scanu_result_ind({}, b, on) :
                /\ alloc' = (alloc \ old) \cup {p}
                /\ res' = [res0 EXCEPT ![p] = items]
      BY <2>3
    <3>2. GoodList(items)
      BY GoodEmpty, GoodResultInd
    <3>3. /\ res'[p] = items
          /\ \A q \in Shells \ {p} : res'[q] = res0[q]
      BY <3>1
    <3> HIDE DEF old, res0
    <3>4. ASSUME NEW q \in alloc'
          PROVE  GoodList(res'[q])
      <4>1. CASE q = p
        BY <3>2, <3>3, <4>1
      <4>2. CASE q # p
        <5>1. q \in alloc \ old
          BY <3>1, <4>2
        <5>2. res'[q] = res[q]
          BY <2>1, <3>3, <4>2, <5>1
        <5>3. QED
          BY <5>1, <5>2 DEF ListInv
      <4>3. QED
        BY <4>1, <4>2
    <3>5. QED
      BY <3>4 DEF ListInv, GoodList
  <2>4. QED
    BY <1>2, <2>2, <2>3 DEF result_ind_new
<1>3. ASSUME NEW p, \/ release_keep(p) \/ release_later(p)
                    \/ release_last(p) \/ UNCHANGED heap
      PROVE  ListInv'
  <2>1. CASE UNCHANGED <<alloc, res>>
    BY <2>1 DEF ListInv, GoodList
  <2>2. CASE release_last(p)
    <3>1. \A q \in alloc' : q \in alloc /\ res'[q] = res[q]
      BY <2>2 DEF release_last, sr_free_all, TypeOK
    <3>2. QED
      BY <3>1 DEF ListInv, GoodList
  <2>3. QED
    BY <1>3, <2>1, <2>2 DEF release_keep, release_later, heap
<1>4. CASE SM_CONNECT_IND
  <2>1. CASE scan_rst_set_ptr = None
    BY <1>4, <2>1 DEF SM_CONNECT_IND, heap, ListInv, GoodList
  <2>2. CASE scan_rst_set_ptr # None
    <3>1. \/ release_keep(scan_rst_set_ptr)
          \/ release_later(scan_rst_set_ptr)
          \/ release_last(scan_rst_set_ptr)
      BY <1>4, <2>2 DEF SM_CONNECT_IND
    <3>2. QED
      BY <1>3, <3>1
  <2>3. QED
    BY <2>1, <2>2
<1>5. ASSUME NEW t \in Readers, sr_release_scan_results(t)
      PROVE  ListInv'
  BY <1>3, <1>5 DEF sr_release_scan_results
<1>6. ASSUME UNCHANGED <<alloc, res>>
      PROVE  ListInv'
  BY <1>6 DEF ListInv, GoodList
<1>7. CASE SCANU_START_CFM
  BY <1>6, <1>7 DEF SCANU_START_CFM, heap
<1>8. ASSUME NEW t \in Apps, bk_wlan_get_scan_ap_result(t)
      PROVE  ListInv'
  BY <1>6, <1>8 DEF bk_wlan_get_scan_ap_result
<1>9. CASE wpa_get_scan_rst \/ sta_disable \/ wpa_hostapd_release_scan_rst
  BY <1>6, <1>9 DEF wpa_get_scan_rst, sta_disable,
     wpa_hostapd_release_scan_rst, heap
<1>10. QED
  BY <1>1, <1>2, <1>4, <1>5, <1>7, <1>8, <1>9
  DEF Next, kmsgbk, reader, SCANU_RESULT_IND

(***************************************************************************)
(* A result set never holds two entries for one access point, nor more     *)
(* entries than MAX_BSS_LIST, the size of its array (sr_malloc_shell).     *)
(***************************************************************************)
THEOREM OneEntryPerBssCorrect == Spec => []OneEntryPerBss
<1>1. Init => ListInv
  BY DEF Init, ListInv
<1>2. TypeOK /\ ListInv /\ [Next]_vars => ListInv'
  <2>1. ListInv /\ UNCHANGED vars => ListInv'
    BY DEF ListInv, GoodList, vars, heap
  <2>2. QED
    BY <2>1, ListStep
<1>3. ListInv => OneEntryPerBss
  BY DEF ListInv, GoodList, OneEntryPerBss
<1>4. QED
  BY <1>1, <1>2, <1>3, TypeCorrect, PTL DEF Spec

(***************************************************************************)
(* The reference counts.                                                   *)
(*                                                                         *)
(* RefCountsHolders is not inductive: that the count of the current set is *)
(* right after its last release needs that nobody holds another set, so    *)
(* the invariant also says that, until a pull, readers hold the current    *)
(* set or none (Current), and where in its code a reader can hold one      *)
(* (Shape).                                                                *)
(***************************************************************************)
Shape ==
    /\ scan_rst_set_ptr # None => scan_rst_set_ptr \in alloc
    /\ \A t \in Readers : held[t] # None => pc[t] = "release"
    /\ pc[Wpas] = "idle" => s_scan_result_upload_ptr = None
    /\ \A t \in Apps : pc[t] # "test"

Counts == \A p \in alloc : ref[p] = Cardinality(Holders(p))

Current ==
    /\ \A t \in Readers : held[t] # None => held[t] = scan_rst_set_ptr
    /\ pc[Wpas] = "test" /\ s_scan_result_upload_ptr # None =>
           s_scan_result_upload_ptr = scan_rst_set_ptr

Kept == \A p \in alloc : p # scan_rst_set_ptr => unread

Exact == Counts /\ Current /\ Kept /\ ~corrupt

RefInv == Shape /\ (~pulled => Exact)

LEMMA HoldersFinite ==
    ASSUME NEW p
    PROVE  /\ Holders(p) \subseteq Readers
           /\ IsFiniteSet(Holders(p))
           /\ Cardinality(Holders(p)) \in Nat
           /\ Cardinality(Holders(p)) = 0 <=> Holders(p) = {}
<1>1. Holders(p) \subseteq Readers
  BY DEF Holders, Readers
<1>2. IsFiniteSet(Readers)
  BY FS_AddElement, ScanAssumption DEF Readers
<1>3. IsFiniteSet(Holders(p))
  BY <1>1, <1>2, FS_Subset
<1>4. QED
  BY <1>1, <1>3, FS_CardinalityType, FS_EmptySet

(***************************************************************************)
(* With no current set, or one nobody holds, no reader holds any set.      *)
(***************************************************************************)
LEMMA NobodyHolds ==
    ASSUME Current, scan_rst_set_ptr = None \/ Holders(scan_rst_set_ptr) = {}
    PROVE  /\ \A t \in Readers : held[t] = None
           /\ pc[Wpas] = "test" => s_scan_result_upload_ptr = None
  BY DEF Current, Holders

(***************************************************************************)
(* Taking a reference to the current set: the count of that set grows by   *)
(* one and so does the set of its holders.                                 *)
(***************************************************************************)
LEMMA TakeRef ==
    ASSUME TypeOK, Counts, NEW t \in Readers,
           sr_get_scan_results, alloc' = alloc,
           \A p \in Shells :
               IF p = scan_rst_set_ptr
               THEN t \notin Holders(p) /\ Holders(p)' = Holders(p) \cup {t}
               ELSE Holders(p)' = Holders(p)
    PROVE  Counts'
<1>1. SUFFICES ASSUME NEW p \in alloc
               PROVE  ref'[p] = Cardinality(Holders(p)')
  BY DEF Counts
<1>2. p \in Shells /\ p # None /\ ref[p] = Cardinality(Holders(p))
  BY ScanAssumption DEF TypeOK, Counts
<1>3. CASE p = scan_rst_set_ptr
  <2>1. ref'[p] = ref[p] + 1
    BY <1>2, <1>3 DEF sr_get_scan_results, TypeOK
  <2>2. Cardinality(Holders(p) \cup {t}) = Cardinality(Holders(p)) + 1
    BY <1>2, <1>3, HoldersFinite, FS_AddElement
  <2>3. Holders(p)' = Holders(p) \cup {t}
    BY <1>2, <1>3
  <2>4. QED
    BY <1>2, <2>1, <2>2, <2>3
<1>4. CASE p # scan_rst_set_ptr
  <2>1. ref'[p] = ref[p]
    BY <1>2, <1>4 DEF sr_get_scan_results, TypeOK
  <2>2. Holders(p)' = Holders(p)
    BY <1>2, <1>4
  <2>3. QED
    BY <1>2, <2>1, <2>2
<1>5. QED
  BY <1>3, <1>4

(***************************************************************************)
(* Where a reader can hold a set, and that the current set is allocated:   *)
(* true of every step, pulls included.                                     *)
(***************************************************************************)
LEMMA ShapeStep == TypeOK /\ Shape /\ Next => Shape'
<1> SUFFICES ASSUME TypeOK, Shape, Next
             PROVE  Shape'
  OBVIOUS
<1>1. CASE kmsgbk
  <2>1. UNCHANGED threads
    BY <1>1 DEF kmsgbk, SCANU_RESULT_IND, result_ind_add, result_ind_new,
       SCANU_START_CFM, SM_CONNECT_IND
  <2>2. \/ s_scan_result_upload_ptr' = s_scan_result_upload_ptr
        \/ s_scan_result_upload_ptr' = None
    BY <1>1 DEF kmsgbk, SCANU_RESULT_IND, result_ind_add, result_ind_new,
       SCANU_START_CFM, SM_CONNECT_IND, release_last, shared
  <2>3. scan_rst_set_ptr' # None => scan_rst_set_ptr' \in alloc'
    BY <1>1 DEF Shape, kmsgbk, SCANU_RESULT_IND, result_ind_add,
       result_ind_new, SCANU_START_CFM, SM_CONNECT_IND, shared, heap
  <2>4. QED
    BY <2>1, <2>2, <2>3 DEF Shape, threads
<1>2. CASE reader
  <2>1. ASSUME NEW t \in Apps, bk_wlan_get_scan_ap_result(t)
        PROVE  Shape'
    BY <2>1, ScanAssumption
    DEF bk_wlan_get_scan_ap_result, Shape, TypeOK, Readers, shared
  <2>2. CASE wpa_get_scan_rst
    BY <2>2, ScanAssumption DEF wpa_get_scan_rst, Shape, TypeOK, Readers
  <2>3. CASE sta_disable
    BY <2>3, ScanAssumption DEF sta_disable, Shape, TypeOK, Readers, shared, heap
  <2>4. CASE wpa_hostapd_release_scan_rst
    BY <2>4, ScanAssumption
    DEF wpa_hostapd_release_scan_rst, Shape, TypeOK, Readers, shared
  <2>5. ASSUME NEW t \in Readers, sr_release_scan_results(t)
        PROVE  Shape'
    <3>1. /\ pc' = [pc EXCEPT ![t] = "idle"]
          /\ held' = [held EXCEPT ![t] = None]
      BY <2>5 DEF sr_release_scan_results
    <3>2. \/ scan_rst_set_ptr' = None
          \/ UNCHANGED <<scan_rst_set_ptr, alloc>>
      BY <2>5 DEF sr_release_scan_results, release_keep, release_later,
         release_last, heap
    <3>3. /\ t = Wpas => s_scan_result_upload_ptr' = None
          /\ \/ s_scan_result_upload_ptr' = s_scan_result_upload_ptr
             \/ s_scan_result_upload_ptr' = None
      BY <2>5 DEF sr_release_scan_results, release_last
    <3>4. QED
      BY <3>1, <3>2, <3>3, ScanAssumption DEF Shape, TypeOK, Readers
  <2>6. QED
    BY <1>2, <2>1, <2>2, <2>3, <2>4, <2>5 DEF reader
<1>3. QED
  BY <1>1, <1>2 DEF Next

(***************************************************************************)
(* The steps of the readers keep the counts.                               *)
(***************************************************************************)
LEMMA ExactReader == TypeOK /\ Shape /\ Exact /\ reader => Exact'
<1> SUFFICES ASSUME TypeOK, Shape, Exact, reader
             PROVE  Exact'
  OBVIOUS
<1>0. Shape /\ Counts /\ Current /\ Kept /\ ~corrupt
  BY DEF Exact
<1>1. ASSUME NEW t \in Apps, bk_wlan_get_scan_ap_result(t)
      PROVE  Exact'
  <2>1. t \in Readers /\ t # Wpas /\ held[t] = None /\ Wpas \in Readers
    BY <1>0, <1>1, ScanAssumption DEF Readers, Shape, bk_wlan_get_scan_ap_result
  <2>2. /\ held' = [held EXCEPT ![t] = scan_rst_set_ptr]
        /\ pc' = [pc EXCEPT ![t] = "release"]
        /\ UNCHANGED <<shared, alloc, history>>
        /\ sr_get_scan_results
    BY <1>1 DEF bk_wlan_get_scan_ap_result
  <2>3. \A p \in Shells :
            IF p = scan_rst_set_ptr
            THEN t \notin Holders(p) /\ Holders(p)' = Holders(p) \cup {t}
            ELSE Holders(p)' = Holders(p)
    BY <2>1, <2>2, ScanAssumption DEF Holders, TypeOK, shared
  <2>4. Counts'
    BY <1>0, <2>1, <2>2, <2>3, TakeRef
  <2>5. Current' /\ Kept'
    BY <1>0, <2>1, <2>2 DEF Current, Kept, TypeOK, shared, history
  <2>6. QED
    BY <1>0, <2>2, <2>4, <2>5 DEF Exact, history
<1>2. CASE wpa_get_scan_rst
  <2>1. Wpas \in Readers /\ held[Wpas] = None /\ pc[Wpas] = "idle"
    BY <1>0, <1>2 DEF Readers, Shape, wpa_get_scan_rst
  <2>2. /\ s_scan_result_upload_ptr' = scan_rst_set_ptr
        /\ pc' = [pc EXCEPT ![Wpas] =
                    IF scan_rst_set_ptr = None THEN "idle" ELSE "test"]
        /\ UNCHANGED <<scan_rst_set_ptr, alloc, held, history>>
        /\ sr_get_scan_results
    BY <1>2 DEF wpa_get_scan_rst
  <2>3. \A p \in Shells :
            IF p = scan_rst_set_ptr
            THEN Wpas \notin Holders(p) /\ Holders(p)' = Holders(p) \cup {Wpas}
            ELSE Holders(p)' = Holders(p)
    BY <2>1, <2>2, ScanAssumption DEF Holders, TypeOK
  <2>4. Counts'
    BY <1>0, <2>1, <2>2, <2>3, TakeRef
  <2>5. Current' /\ Kept'
    BY <1>0, <2>1, <2>2 DEF Current, Kept, TypeOK, history
  <2>6. QED
    BY <1>0, <2>2, <2>4, <2>5 DEF Exact, history
<1>3. CASE sta_disable
  <2>1. Wpas \in Readers /\ pc[Wpas] = "idle" /\ s_scan_result_upload_ptr = None
    BY <1>0, <1>3 DEF Readers, Shape, sta_disable
  <2>2. /\ pc' = [pc EXCEPT ![Wpas] = "test"]
        /\ UNCHANGED <<shared, heap, held, history>>
    BY <1>3 DEF sta_disable
  <2>3. \A p \in Shells : Holders(p)' = Holders(p)
    BY <2>1, <2>2, ScanAssumption DEF Holders, TypeOK, shared
  <2>4. Counts'
    BY <1>0, <2>2, <2>3 DEF Counts, TypeOK, heap
  <2>5. Current' /\ Kept'
    BY <1>0, <2>1, <2>2 DEF Current, Kept, TypeOK, shared, heap, history
  <2>6. QED
    BY <1>0, <2>2, <2>4, <2>5 DEF Exact, history
<1>4. CASE wpa_hostapd_release_scan_rst
  <2>1. Wpas \in Readers /\ held[Wpas] = None /\ pc[Wpas] = "test"
    BY <1>0, <1>4 DEF Readers, Shape, wpa_hostapd_release_scan_rst
  <2>2. /\ pc' = [pc EXCEPT ![Wpas] = "release"]
        /\ UNCHANGED <<shared, alloc, history>>
    BY <1>4 DEF wpa_hostapd_release_scan_rst
  <2>3. held' = [held EXCEPT ![Wpas] = scan_rst_set_ptr]
    BY <1>0, <1>4, <2>1 DEF wpa_hostapd_release_scan_rst, Current
  <2>4. Counts'
    <3>1. CASE s_scan_result_upload_ptr # None
      <4>1. s_scan_result_upload_ptr = scan_rst_set_ptr
        BY <1>0, <2>1, <3>1 DEF Current
      <4>2. \A p \in Shells : Holders(p)' = Holders(p)
        BY <2>1, <2>2, <2>3, <4>1, ScanAssumption DEF Holders, TypeOK, shared
      <4>3. UNCHANGED <<ref, alloc>>
        BY <1>4, <3>1 DEF wpa_hostapd_release_scan_rst
      <4>4. QED
        BY <1>0, <4>2, <4>3 DEF Counts, TypeOK
    <3>2. CASE s_scan_result_upload_ptr = None
      <4>1. \A p \in Shells :
               IF p = scan_rst_set_ptr
               THEN Wpas \notin Holders(p) /\ Holders(p)' = Holders(p) \cup {Wpas}
               ELSE Holders(p)' = Holders(p)
        BY <2>1, <2>2, <2>3, <3>2, ScanAssumption DEF Holders, TypeOK, shared
      <4>2. sr_get_scan_results
        BY <1>4, <3>2 DEF wpa_hostapd_release_scan_rst
      <4>3. QED
        BY <1>0, <2>1, <2>2, <4>1, <4>2, TakeRef
    <3>3. QED
      BY <3>1, <3>2
  <2>5. Current' /\ Kept'
    BY <1>0, <2>1, <2>2, <2>3 DEF Current, Kept, TypeOK, shared, history
  <2>6. QED
    BY <1>0, <2>2, <2>4, <2>5 DEF Exact, history
<1>5. ASSUME NEW t \in Readers, sr_release_scan_results(t)
      PROVE  Exact'
  <2>1. /\ pc[t] = "release"
        /\ pc' = [pc EXCEPT ![t] = "idle"]
        /\ held' = [held EXCEPT ![t] = None]
        /\ UNCHANGED <<pulled, unread>>
    BY <1>5 DEF sr_release_scan_results
  <2>2. CASE held[t] = None
    <3>1. /\ UNCHANGED <<heap, scan_rst_set_ptr>>
          /\ ~corrupt'
          /\ s_scan_result_upload_ptr' =
                IF t = Wpas THEN None ELSE s_scan_result_upload_ptr
      BY <1>5, <2>2, ScanAssumption DEF sr_release_scan_results, release_keep,
         release_later, release_last, Freed, TypeOK
    <3>2. \A p \in Shells : Holders(p)' = Holders(p)
      BY <2>1, <2>2, <3>1, ScanAssumption DEF Holders, TypeOK
    <3>3. Counts'
      BY <1>0, <3>1, <3>2 DEF Counts, TypeOK, heap
    <3>4. Current' /\ Kept'
      BY <1>0, <2>1, <3>1 DEF Current, Kept, TypeOK, Readers, heap
    <3>5. QED
      BY <1>0, <2>1, <3>1, <3>3, <3>4 DEF Exact
  <2>3. CASE held[t] # None
    <3> DEFINE p == scan_rst_set_ptr
    <3>1. /\ held[t] = p /\ p \in alloc /\ p \in Shells
          /\ t \in Holders(p)
          /\ ref[p] = Cardinality(Holders(p))
      BY <1>0, <2>3 DEF Current, Shape, Counts, Holders, TypeOK
    <3>2. ref[p] \in Nat \ {0}
      BY <3>1, HoldersFinite
    <3>3. CASE release_last(p)
      <4>1. Holders(p) = {t}
        <5>1. Cardinality(Holders(p)) = 1
          BY <3>1, <3>3 DEF release_last
        <5>2. PICK x : Holders(p) = {x}
          BY <5>1, HoldersFinite, FS_Singleton
        <5>3. QED
          BY <3>1, <5>2
      <4>2. \A u \in Readers : held'[u] = None
        BY <1>0, <2>1, <4>1 DEF Current, Holders, TypeOK
      <4>3. /\ alloc' = alloc \ {p}
            /\ ref' = [ref EXCEPT ![p] = 0]
            /\ scan_rst_set_ptr' = None
            /\ s_scan_result_upload_ptr' = None
        BY <3>3 DEF release_last, sr_free_all
      <4>4. \A q \in Shells : Holders(q)' = {}
        BY <4>2, <4>3, ScanAssumption DEF Holders
      <4>5. \A q \in Shells \ {p} : Holders(q) = {}
        BY <1>0, <4>1, <4>3, ScanAssumption DEF Holders, Current
      <4>6. Counts'
        <5>1. SUFFICES ASSUME NEW q \in alloc'
                       PROVE  ref'[q] = Cardinality(Holders(q)')
          BY DEF Counts
        <5>2. q \in alloc /\ q \in Shells \ {p} /\ ref'[q] = ref[q]
          BY <4>3 DEF TypeOK
        <5>3. QED
          BY <1>0, <4>4, <4>5, <5>2 DEF Counts
      <4>7. Current' /\ Kept'
        BY <1>0, <2>1, <4>2, <4>3 DEF Current, Kept
      <4>8. ~corrupt'
        BY <1>5, <3>1 DEF sr_release_scan_results, Freed
      <4>9. QED
        BY <4>6, <4>7, <4>8 DEF Exact
    <3>4. CASE ~release_last(p)
      <4>1. /\ ref' = [ref EXCEPT ![p] = @ - 1]
            /\ UNCHANGED <<alloc, scan_rst_set_ptr>>
            /\ ~corrupt'
            /\ s_scan_result_upload_ptr' =
                  IF t = Wpas THEN None ELSE s_scan_result_upload_ptr
        BY <1>5, <3>1, <3>2, <3>4, ScanAssumption DEF sr_release_scan_results,
           release_keep, release_later, Freed, TypeOK
      <4>2. \A q \in Shells :
               Holders(q)' = IF q = p THEN Holders(q) \ {t} ELSE Holders(q)
        BY <2>1, <3>1, <4>1, ScanAssumption DEF Holders, TypeOK
      <4>3. Counts'
        <5>1. SUFFICES ASSUME NEW q \in alloc
                       PROVE  ref'[q] = Cardinality(Holders(q)')
          BY <4>1 DEF Counts
        <5>2. q \in Shells /\ ref[q] = Cardinality(Holders(q))
          BY <1>0 DEF Counts, TypeOK
        <5>3. CASE q = p
          <6>1. Cardinality(Holders(p) \ {t}) = Cardinality(Holders(p)) - 1
            BY <3>1, HoldersFinite, FS_RemoveElement
          <6>2. QED
            BY <3>1, <4>1, <4>2, <5>2, <5>3, <6>1 DEF TypeOK
        <5>4. CASE q # p
          BY <4>1, <4>2, <5>2, <5>4 DEF TypeOK
        <5>5. QED
          BY <5>3, <5>4
      <4>4. Current' /\ Kept'
        BY <1>0, <2>1, <4>1 DEF Current, Kept, TypeOK, Readers
      <4>5. QED
        BY <1>0, <2>1, <4>1, <4>3, <4>4 DEF Exact
    <3>5. QED
      BY <3>3, <3>4
  <2>4. QED
    BY <2>2, <2>3
<1>6. QED
  BY <1>1, <1>2, <1>3, <1>4, <1>5 DEF reader

(***************************************************************************)
(* The handlers of the kmsgbk thread keep the counts unless they pull a    *)
(* set from under its readers.                                             *)
(***************************************************************************)
LEMMA ExactKmsgbk ==
    TypeOK /\ Shape /\ Exact /\ ~pulled /\ kmsgbk /\ ~pulled' => Exact'
<1> SUFFICES ASSUME TypeOK, Shape, Exact, kmsgbk, ~pulled'
             PROVE  Exact'
  OBVIOUS
<1>0. Counts /\ Current /\ Kept /\ ~corrupt
  BY DEF Exact
<1>1. ASSUME UNCHANGED <<shared, alloc, ref, threads, history>>
      PROVE  Exact'
  BY <1>1 DEF Exact, Counts, Current, Kept, Holders, shared, threads, history
<1>2. ASSUME NEW b \in Bssids, NEW on \in BOOLEAN, result_ind_add(b, on)
      PROVE  Exact'
  BY <1>1, <1>2 DEF result_ind_add
<1>3. ASSUME NEW b \in Bssids, NEW on \in BOOLEAN, result_ind_new(b, on)
      PROVE  Exact'
  <2> DEFINE old == IF ToFlush THEN {scan_rst_set_ptr} ELSE {}
             ref0 == [p \in Shells |-> IF p \in old THEN 0 ELSE ref[p]]
  <2>1. /\ UNCHANGED <<pc, held, unread, corrupt>>
        /\ \/ s_scan_result_upload_ptr' = s_scan_result_upload_ptr
           \/ s_scan_result_upload_ptr' = None
    BY <1>3 DEF result_ind_new, threads
  <2>2. /\ \A t \in Readers : held[t] = None
        /\ pc[Wpas] = "test" => s_scan_result_upload_ptr = None
    <3>1. scan_rst_set_ptr = None \/ Holders(scan_rst_set_ptr) = {}
      BY <1>3 DEF result_ind_new
    <3>2. QED
      BY <1>0, <3>1, NobodyHolds
  <2>3. \A q \in Shells : Holders(q) = {} /\ Holders(q)' = {}
    BY <2>1, <2>2, ScanAssumption DEF Holders
  <2>4. \A q \in alloc \ old : q \in Shells /\ ref0[q] = ref[q]
    BY DEF TypeOK
  <2>5. \A q \in alloc \ old : unread
    BY <1>0, <1>3, ScanAssumption DEF Kept, ToFlush, result_ind_new, TypeOK
  <2>6. /\ \A q \in alloc' \ {scan_rst_set_ptr'} :
               q \in alloc \ old /\ ref'[q] = ref[q]
        /\ scan_rst_set_ptr' \in alloc' => ref'[scan_rst_set_ptr'] = 0
    <3>1. CASE \E p \in Shells :
                  /\ scan_rst_set_ptr' = p
                  /\ alloc' = (alloc \ old) \cup {p}
                  /\ ref' = [ref0 EXCEPT ![p] = 0]
      BY <2>4, <3>1
    <3>2. CASE /\ scan_rst_set_ptr' = None
               /\ alloc' = alloc \ old
               /\ ref' = ref0
      BY <2>4, <3>2, ScanAssumption
    <3>3. QED
      BY <1>3, <3>1, <3>2 DEF result_ind_new
  <2> HIDE DEF old, ref0
  <2>7. Cardinality({}) = 0
    BY FS_EmptySet
  <2>8. Counts'
    <3>1. SUFFICES ASSUME NEW q \in alloc'
                   PROVE  ref'[q] = Cardinality(Holders(q)')
      BY DEF Counts
    <3>2. q \in Shells
      BY <3>1, TypeKmsgbk DEF TypeOK
    <3>3. CASE q = scan_rst_set_ptr'
      BY <2>3, <2>6, <2>7, <3>2, <3>3
    <3>4. CASE q # scan_rst_set_ptr'
      <4>1. q \in alloc /\ ref'[q] = ref[q]
        BY <2>6, <3>4
      <4>2. ref[q] = Cardinality(Holders(q))
        BY <1>0, <4>1 DEF Counts
      <4>3. QED
        BY <2>3, <3>2, <4>1, <4>2
    <3>5. QED
      BY <3>3, <3>4
  <2>9. Current'
    BY <2>1, <2>2 DEF Current
  <2>10. Kept'
    BY <2>1, <2>5, <2>6 DEF Kept
  <2>11. QED
    BY <1>0, <2>1, <2>8, <2>9, <2>10 DEF Exact
<1>4. CASE SCANU_START_CFM
  <2>1. UNCHANGED <<scan_rst_set_ptr, s_scan_result_upload_ptr, heap, threads,
                    history>>
    BY <1>4 DEF SCANU_START_CFM
  <2>2. QED
    BY <2>1 DEF Exact, Counts, Current, Kept, Holders, heap, threads, history
<1>5. CASE SM_CONNECT_IND
  <2>1. CASE scan_rst_set_ptr = None
    <3>1. UNCHANGED <<shared, heap, threads, history>>
      BY <1>5, <2>1 DEF SM_CONNECT_IND, history
    <3>2. QED
      BY <1>1, <3>1 DEF heap
  <2>2. CASE scan_rst_set_ptr # None
    <3>1. /\ UNCHANGED <<pc, held, corrupt>>
          /\ scan_rst_set_ptr' = None
          /\ Holders(scan_rst_set_ptr) = {}
          /\ unread'
      BY <1>5, <2>2 DEF SM_CONNECT_IND, threads
    <3>2. ref[scan_rst_set_ptr] = 0
      BY <1>0, <2>2, <3>1, FS_EmptySet DEF Counts, Shape
    <3>3. UNCHANGED heap /\ UNCHANGED s_scan_result_upload_ptr
      BY <1>5, <2>2, <3>2
      DEF SM_CONNECT_IND, release_keep, release_later, release_last
    <3>4. /\ \A t \in Readers : held[t] = None
          /\ pc[Wpas] = "test" => s_scan_result_upload_ptr = None
      BY <1>0, <3>1, NobodyHolds
    <3>5. Counts' /\ Current' /\ Kept'
      BY <1>0, <3>1, <3>3, <3>4 DEF Counts, Current, Kept, Holders, heap
    <3>6. QED
      BY <1>0, <3>1, <3>5 DEF Exact
  <2>3. QED
    BY <2>1, <2>2
<1>6. QED
  BY <1>2, <1>3, <1>4, <1>5 DEF kmsgbk, SCANU_RESULT_IND

LEMMA RefInvCorrect == Spec => []RefInv
<1>1. Init => RefInv
  <2> SUFFICES ASSUME Init
               PROVE  RefInv
    OBVIOUS
  <2>1. Counts /\ Kept
    BY DEF Init, Counts, Kept
  <2>2. Shape /\ Current /\ ~corrupt
    BY DEF Init, Shape, Current, Readers
  <2>3. QED
    BY <2>1, <2>2 DEF RefInv, Exact
<1>2. TypeOK /\ RefInv /\ [Next]_vars => RefInv'
  <2> SUFFICES ASSUME TypeOK, RefInv, [Next]_vars
               PROVE  RefInv'
    OBVIOUS
  <2>1. CASE Next
    <3>1. Shape'
      BY <2>1, ShapeStep DEF RefInv
    <3>2. ASSUME ~pulled'
          PROVE  ~pulled
      BY <2>1, <3>2 DEF Next, kmsgbk, reader, SCANU_RESULT_IND, result_ind_add,
         result_ind_new, SCANU_START_CFM, SM_CONNECT_IND, wpa_get_scan_rst,
         bk_wlan_get_scan_ap_result, sta_disable, wpa_hostapd_release_scan_rst,
         sr_release_scan_results, history
    <3>3. ~pulled' => Exact'
      BY <2>1, <3>2, ExactReader, ExactKmsgbk DEF RefInv, Next
    <3>4. QED
      BY <3>1, <3>3 DEF RefInv
  <2>2. CASE UNCHANGED vars
    BY <2>2 DEF RefInv, Exact, Shape, Counts, Current, Kept, Holders, vars,
       shared, heap, threads, history
  <2>3. QED
    BY <2>1, <2>2
<1>3. QED
  BY <1>1, <1>2, TypeCorrect, PTL DEF Spec

(***************************************************************************)
(* Until a handler pulls a set from under a reader, every count is the     *)
(* number of holders and every pointer to be released is good              *)
(* (sr_get_scan_results, sr_release_scan_results).                         *)
(***************************************************************************)
THEOREM RefCountsHoldersCorrect == Spec => []RefCountsHolders
<1>1. RefInv => RefCountsHolders
  BY DEF RefInv, Exact, Shape, Counts, Current, RefCountsHolders
<1>2. QED
  BY <1>1, RefInvCorrect, PTL

(***************************************************************************)
(* A result set is lost only through SM_CONNECT_IND or a pull.             *)
(***************************************************************************)
THEOREM LeakNeedsConnectCorrect == Spec => []LeakNeedsConnect
<1>1. RefInv => LeakNeedsConnect
  BY DEF RefInv, Exact, Kept, LeakNeedsConnect
<1>2. QED
  BY <1>1, RefInvCorrect, PTL
=============================================================================
