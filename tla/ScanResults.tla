---------------------------- MODULE ScanResults ----------------------------
(***************************************************************************)
(* The shared set of scan results and its reference count:                 *)
(*   sr_get_scan_results, sr_release_scan_results, sr_flush_scan_results   *)
(*   and the scan and connect handlers of rwnx_handle_recv_msg             *)
(*                                        (rwnx_intf/rw_msg_rx.c),         *)
(*   the copy the supplicant keeps        (hostapd_intf/hostapd_intf.c),   *)
(*   bk_wlan_get_scan_ap_result           (wlan_ui/wlan_ui.c),             *)
(* built with CFG_WPA_CTRL_IFACE and without CONFIG_SME.                   *)
(*                                                                         *)
(* The handlers run in the kmsgbk thread, which no reader can preempt, so  *)
(* each one is a step.  A reader disables interrupts while it takes a      *)
(* reference and copies, and again inside sr_release_scan_results; the     *)
(* handlers can run between the two.                                       *)
(*                                                                         *)
(* A release through a pointer to memory that is not a result set any more *)
(* sets corrupt, and the behaviour ends there.  sr_get_scan_results        *)
(* increments through a NULL pointer when there are no results: the write  *)
(* goes to the boot flash at address 0 and is taken to have no effect.     *)
(***************************************************************************)
EXTENDS Integers, FiniteSets

CONSTANTS
    Shells,     \* addresses sr_malloc_shell can return
    Apps,       \* threads that call bk_wlan_get_scan_ap_result
    Wpas,       \* the supplicant thread
    Bssids,     \* access points the MAC can find
    None,       \* the NULL pointer
    MAX_BSS_LIST,
    MaxScans,   \* bound on the number of scans
    MaxConnects \* bound on the number of connect indications

ASSUME ScanAssumption ==
    /\ None \notin Shells
    /\ Wpas \notin Apps
    /\ IsFiniteSet(Apps) /\ IsFiniteSet(Bssids)
    /\ MAX_BSS_LIST \in Nat /\ MaxScans \in Nat /\ MaxConnects \in Nat

VARIABLES
    scan_rst_set_ptr,          \* the current set of results
    resultful_scan_cfm,        \* 1: its scan is over
    s_scan_result_upload_ptr,  \* the supplicant's pointer to a set
    alloc,      \* shells that are allocated
    ref,        \* the reference count field of each shell
    res,        \* the results in each shell
    pc,         \* where each reader is
    held,       \* the local pointer it will release
    scans,      \* number of SCANU_START_CFM so far: the scan under way
    connects,   \* number of SM_CONNECT_IND so far
    pulled,     \* a handler released a set while a reader held it
    unread,     \* a connect indication met a set that no reader held
    corrupt     \* a reader released memory that was not a result set

heap == <<alloc, ref, res>>
threads == <<pc, held>>
shared == <<scan_rst_set_ptr, resultful_scan_cfm, s_scan_result_upload_ptr>>
bounds == <<scans, connects>>
history == <<pulled, unread, corrupt>>
vars == <<shared, heap, threads, bounds, history>>

Readers == Apps \cup {Wpas}

\* A result: who, heard on its own channel or beside it, in which scan.
Item == [bssid : Bssids, on_channel : BOOLEAN, scan : Nat]

\* The variables have the types of the code's; a reference count, which is
\* unsigned there, is never taken below 0.
TypeOK ==
    /\ scan_rst_set_ptr \in Shells \cup {None}
    /\ s_scan_result_upload_ptr \in Shells \cup {None}
    /\ resultful_scan_cfm \in {0, 1}
    /\ alloc \subseteq Shells
    /\ ref \in [Shells -> Nat]
    /\ res \in [Shells -> SUBSET Item]
    /\ pc \in [Readers -> {"idle", "test", "release"}]
    /\ held \in [Readers -> Shells \cup {None}]
    /\ scans \in Nat /\ connects \in Nat
    /\ pulled \in BOOLEAN /\ unread \in BOOLEAN /\ corrupt \in BOOLEAN

Init ==
    /\ scan_rst_set_ptr = None
    /\ resultful_scan_cfm = 0
    /\ s_scan_result_upload_ptr = None
    /\ alloc = {}
    /\ ref = [p \in Shells |-> 0]
    /\ res = [p \in Shells |-> {}]
    /\ pc = [t \in Readers |-> "idle"]
    /\ held = [t \in Readers |-> None]
    /\ scans = 0 /\ connects = 0
    /\ pulled = FALSE /\ unread = FALSE /\ corrupt = FALSE

\* The readers that have taken a reference to p and not yet given it back:
\* the supplicant keeps it in its static pointer before it starts to release.
Holders(p) ==
    {t \in Readers : held[t] = p}
        \cup {t \in {Wpas} : pc[t] = "test" /\ s_scan_result_upload_ptr = p}

-----------------------------------------------------------------------------
(***************************************************************************)
(* sr_get_scan_results and sr_release_scan_results                         *)
(***************************************************************************)
sr_get_scan_results ==
    ref' = IF scan_rst_set_ptr = None THEN ref
           ELSE [ref EXCEPT ![scan_rst_set_ptr] = @ + 1]

\* Faulty variant: the shell is emptied and not given back.
sr_free_all_kept(p) ==
    /\ ref' = [ref EXCEPT ![p] = 0]
    /\ res' = [res EXCEPT ![p] = {}]
    /\ UNCHANGED alloc

sr_free_all(p) ==
    /\ alloc' = alloc \ {p}
    /\ ref' = [ref EXCEPT ![p] = 0]
    /\ res' = [res EXCEPT ![p] = {}]

release_keep(p) ==
    /\ p = None \/ (p \in alloc /\ ref[p] = 0)
    /\ UNCHANGED heap

\* Faulty variant: without the test for a count of 0.
release_later_untested(p) ==
    /\ p \in alloc /\ ref[p] # 1
    /\ ref' = [ref EXCEPT ![p] = @ - 1]
    /\ UNCHANGED <<alloc, res>>

release_later(p) ==
    /\ p \in alloc /\ ref[p] > 1
    /\ ref' = [ref EXCEPT ![p] = @ - 1]
    /\ UNCHANGED <<alloc, res>>

release_last(p) ==
    /\ p \in alloc /\ ref[p] = 1
    /\ sr_free_all(p)
    /\ scan_rst_set_ptr' = None
    /\ resultful_scan_cfm' = 0
    /\ s_scan_result_upload_ptr' = None

\* A pointer to memory that is not a result set any more.
Freed(p) == p # None /\ p \notin alloc

-----------------------------------------------------------------------------
(***************************************************************************)
(* rwnx_handle_recv_msg, in the kmsgbk thread                              *)
(***************************************************************************)

\* Faulty variant: a known access point is entered again.
mhdr_scanu_result_ind_again(items, b, on) ==
    LET item == [bssid |-> b, on_channel |-> on, scan |-> scans]
    IN  {items} \cup
        IF Cardinality(items) >= MAX_BSS_LIST THEN {}
        ELSE {items \cup {item}}

\* The sets that mhdr_scanu_result_ind can leave: unchanged when the list is
\* full, the channel is not allowed here, the access point is known already
\* or there is no memory; otherwise with the item added or replaced.
mhdr_scanu_result_ind(items, b, on) ==
    LET known == {i \in items : i.bssid = b}
        item  == [bssid |-> b, on_channel |-> on, scan |-> scans]
    IN  {items} \cup
        IF \/ Cardinality(items) >= MAX_BSS_LIST
           \/ \E i \in known : i.on_channel \/ ~on
        THEN {}
        ELSE {(items \ known) \cup {item}}

\* sr_flush_scan_results before a result of a new scan is stored.
ToFlush == resultful_scan_cfm = 1 /\ scan_rst_set_ptr # None

result_ind_add(b, on) ==
    /\ ~ToFlush
    /\ scan_rst_set_ptr # None
    /\ \E items \in mhdr_scanu_result_ind(res[scan_rst_set_ptr], b, on) :
          res' = [res EXCEPT ![scan_rst_set_ptr] = items]
    /\ UNCHANGED <<shared, alloc, ref, threads, bounds, history>>

\* After the flush, or with no set, a new shell is needed; p may be the
\* memory that was just freed.
result_ind_new(b, on) ==
    /\ ToFlush \/ scan_rst_set_ptr = None
    /\ LET old  == IF ToFlush THEN {scan_rst_set_ptr} ELSE {}
           ref0 == [p \in Shells |-> IF p \in old THEN 0 ELSE ref[p]]
           res0 == [p \in Shells |-> IF p \in old THEN {} ELSE res[p]]
       IN  /\ pulled' = (pulled \/ \E p \in old : Holders(p) # {})
           /\ s_scan_result_upload_ptr' =
                 IF ToFlush THEN None ELSE s_scan_result_upload_ptr
           /\ \/ \E p \in Shells \ (alloc \ old) :
                    \E items \in mhdr_scanu_result_ind({}, b, on) :
                       /\ scan_rst_set_ptr' = p
                       /\ alloc' = (alloc \ old) \cup {p}
                       /\ ref' = [ref0 EXCEPT ![p] = 0]
                       /\ res' = [res0 EXCEPT ![p] = items]
              \/ /\ scan_rst_set_ptr' = None  \* sr_malloc_shell failed
                 /\ alloc' = alloc \ old
                 /\ ref' = ref0
                 /\ res' = res0
    /\ resultful_scan_cfm' = 0
    /\ UNCHANGED <<threads, bounds, unread, corrupt>>

SCANU_RESULT_IND(b, on) ==
    /\ scans < MaxScans
    /\ result_ind_add(b, on) \/ result_ind_new(b, on)

\* Faulty variant: the end of the scan is not recorded.
SCANU_START_CFM_unmarked ==
    /\ scans < MaxScans
    /\ scans' = scans + 1
    /\ UNCHANGED <<shared, heap, threads, connects, history>>

SCANU_START_CFM ==
    /\ scans < MaxScans
    /\ scans' = scans + 1
    /\ resultful_scan_cfm' =
          IF scan_rst_set_ptr = None THEN resultful_scan_cfm ELSE 1
    /\ UNCHANGED <<scan_rst_set_ptr, s_scan_result_upload_ptr, heap, threads,
                   connects, history>>

SM_CONNECT_IND ==
    /\ connects < MaxConnects
    /\ connects' = connects + 1
    /\ IF scan_rst_set_ptr = None
       THEN UNCHANGED <<shared, heap, pulled, unread>>
       ELSE /\ \/ /\ release_keep(scan_rst_set_ptr)
                  /\ UNCHANGED s_scan_result_upload_ptr
               \/ /\ release_later(scan_rst_set_ptr)
                  /\ UNCHANGED s_scan_result_upload_ptr
               \/ release_last(scan_rst_set_ptr)
            /\ scan_rst_set_ptr' = None
            /\ resultful_scan_cfm' = 0
            /\ pulled' = (pulled \/ Holders(scan_rst_set_ptr) # {})
            /\ unread' = (unread \/ Holders(scan_rst_set_ptr) = {})
    /\ UNCHANGED <<threads, scans, corrupt>>

-----------------------------------------------------------------------------
(***************************************************************************)
(* The readers                                                             *)
(***************************************************************************)

\* The part of bk_wlan_get_scan_ap_result with interrupts disabled.
bk_wlan_get_scan_ap_result(t) ==
    /\ pc[t] = "idle"
    /\ sr_get_scan_results
    /\ held' = [held EXCEPT ![t] = scan_rst_set_ptr]
    /\ pc' = [pc EXCEPT ![t] = "release"]
    /\ UNCHANGED <<shared, alloc, res, bounds, history>>

\* The part of wpa_get_scan_rst with interrupts disabled.
wpa_get_scan_rst ==
    /\ pc[Wpas] = "idle"
    /\ sr_get_scan_results
    /\ s_scan_result_upload_ptr' = scan_rst_set_ptr
    /\ pc' = [pc EXCEPT ![Wpas] =
                IF scan_rst_set_ptr = None THEN "idle" ELSE "test"]
    /\ UNCHANGED <<scan_rst_set_ptr, resultful_scan_cfm, alloc, res, held,
                   bounds, history>>

\* WPA_CTRL_CMD_STA_DISABLE calls wpa_hostapd_release_scan_rst.
sta_disable ==
    /\ pc[Wpas] = "idle"
    /\ pc' = [pc EXCEPT ![Wpas] = "test"]
    /\ UNCHANGED <<shared, heap, held, bounds, history>>

\* Faulty variant: releases the current set without taking a reference.
wpa_hostapd_release_scan_rst_unpaired ==
    /\ pc[Wpas] = "test"
    /\ pc' = [pc EXCEPT ![Wpas] = "release"]
    /\ held' = [held EXCEPT ![Wpas] =
                  IF s_scan_result_upload_ptr # None
                  THEN s_scan_result_upload_ptr ELSE scan_rst_set_ptr]
    /\ UNCHANGED <<shared, heap, bounds, history>>

\* wpa_hostapd_release_scan_rst up to the call of sr_release_scan_results: it
\* gives back the supplicant's own reference or, with none, takes one first.
wpa_hostapd_release_scan_rst ==
    /\ pc[Wpas] = "test"
    /\ pc' = [pc EXCEPT ![Wpas] = "release"]
    /\ IF s_scan_result_upload_ptr # None
       THEN /\ held' = [held EXCEPT ![Wpas] = s_scan_result_upload_ptr]
            /\ UNCHANGED ref
       ELSE /\ held' = [held EXCEPT ![Wpas] = scan_rst_set_ptr]
            /\ sr_get_scan_results
    /\ UNCHANGED <<shared, alloc, res, bounds, history>>

\* sr_release_scan_results in a reader.  The supplicant clears its static
\* pointer afterwards; nobody else reads that pointer.
sr_release_scan_results(t) ==
    /\ pc[t] = "release"
    /\ pc' = [pc EXCEPT ![t] = "idle"]
    /\ held' = [held EXCEPT ![t] = None]
    /\ \/ /\ \/ release_keep(held[t])
             \/ release_later(held[t])
             \/ Freed(held[t]) /\ UNCHANGED heap
          /\ s_scan_result_upload_ptr' =
                IF t = Wpas THEN None ELSE s_scan_result_upload_ptr
          /\ UNCHANGED <<scan_rst_set_ptr, resultful_scan_cfm>>
       \/ release_last(held[t])
    /\ corrupt' = Freed(held[t])
    /\ UNCHANGED <<bounds, pulled, unread>>

kmsgbk ==
    \/ \E b \in Bssids, on \in BOOLEAN : SCANU_RESULT_IND(b, on)
    \/ SCANU_START_CFM
    \/ SM_CONNECT_IND

reader ==
    \/ \E t \in Apps : bk_wlan_get_scan_ap_result(t)
    \/ wpa_get_scan_rst
    \/ sta_disable
    \/ wpa_hostapd_release_scan_rst
    \/ \E t \in Readers : sr_release_scan_results(t)

Next == ~corrupt /\ (kmsgbk \/ reader)

Spec == Init /\ [][Next]_vars

-----------------------------------------------------------------------------
(***************************************************************************)
(* Properties                                                              *)
(***************************************************************************)

\* resultful_scan_cfm tells the two kinds of set apart: while it is 0 the
\* current set holds only results of the scan under way, and while it is 1
\* only results of earlier scans.  Were it wrong, SCANU_RESULT_IND would mix
\* the results of two scans or throw away those of its own.
FlagTellsScan ==
    scan_rst_set_ptr # None =>
        \A i \in res[scan_rst_set_ptr] :
            IF resultful_scan_cfm = 1 THEN i.scan < scans ELSE i.scan = scans

\* mhdr_scanu_result_ind keeps one entry per access point, across the
\* replacement of an off-channel one, and at most MAX_BSS_LIST of them.
OneEntryPerBss ==
    \A p \in alloc :
        /\ Cardinality(res[p]) <= MAX_BSS_LIST
        /\ \A i, j \in res[p] : i.bssid = j.bssid => i = j

\* Until a handler of the kmsgbk thread releases a set that a reader holds,
\* the count of every set is the number of its holders, and every pointer a
\* reader will release is to a set that is still there.
RefCountsHolders ==
    ~pulled =>
        /\ \A p \in alloc : ref[p] = Cardinality(Holders(p))
        /\ \A t \in Readers : held[t] # None => held[t] \in alloc

\* A set that is neither current nor held is lost for good: this takes a
\* connect indication that finds a set nobody holds (sr_release_scan_results
\* does nothing at a count of 0, and the handler then drops the pointer), or
\* one that pulls a set from under its readers.
LeakNeedsConnect ==
    \A p \in alloc :
        p # scan_rst_set_ptr /\ Holders(p) = {} => unread \/ pulled

\* "sr_get_scan_results and sr_release_scan_results have to come in pairs":
\* a set is not freed between a reader's get and its release.
HeldNotFreed == \A t \in Readers : held[t] # None => held[t] \in alloc
=============================================================================
