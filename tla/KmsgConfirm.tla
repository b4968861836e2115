---------------------------- MODULE KmsgConfirm ----------------------------
(***************************************************************************)
(* Requests to the MAC and their confirmations:                            *)
(*   rw_msg_send      (rwnx_intf/rw_msg_tx.c)  the calling threads,        *)
(*   mr_kmsg_fwd      (rwnx_intf/rw_msg_rx.c)  messages from the MAC,      *)
(*   rwnx_recv_msg    (rwnx_intf/rw_msg_rx.c)  run by the kmsgbk thread    *)
(*                    whose loop is kmsg_bk_thread_main (app/app.c).       *)
(*                                                                         *)
(* A call that wants an answer allocates a node (MSG_SND_NODE_ST) with a   *)
(* semaphore and a pointer to the caller's cfm buffer, links it into       *)
(* rw_msg_tx_head, posts the request on the bus and waits on the semaphore *)
(* for five seconds.  The kmsgbk thread matches each message from the MAC  *)
(* with the first node that waits for its id.                              *)
(*                                                                         *)
(* The kmsgbk thread (THD_APPLICATION_PRIORITY) has a higher priority than *)
(* every thread of this repository that calls rw_msg_send, so with High    *)
(* empty a caller runs only while the kmsgbk thread is blocked; High holds *)
(* the callers that a product adds at its priority or above it.            *)
(*                                                                         *)
(* The list is protected by disabling interrupts around each list call,    *)
(* and by nothing between two of them, so the kmsgbk thread carries a      *)
(* pointer to a node across steps of its owner.  An access to a node that  *)
(* was freed sets corrupt; what the machine does after that is not         *)
(* modelled, and the behaviour ends there.                                 *)
(***************************************************************************)
EXTENDS Integers, Sequences, FiniteSets, SequencesExt

CONSTANTS
    Callers,    \* threads that call rw_msg_send with a cfm buffer
    High,       \* those that can preempt the kmsgbk thread
    Nodes,      \* addresses os_malloc can return for a node
    Reqs,       \* ids of confirmations that callers wait for
    Ind,        \* stands for every other id: indications, cfm of calls without a buffer
    None,       \* the NULL pointer
    MaxCalls,   \* bound on the number of calls
    MaxInds     \* bound on the number of messages with another id

ASSUME KmsgAssumption ==
    /\ High \subseteq Callers
    /\ None \notin Nodes /\ None \notin Callers
    /\ Ind \notin Reqs
    /\ MaxCalls \in Nat /\ MaxInds \in Nat

VARIABLES
    pc,          \* where each caller is in rw_msg_send
    req,         \* the id its current call waits for
    call,        \* the number of its current call (0 before the first)
    ptr,         \* its local tx_msg
    cfm,         \* whose answer its cfm buffer holds: a call number, or 0
    ret,         \* what its last call returned
    live,        \* nodes that are allocated
    fields,      \* reqid, owner and semaphore count of each node
    tx_head,     \* rw_msg_tx_head
    stale,       \* the next pointer that a node kept when it was unlinked
    mac,         \* requests on the bus or in the MAC, in order of arrival
    rx_head,     \* rw_msg_rx_head
    fwd,         \* mr_kmsg_fwd has linked a message and not yet set app_sema
    app_sema,    \* the binary semaphore the kmsgbk thread sleeps on
    k_pc, k_msg, k_cur,  \* kmsgbk thread: position, rx_msg, tx_node
    calls, inds, \* numbers of calls and of other messages so far
    corrupt,     \* an access to a freed node has happened
    abandoned,   \* history: a node was freed without being unlinked
    raced,       \* history: a node was freed while rwnx_recv_msg walked the list
    overlap      \* history: ids for which a call began before the last was over

callerVars == <<pc, req, call, ptr, cfm, ret>>
heapVars == <<live, fields>>
listVars == <<tx_head, stale>>
macVars == <<mac, rx_head, fwd, app_sema, inds>>
kmsgVars == <<k_pc, k_msg, k_cur>>
histVars == <<abandoned, raced, overlap>>
vars == <<callerVars, heapVars, listVars, macVars, kmsgVars, calls, corrupt, histVars>>

\* Positions at which rwnx_recv_msg holds a pointer into rw_msg_tx_head.
Walking == {"compare", "next", "extract", "copy", "signal"}

\* The scheduler gives the processor to a caller: the kmsgbk thread sleeps
\* on app_sema, or an event callback that it calls may be blocked.
MayRun(c) ==
    \/ c \in High
    \/ k_pc = "wait" /\ app_sema = 0
    \/ k_pc = "handle"

Msg == [id : Reqs \cup {Ind}, call : Nat]
NoMsg == [id |-> Ind, call |-> 0]
NoFields == [reqid |-> Ind, owner |-> None, sema |-> 0]

Init ==
    /\ pc = [c \in Callers |-> "idle"]
    /\ req = [c \in Callers |-> Ind]
    /\ call = [c \in Callers |-> 0]
    /\ ptr = [c \in Callers |-> None]
    /\ cfm = [c \in Callers |-> 0]
    /\ ret = [c \in Callers |-> 0]
    /\ live = {}
    /\ fields = [n \in Nodes |-> NoFields]
    /\ tx_head = <<>>
    /\ stale = [n \in Nodes |-> None]
    /\ mac = <<>> /\ rx_head = <<>> /\ fwd = FALSE /\ app_sema = 0 /\ inds = 0
    /\ k_pc = "wait" /\ k_msg = NoMsg /\ k_cur = None
    /\ calls = 0
    /\ corrupt = FALSE
    /\ abandoned = FALSE /\ raced = FALSE /\ overlap = {}
-----------------------------------------------------------------------------
(***************************************************************************)
(* rw_msg_tx_head and its operations.  co_list_push_back and               *)
(* co_list_extract are in the MAC library (external), co_list_next is      *)
(* inline.  Each runs with interrupts disabled; each reads or writes some  *)
(* of the linked nodes.                                                    *)
(***************************************************************************)
Linked == {tx_head[i] : i \in 1 .. Len(tx_head)}
Pos(n) == CHOOSE i \in 1 .. Len(tx_head) : tx_head[i] = n

\* The node after the one at position i, or None.
Successor(i) == IF i < Len(tx_head) THEN tx_head[i + 1] ELSE None

\* co_list_push_back writes the next field of the last node; linking an
\* address that is still in the list, that of a freed node, breaks the list.
PushTouches(n) == {tx_head[i] : i \in {Len(tx_head)} \ {0}} \cup ({n} \cap Linked)

\* co_list_extract walks from the first node to the one it looks for.
ExtractTouches(n) ==
    IF n \in Linked THEN {tx_head[i] : i \in 1 .. Pos(n)} ELSE Linked

co_list_extract(n) ==
    IF n \in Linked
    THEN /\ tx_head' = RemoveAt(tx_head, Pos(n))
         /\ stale' = [stale EXCEPT ![n] = Successor(Pos(n))]
    ELSE UNCHANGED listVars

\* co_list_next: a node that was unlinked still points where it used to.
co_list_next(n) == IF n \in Linked THEN Successor(Pos(n)) ELSE stale[n]

\* A step that accesses the nodes in set T: it ends the behaviour if one of
\* them was freed, and otherwise has the effect A.
Touching(T, A) ==
    \/ /\ T \subseteq live
       /\ A
       /\ UNCHANGED corrupt
    \/ /\ ~(T \subseteq live)
       /\ corrupt' = TRUE
       /\ UNCHANGED <<callerVars, heapVars, listVars, macVars, kmsgVars, calls, histVars>>
-----------------------------------------------------------------------------
(***************************************************************************)
(* Variants of operations below with a mistake that is easy to make in     *)
(* this code.  They are not part of Next; each shows that some property    *)
(* would notice the mistake.                                               *)
(***************************************************************************)
\* app_sema counts instead of being binary.
app_set_sema_counting ==
    /\ fwd
    /\ app_sema' = app_sema + 1
    /\ fwd' = FALSE
    /\ UNCHANGED <<callerVars, heapVars, listVars, mac, rx_head, inds, kmsgVars, calls, corrupt, histVars>>

\* A call that timed out leaves its node in the list.
timeout_extract_forgotten(c) ==
    /\ pc[c] = "expired" /\ MayRun(c)
    /\ pc' = [pc EXCEPT ![c] = "unlinked"]
    /\ UNCHANGED <<req, call, ptr, cfm, ret, heapVars, listVars, macVars, kmsgVars, calls, corrupt, histVars>>

\* The semaphore is waited for without a timeout.
get_semaphore_timeout_never(c) == FALSE

\* The first node of the list is taken whatever id it waits for.
recv_match_any ==
    /\ k_pc' = "extract"
    /\ UNCHANGED <<callerVars, heapVars, listVars, macVars, k_msg, k_cur, calls, histVars>>

\* The node that was answered stays in the list.
recv_extract_forgotten ==
    /\ k_pc = "extract"
    /\ Touching(ExtractTouches(k_cur),
          /\ k_pc' = "copy"
          /\ UNCHANGED <<callerVars, heapVars, listVars, macVars, k_msg, k_cur, calls, histVars>>)

\* One message is taken per wakeup instead of all that are there.
recv_handle_once ==
    /\ k_pc = "handle"
    /\ k_pc' = "wait"
    /\ UNCHANGED <<callerVars, heapVars, listVars, macVars, k_msg, k_cur, calls, corrupt, histVars>>
-----------------------------------------------------------------------------
(***************************************************************************)
(* rw_msg_send with a cfm buffer.                                          *)
(***************************************************************************)
\* A call for this id is not over: its caller is still in rw_msg_send, or a
\* request or an answer that nobody waits for any more is still under way.
Pending(r) ==
    \/ \E c \in Callers : pc[c] # "idle" /\ req[c] = r
    \/ \E i \in DOMAIN mac : mac[i].id = r
    \/ \E i \in DOMAIN rx_head : rx_head[i].id = r
    \/ k_pc # "wait" /\ k_msg.id = r

\* The node is allocated, filled in and linked.
link_node(c, r, n) ==
    /\ calls' = calls + 1
    /\ pc' = [pc EXCEPT ![c] = "linked"]
    /\ req' = [req EXCEPT ![c] = r]
    /\ call' = [call EXCEPT ![c] = calls + 1]
    /\ ptr' = [ptr EXCEPT ![c] = n]
    /\ cfm' = [cfm EXCEPT ![c] = 0]
    /\ ret' = [ret EXCEPT ![c] = 0]
    /\ live' = live \cup {n}
    /\ fields' = [fields EXCEPT ![n] = [reqid |-> r, owner |-> c, sema |-> 0]]
    /\ tx_head' = Append(tx_head, n)
    /\ overlap' = IF Pending(r) THEN overlap \cup {r} ELSE overlap
    /\ UNCHANGED <<stale, macVars, kmsgVars, abandoned, raced>>

rw_msg_send(c, r, n) ==
    /\ pc[c] = "idle" /\ MayRun(c) /\ n \notin live /\ calls < MaxCalls
    /\ Touching(PushTouches(n), link_node(c, r, n))

\* bmsg_ioctl_sender: room in io_queue depends on the rest of the traffic.
send_posted(c) ==
    /\ pc[c] = "linked" /\ MayRun(c)
    /\ mac' = Append(mac, [id |-> req[c], call |-> call[c]])
    /\ pc' = [pc EXCEPT ![c] = "waiting"]
    /\ UNCHANGED <<req, call, ptr, cfm, ret, heapVars, listVars, rx_head, fwd, app_sema, inds,
                   kmsgVars, calls, corrupt, histVars>>

\* rtos_deinit_semaphore and os_free(tx_msg), which end every call: its local
\* variables are gone; the freed memory keeps the reqid until it is reused.
free_node(c, value) ==
    /\ ret' = [ret EXCEPT ![c] = value]
    /\ pc' = [pc EXCEPT ![c] = "idle"]
    /\ req' = [req EXCEPT ![c] = Ind]
    /\ call' = [call EXCEPT ![c] = 0]
    /\ ptr' = [ptr EXCEPT ![c] = None]
    /\ cfm' = [cfm EXCEPT ![c] = 0]
    /\ live' = live \ {ptr[c]}
    /\ fields' = [fields EXCEPT ![ptr[c]].owner = None, ![ptr[c]].sema = 0]
    /\ stale' = [stale EXCEPT ![ptr[c]] = None]
    /\ UNCHANGED <<tx_head, macVars, kmsgVars, calls, corrupt, overlap>>

\* The push failed: the node is freed and stays in the list.
send_failed(c) ==
    /\ pc[c] = "linked" /\ MayRun(c)
    /\ free_node(c, -1)
    /\ abandoned' = TRUE
    /\ UNCHANGED raced

get_semaphore(c) ==
    /\ pc[c] = "waiting" /\ MayRun(c) /\ fields[ptr[c]].sema = 1
    /\ free_node(c, 0)
    /\ UNCHANGED <<abandoned, raced>>

get_semaphore_timeout(c) ==
    /\ pc[c] = "waiting" /\ MayRun(c) /\ fields[ptr[c]].sema = 0
    /\ pc' = [pc EXCEPT ![c] = "expired"]
    /\ UNCHANGED <<req, call, ptr, cfm, ret, heapVars, listVars, macVars, kmsgVars, calls, corrupt, histVars>>

timeout_extract(c) ==
    /\ pc[c] = "expired" /\ MayRun(c)
    /\ Touching(ExtractTouches(ptr[c]),
          /\ co_list_extract(ptr[c])
          /\ pc' = [pc EXCEPT ![c] = "unlinked"]
          /\ UNCHANGED <<req, call, ptr, cfm, ret, heapVars, macVars, kmsgVars, calls, histVars>>)

timeout_free(c) ==
    /\ pc[c] = "unlinked" /\ MayRun(c)
    /\ free_node(c, -1)
    /\ raced' = (raced \/ k_pc \in Walking)
    /\ UNCHANGED abandoned
-----------------------------------------------------------------------------
(***************************************************************************)
(* The MAC (external): it answers requests with the same id in the order   *)
(* they came, may take any time over it, and sends messages of its own.    *)
(* Both go through mr_kmsg_fwd, in the core thread.                        *)
(***************************************************************************)
mac_confirm(i) ==
    /\ ~fwd
    /\ \A j \in 1 .. (i - 1) : mac[j].id # mac[i].id
    /\ rx_head' = Append(rx_head, mac[i])
    /\ mac' = RemoveAt(mac, i)
    /\ fwd' = TRUE
    /\ UNCHANGED <<callerVars, heapVars, listVars, app_sema, inds, kmsgVars, calls, corrupt, histVars>>

mac_indication ==
    /\ ~fwd /\ inds < MaxInds
    /\ inds' = inds + 1
    /\ rx_head' = Append(rx_head, NoMsg)
    /\ fwd' = TRUE
    /\ UNCHANGED <<callerVars, heapVars, listVars, mac, app_sema, kmsgVars, calls, corrupt, histVars>>

app_set_sema ==
    /\ fwd
    /\ app_sema' = 1
    /\ fwd' = FALSE
    /\ UNCHANGED <<callerVars, heapVars, listVars, mac, rx_head, inds, kmsgVars, calls, corrupt, histVars>>
-----------------------------------------------------------------------------
(***************************************************************************)
(* kmsg_bk_thread_main and rwnx_recv_msg.                                  *)
(***************************************************************************)
kmsg_wait ==
    /\ k_pc = "wait" /\ app_sema = 1
    /\ app_sema' = 0
    /\ k_pc' = "pop"
    /\ UNCHANGED <<callerVars, heapVars, listVars, mac, rx_head, fwd, inds, k_msg, k_cur,
                   calls, corrupt, histVars>>

\* co_list_pop_front disables interrupts itself.
recv_pop ==
    /\ k_pc = "pop"
    /\ k_cur' = None
    /\ \/ rx_head = <<>> /\ k_pc' = "wait" /\ k_msg' = NoMsg /\ UNCHANGED rx_head
       \/ rx_head # <<>> /\ k_pc' = "pick" /\ k_msg' = Head(rx_head) /\ rx_head' = Tail(rx_head)
    /\ UNCHANGED <<callerVars, heapVars, listVars, mac, fwd, app_sema, inds, calls, corrupt, histVars>>

recv_goto(n) ==
    /\ k_cur' = n
    /\ k_pc' = IF n = None THEN "handle" ELSE "compare"
    /\ UNCHANGED <<callerVars, heapVars, listVars, macVars, k_msg, calls, histVars>>

recv_pick ==
    /\ k_pc = "pick"
    /\ recv_goto(IF tx_head = <<>> THEN None ELSE Head(tx_head))
    /\ UNCHANGED corrupt

recv_match ==
    /\ k_pc' = IF fields[k_cur].reqid = k_msg.id THEN "extract" ELSE "next"
    /\ UNCHANGED <<callerVars, heapVars, listVars, macVars, k_msg, k_cur, calls, histVars>>

\* Reading a freed node gives what it was, or what the memory is used for now.
recv_compare ==
    /\ k_pc = "compare"
    /\ \/ Touching({k_cur}, recv_match)
       \/ k_cur \notin live /\ recv_match /\ UNCHANGED corrupt

recv_next ==
    /\ k_pc = "next"
    /\ Touching({k_cur}, recv_goto(co_list_next(k_cur)))

recv_extract ==
    /\ k_pc = "extract"
    /\ Touching(ExtractTouches(k_cur),
          /\ co_list_extract(k_cur)
          /\ k_pc' = "copy"
          /\ UNCHANGED <<callerVars, heapVars, macVars, k_msg, k_cur, calls, histVars>>)

\* os_memcpy(tx_msg->cfm, ...): into the buffer of the node's owner.
recv_copy ==
    /\ k_pc = "copy"
    /\ Touching({k_cur},
          /\ cfm' = [cfm EXCEPT ![fields[k_cur].owner] = k_msg.call]
          /\ k_pc' = "signal"
          /\ UNCHANGED <<pc, req, call, ptr, ret, heapVars, listVars, macVars, k_msg, k_cur, calls, histVars>>)

recv_signal ==
    /\ k_pc = "signal"
    /\ Touching({k_cur},
          /\ fields' = [fields EXCEPT ![k_cur].sema = 1]
          /\ k_pc' = "pop"
          /\ UNCHANGED <<callerVars, live, listVars, macVars, k_msg, k_cur, calls, histVars>>)

\* rwnx_handle_recv_msg: nobody waits for the message.
recv_handle ==
    /\ k_pc = "handle"
    /\ k_pc' = "pop"
    /\ UNCHANGED <<callerVars, heapVars, listVars, macVars, k_msg, k_cur, calls, corrupt, histVars>>

kmsg_thread ==
    \/ kmsg_wait \/ recv_pop \/ recv_pick \/ recv_compare \/ recv_next
    \/ recv_extract \/ recv_copy \/ recv_signal \/ recv_handle

caller_step(c) ==
    \/ send_posted(c) \/ send_failed(c) \/ get_semaphore(c)
    \/ get_semaphore_timeout(c) \/ timeout_extract(c) \/ timeout_free(c)

mac_step == mac_indication \/ app_set_sema \/ \E i \in 1 .. Len(mac) : mac_confirm(i)

Next ==
    /\ ~corrupt
    /\ \/ \E c \in Callers, r \in Reqs, n \in Nodes : rw_msg_send(c, r, n)
       \/ \E c \in Callers : caller_step(c)
       \/ mac_step
       \/ kmsg_thread

Spec == Init /\ [][Next]_vars

\* The kmsgbk thread never waits for anything but app_sema, a caller waits at
\* most five seconds and runs whenever kmsgbk sleeps, and mr_kmsg_fwd, once it
\* has linked the message, goes on to set app_sema.
Fairness ==
    /\ WF_vars(~corrupt /\ kmsg_thread)
    /\ WF_vars(~corrupt /\ app_set_sema)
    /\ \A c \in Callers : WF_vars(~corrupt /\ caller_step(c))

FairSpec == Spec /\ Fairness
-----------------------------------------------------------------------------
CallerTypes ==
    /\ pc \in [Callers -> {"idle", "linked", "waiting", "expired", "unlinked"}]
    /\ req \in [Callers -> Reqs \cup {Ind}]
    /\ call \in [Callers -> Nat]
    /\ ptr \in [Callers -> Nodes \cup {None}]
    /\ cfm \in [Callers -> Nat]
    /\ ret \in [Callers -> {0, -1}]

HeapTypes ==
    /\ live \in SUBSET Nodes
    /\ fields \in [Nodes -> [reqid : Reqs \cup {Ind}, owner : Callers \cup {None}, sema : {0, 1}]]

ListTypes ==
    /\ tx_head \in Seq(Nodes)
    /\ stale \in [Nodes -> Nodes \cup {None}]

MacTypes ==
    /\ mac \in Seq(Msg)
    /\ rx_head \in Seq(Msg)
    /\ fwd \in BOOLEAN
    /\ app_sema \in {0, 1}
    /\ inds \in Nat

KmsgTypes ==
    /\ k_pc \in {"wait", "pop", "pick", "compare", "next", "extract", "copy", "signal", "handle"}
    /\ k_msg \in Msg
    /\ k_cur \in Nodes \cup {None}

HistTypes ==
    /\ calls \in Nat
    /\ corrupt \in BOOLEAN
    /\ abandoned \in BOOLEAN
    /\ raced \in BOOLEAN
    /\ overlap \in SUBSET Reqs

\* The variables have the types of the code's; app_sema and the semaphores of
\* the nodes are binary.
TypeOK ==
    CallerTypes /\ HeapTypes /\ ListTypes /\ MacTypes /\ KmsgTypes /\ HistTypes

(***************************************************************************)
(* A freed node is accessed only after one of two things: rw_msg_send gave *)
(* up because the bus was full and left its node in the list, or a thread  *)
(* that can preempt kmsgbk timed out while rwnx_recv_msg walked the list.  *)
(* At the priorities of this repository only the first can happen.         *)
(***************************************************************************)
CorruptionNeedsFault == corrupt => abandoned \/ (raced /\ High # {})

(***************************************************************************)
(* A call gets the answer to its own request, unless it began while an     *)
(* earlier call for the same id was still under way: two threads in        *)
(* rw_msg_send at once, or a late answer to a call that timed out.  (After *)
(* a fault of CorruptionNeedsFault the address of a freed node may belong  *)
(* to a call for another id.)                                              *)
(***************************************************************************)
AnswerIsMine ==
    ~abandoned /\ ~raced =>
        \A c \in Callers : cfm[c] # 0 => cfm[c] = call[c] \/ req[c] \in overlap

(***************************************************************************)
(* The kmsgbk thread does not sleep over a message: while it waits with    *)
(* messages in rw_msg_rx_head, app_sema is set or about to be.             *)
(***************************************************************************)
NoLostWakeup == k_pc = "wait" /\ rx_head # <<>> => app_sema = 1 \/ fwd

(***************************************************************************)
(* What ASSERT(0 == ret) after rtos_set_semaphore in rwnx_recv_msg says:   *)
(* the node that matched the message still exists, and its semaphore, the  *)
(* one the kmsgbk thread is about to give, is not given yet.               *)
(***************************************************************************)
SetSemaphoreSucceeds ==
    k_pc \in {"extract", "copy", "signal"} =>
        k_cur \in live /\ fields[k_cur].sema = 0

(***************************************************************************)
(* rw_msg_send always returns.                                             *)
(***************************************************************************)
CallsReturn == \A c \in Callers : pc[c] # "idle" ~> (pc[c] = "idle" \/ corrupt)

\* Confirmations that are under way and have not reached a cfm buffer.
Tickets ==
    {m \in {mac[i] : i \in DOMAIN mac} \cup {rx_head[i] : i \in DOMAIN rx_head}
           \cup (IF k_pc \in {"pick", "compare", "next", "extract", "copy", "handle"}
                 THEN {k_msg} ELSE {}) : m.id \in Reqs}

\* The id that each caller waits for, and that a fault has happened.
WaitsFor == [c \in Callers |-> IF pc[c] = "idle" THEN Ind ELSE req[c]]
Broken == abandoned \/ raced

(***************************************************************************)
(* Until one of the two faults of CorruptionNeedsFault happens, the lists, *)
(* nodes and semaphores implement a service in which a confirmation        *)
(* answers at most one call, a call gets at most one answer and only one   *)
(* for its id, and success is returned only for an answered call.          *)
(***************************************************************************)
Service == INSTANCE ConfirmService WITH
    waiting <- WaitsFor,
    answer <- cfm,
    tickets <- Tickets,
    result <- ret,
    broken <- Broken

ImplementsService == Service!Spec
=============================================================================
