------------------------- MODULE KmsgServiceProofs -------------------------
(***************************************************************************)
(* Until a fault, rw_msg_send, mr_kmsg_fwd and rwnx_recv_msg implement     *)
(* ConfirmService, and a call gets the answer to its own request: proofs   *)
(* for every set of callers, whatever their priorities, every set of node  *)
(* addresses and every set of ids.  KmsgConfirmProofs says which nodes are *)
(* allocated and linked (NodeInv); this module adds what they are for.     *)
(***************************************************************************)
EXTENDS KmsgConfirmProofs

\* Positions at which the kmsgbk thread holds a message that is not answered.
Holding == {"pick", "compare", "next", "extract", "copy", "handle"}

\* No two requests or confirmations in the sequence are for the same call.
Distinct(s) ==
    \A i, j \in 1 .. Len(s) :
        s[i].id \in Reqs /\ s[j].id \in Reqs /\ s[i].call = s[j].call => i = j

\* Two sets of messages have no call in common.
Apart(S, T) ==
    \A m \in S, u \in T : m.id \in Reqs /\ u.id \in Reqs => m.call # u.call

Held == IF k_pc \in Holding THEN {k_msg} ELSE {}
Flight == Elems(mac) \cup Elems(rx_head) \cup Held

\* What a call knows of itself: its id, its number, its node.
CallInv ==
    /\ \A c \in Callers : pc[c] = "idle" => cfm[c] = 0
    /\ \A c \in Callers : pc[c] # "idle" =>
          /\ req[c] \in Reqs
          /\ call[c] \in 1 .. calls
          /\ fields[ptr[c]].owner = c
          /\ fields[ptr[c]].reqid = req[c]
    /\ \A c, d \in Callers :
          pc[c] # "idle" /\ pc[d] # "idle" /\ call[c] = call[d] => c = d

\* An allocated node belongs to a call that is not over.
NodeOwner ==
    \A n \in live : /\ fields[n].owner \in Callers
                    /\ pc[fields[n].owner] # "idle"
                    /\ ptr[fields[n].owner] = n

\* Each call has at most one message under way, none before it is posted.
FlightInv ==
    /\ \A m \in Flight : m.id \in Reqs => m.call \in 1 .. calls
    /\ \A c \in Callers, m \in Flight :
          pc[c] = "linked" /\ m.id \in Reqs => m.call # call[c]
    /\ Distinct(mac) /\ Distinct(rx_head)
    /\ Apart(Elems(mac), Elems(rx_head))
    /\ Apart(Held, Elems(mac) \cup Elems(rx_head))

\* A node that matched waits for the id of the message.
MatchInv == k_pc \in {"extract", "copy"} => fields[k_cur].reqid = k_msg.id

\* The buffer of a call holds an answer exactly when its semaphore was given
\* or is about to be.
AnswerInv ==
    \A c \in Callers : pc[c] # "idle" =>
        (cfm[c] # 0 <=> \/ fields[ptr[c]].sema = 1
                        \/ k_pc = "signal" /\ k_cur = ptr[c])

\* While a call for an id that no other call overlaps is under way, every message
\* with that id is about this call.
SoleInv ==
    /\ k_pc = "wait" => k_msg.id = Ind
    /\ \A c \in Callers : pc[c] # "idle" /\ req[c] \notin overlap =>
          /\ \A d \in Callers : pc[d] # "idle" /\ req[d] = req[c] => d = c
          /\ \A m \in Elems(mac) \cup Elems(rx_head) \cup {k_msg} :
                m.id = req[c] => m.call = call[c]
          /\ cfm[c] # 0 => cfm[c] = call[c]

ServiceInv == CallInv /\ NodeOwner /\ FlightInv /\ MatchInv /\ AnswerInv /\ SoleInv
SInv == ~abandoned /\ ~raced => ServiceInv
-----------------------------------------------------------------------------
\* The messages of a sequence from which one was taken.
LEMMA RemoveDistinct ==
    ASSUME NEW s \in Seq(Msg), NEW i \in 1 .. Len(s), Distinct(s)
    PROVE  /\ Elems(s) = Elems(RemoveAt(s, i)) \cup {s[i]}
           /\ Distinct(RemoveAt(s, i))
           /\ Apart({s[i]}, Elems(RemoveAt(s, i)))
<1> SUFFICES ASSUME NEW r, r = RemoveAt(s, i)
             PROVE  /\ Elems(s) = Elems(r) \cup {s[i]}
                    /\ Distinct(r)
                    /\ Apart({s[i]}, Elems(r))
  OBVIOUS
<1>1. /\ Len(s) \in Nat /\ i \in Nat /\ 1 <= i /\ i <= Len(s)
      /\ Len(r) = Len(s) - 1
      /\ \A j \in 1 .. Len(s) - 1 : r[j] = IF j < i THEN s[j] ELSE s[j + 1]
  BY RemoveAtFacts
<1>2. ASSUME NEW j \in 1 .. Len(r)
      PROVE  \E k \in 1 .. Len(s) : k # i /\ r[j] = s[k]
  BY <1>1
<1>3. ASSUME NEW k \in 1 .. Len(s), k # i
      PROVE  \E j \in 1 .. Len(r) : r[j] = s[k]
  <2>1. CASE k < i
    BY <2>1, <1>1
  <2>2. CASE k > i
    <3>1. k - 1 \in 1 .. Len(r) /\ ~(k - 1 < i) /\ (k - 1) + 1 = k
      BY <2>2, <1>1
    <3> QED BY <3>1, <1>1
  <2> QED BY <2>1, <2>2, <1>1, <1>3
<1>4. Elems(s) = Elems(r) \cup {s[i]}
  <2>1. s[i] \in Elems(s)
    BY DEF Elems
  <2>2. Elems(r) \subseteq Elems(s)
    BY <1>2 DEF Elems
  <2>3. Elems(s) \subseteq Elems(r) \cup {s[i]}
    BY <1>3 DEF Elems
  <2> QED BY <2>1, <2>2, <2>3
<1>5. Distinct(r)
  <2> DEFINE at(j) == IF j < i THEN j ELSE j + 1
  <2>1. \A j \in 1 .. Len(r) : at(j) \in 1 .. Len(s) /\ r[j] = s[at(j)]
    BY <1>1
  <2>2. \A j, k \in 1 .. Len(r) : at(j) = at(k) => j = k
    BY <1>1
  <2> HIDE DEF at
  <2> QED BY <2>1, <2>2 DEF Distinct
<1>6. Apart({s[i]}, Elems(r))
  BY <1>2 DEF Apart, Distinct, Elems
<1> QED BY <1>4, <1>5, <1>6

\* The messages of a sequence to which one was added.
LEMMA AppendDistinct ==
    ASSUME NEW s \in Seq(Msg), NEW x \in Msg
    PROVE  /\ Elems(Append(s, x)) = Elems(s) \cup {x}
           /\ Distinct(s) /\ Apart({x}, Elems(s)) => Distinct(Append(s, x))
<1>1. /\ Len(Append(s, x)) = Len(s) + 1 /\ Len(s) \in Nat
      /\ \A i \in 1 .. Len(s) : Append(s, x)[i] = s[i]
      /\ Append(s, x)[Len(s) + 1] = x
  OBVIOUS
<1>2. Elems(Append(s, x)) \subseteq Elems(s) \cup {x}
  BY <1>1 DEF Elems
<1>3. Elems(s) \cup {x} \subseteq Elems(Append(s, x))
  BY <1>1 DEF Elems
<1>4. ASSUME Distinct(s), Apart({x}, Elems(s))
      PROVE  Distinct(Append(s, x))
  BY <1>1, <1>4 DEF Distinct, Apart, Elems
<1> QED BY <1>2, <1>3, <1>4

\* The messages of a sequence without its first.
LEMMA TailDistinct ==
    ASSUME NEW s \in Seq(Msg), s # <<>>, Distinct(s)
    PROVE  /\ Head(s) \in Msg
           /\ Elems(s) = Elems(Tail(s)) \cup {Head(s)}
           /\ Distinct(Tail(s))
           /\ Apart({Head(s)}, Elems(Tail(s)))
<1>1. /\ Len(s) \in Nat /\ Len(s) >= 1 /\ Len(Tail(s)) = Len(s) - 1
      /\ Head(s) = s[1] /\ s[1] \in Msg
      /\ \A i \in 1 .. Len(s) - 1 : Tail(s)[i] = s[i + 1]
  OBVIOUS
<1>2. Elems(Tail(s)) \cup {Head(s)} \subseteq Elems(s)
  BY <1>1 DEF Elems
<1>3. ASSUME NEW k \in 1 .. Len(s), k # 1
      PROVE  \E j \in 1 .. Len(Tail(s)) : Tail(s)[j] = s[k]
  <2>1. k - 1 \in 1 .. Len(s) - 1 /\ (k - 1) + 1 = k
    BY <1>1, <1>3
  <2> QED BY <1>1, <2>1
<1>4. Elems(s) \subseteq Elems(Tail(s)) \cup {Head(s)}
  BY <1>1, <1>3 DEF Elems
<1>5. Distinct(Tail(s))
  BY <1>1 DEF Distinct
<1>6. Apart({Head(s)}, Elems(Tail(s)))
  BY <1>1 DEF Apart, Distinct, Elems
<1> QED BY <1>1, <1>2, <1>4, <1>5, <1>6
-----------------------------------------------------------------------------
(***************************************************************************)
(* Frames: what a step that changes nothing that matters leaves true.      *)
(***************************************************************************)
\* No call begins or ends and no node changes hands.
LEMMA CallFrame ==
    ASSUME TypeOK, NodeInv, CallInv, NodeOwner, UNCHANGED <<req, call, ptr, calls, live>>,
           \A c \in Callers : pc'[c] = "idle" <=> pc[c] = "idle",
           \A c \in Callers : pc[c] = "idle" => cfm'[c] = cfm[c],
           \A n \in Nodes : fields'[n].owner = fields[n].owner /\ fields'[n].reqid = fields[n].reqid
    PROVE  CallInv' /\ NodeOwner'
<1>1. \A c \in Callers : pc[c] # "idle" => ptr[c] \in Nodes
  BY DEF NodeInv, Owned, TypeOK, HeapTypes
<1>2. CallInv'
  BY <1>1 DEF CallInv
<1>3. live \subseteq Nodes
  BY DEF TypeOK, HeapTypes
<1>4. NodeOwner'
  BY <1>3 DEF NodeOwner
<1> QED BY <1>2, <1>4

\* No message is added, none comes to the kmsgbk thread, no call begins.
LEMMA FlightFrame ==
    ASSUME FlightInv, UNCHANGED <<mac, rx_head, calls>>, Held' \subseteq Held,
           \A c \in Callers : pc'[c] = "linked" => pc[c] = "linked" /\ call'[c] = call[c]
    PROVE  FlightInv'
<1>1. Flight' \subseteq Flight
  BY DEF Flight
<1> QED BY <1>1 DEF FlightInv, Apart

\* The same, for calls that are alone with their id; a buffer may be filled
\* with the message that the kmsgbk thread has.
LEMMA SoleFrame ==
    ASSUME SoleInv, UNCHANGED <<mac, rx_head, k_msg, overlap>>,
           k_pc' = "wait" => k_pc = "wait",
           \A c \in Callers : pc'[c] # "idle" =>
              /\ pc[c] # "idle" /\ req'[c] = req[c] /\ call'[c] = call[c]
              /\ cfm'[c] = cfm[c] \/ (cfm'[c] = k_msg.call /\ k_msg.id = req[c])
    PROVE  SoleInv'
  BY DEF SoleInv
-----------------------------------------------------------------------------
(***************************************************************************)
(* Each step keeps the invariant until a fault: first the MAC.             *)
(***************************************************************************)
\* A message of the MAC, a confirmation or not, is linked into rw_msg_rx_head.
LEMMA ServiceMac ==
    ASSUME TypeOK, NodeInv, ServiceInv, mac_step
    PROVE  ServiceInv'
<1> USE DEF ServiceInv
<1>1. /\ UNCHANGED <<pc, req, call, ptr, cfm, live, fields, k_pc, k_msg, k_cur, calls, overlap>>
      /\ Held' = Held
  BY DEF mac_step, mac_confirm, mac_indication, app_set_sema, callerVars, heapVars, kmsgVars,
     histVars, Held
<1>2. CallInv' /\ NodeOwner'
  BY <1>1, CallFrame
<1>3. MatchInv' /\ AnswerInv'
  BY <1>1 DEF MatchInv, AnswerInv
<1>4. mac \in Seq(Msg) /\ rx_head \in Seq(Msg) /\ Ind \notin Reqs
  BY KmsgAssumption DEF TypeOK, MacTypes
<1>5. CASE app_set_sema
  <2>1. UNCHANGED <<mac, rx_head>>
    BY <1>5 DEF app_set_sema
  <2> QED BY <1>1, <1>2, <1>3, <2>1, FlightFrame, SoleFrame
<1>6. CASE mac_indication
  <2>1. mac' = mac /\ rx_head' = Append(rx_head, NoMsg)
    BY <1>6 DEF mac_indication
  <2>2. NoMsg \in Msg /\ NoMsg.id = Ind /\ NoMsg.call = 0
    BY DEF NoMsg, Msg
  <2>3. Apart({NoMsg}, Elems(rx_head))
    BY <1>4, <2>2 DEF Apart
  <2>4. Elems(rx_head)' = Elems(rx_head) \cup {NoMsg} /\ Distinct(rx_head')
    BY <1>4, <2>1, <2>2, <2>3, AppendDistinct DEF FlightInv
  <2>5. Flight' = Flight \cup {NoMsg}
    BY <1>1, <2>1, <2>4 DEF Flight
  <2>6. FlightInv'
    BY <1>1, <1>4, <2>1, <2>2, <2>4, <2>5 DEF FlightInv, Apart
  <2>7. SoleInv'
    BY <1>1, <1>4, <2>1, <2>2, <2>4 DEF SoleInv, CallInv
  <2> QED BY <1>2, <1>3, <2>6, <2>7
<1>7. ASSUME NEW i \in 1 .. Len(mac), mac_confirm(i)
      PROVE  FlightInv' /\ SoleInv'
  <2>1. mac' = RemoveAt(mac, i) /\ rx_head' = Append(rx_head, mac[i])
    BY <1>7 DEF mac_confirm
  <2>2. mac[i] \in Msg /\ mac[i] \in Elems(mac)
    BY <1>4 DEF Elems
  <2>3. /\ Elems(mac) = Elems(mac)' \cup {mac[i]} /\ Distinct(mac')
        /\ Apart({mac[i]}, Elems(mac)')
    BY <1>4, <2>1, RemoveDistinct DEF FlightInv
  <2>4. Apart({mac[i]}, Elems(rx_head))
    BY <2>2 DEF FlightInv, Apart
  <2>5. Elems(rx_head)' = Elems(rx_head) \cup {mac[i]} /\ Distinct(rx_head')
    BY <1>4, <2>1, <2>2, <2>4, AppendDistinct DEF FlightInv
  <2>6. Flight' = Flight
    BY <1>1, <2>3, <2>5 DEF Flight
  <2>7. FlightInv'
    BY <1>1, <2>2, <2>3, <2>5, <2>6 DEF FlightInv, Apart
  <2>8. SoleInv'
    BY <1>1, <2>2, <2>3, <2>5 DEF SoleInv
  <2> QED BY <2>7, <2>8
<1> QED BY <1>2, <1>3, <1>5, <1>6, <1>7 DEF mac_step

\* rw_msg_send begins a call: its number is new, and so is its node.
LEMMA ServiceSend ==
    ASSUME TypeOK, NodeInv, ServiceInv, NEW c \in Callers, NEW r \in Reqs, NEW n \in Nodes,
           rw_msg_send(c, r, n)
    PROVE  ServiceInv'
<1> USE DEF ServiceInv
<1>1. link_node(c, r, n) /\ n \notin live /\ pc[c] = "idle"
  BY TouchedLive DEF rw_msg_send, Touching
<1>2. /\ pc'[c] = "linked" /\ req'[c] = r /\ call'[c] = calls + 1 /\ ptr'[c] = n /\ cfm'[c] = 0
      /\ \A d \in Callers : d # c => /\ pc'[d] = pc[d] /\ req'[d] = req[d] /\ call'[d] = call[d]
                                     /\ ptr'[d] = ptr[d] /\ cfm'[d] = cfm[d]
  BY <1>1 DEF link_node, TypeOK, CallerTypes
<1>3. /\ fields'[n] = [reqid |-> r, owner |-> c, sema |-> 0]
      /\ \A m \in Nodes : m # n => fields'[m] = fields[m]
      /\ live' = live \cup {n} /\ live \subseteq Nodes
  BY <1>1 DEF link_node, TypeOK, HeapTypes
<1>4. UNCHANGED <<mac, rx_head, k_pc, k_msg, k_cur>> /\ calls' = calls + 1 /\ calls \in Nat
  BY <1>1 DEF link_node, macVars, kmsgVars, TypeOK, HistTypes
<1>5. \A d \in Callers : pc[d] # "idle" => ptr[d] \in live
  BY DEF NodeInv, Owned
<1>6. k_pc \in Walking => k_cur \in live
  BY TouchedLive
<1>7. CallInv'
  BY <1>1, <1>2, <1>3, <1>4, <1>5 DEF CallInv
<1>8. NodeOwner'
  BY <1>1, <1>2, <1>3 DEF NodeOwner
<1>9. FlightInv'
  <2>1. Flight' = Flight /\ Held' = Held
    BY <1>4 DEF Flight, Held
  <2>2. \A m \in Flight : m.id \in Reqs => m.call \in 1 .. calls' /\ m.call # calls + 1
    BY <1>4 DEF FlightInv
  <2> QED BY <1>2, <1>4, <2>1, <2>2 DEF FlightInv
<1>10. MatchInv'
  BY <1>1, <1>3, <1>4, <1>6 DEF MatchInv, Walking
<1>11. AnswerInv'
  <2>1. ASSUME NEW d \in Callers, pc'[d] # "idle"
        PROVE  cfm'[d] # 0 <=> \/ fields'[ptr'[d]].sema = 1
                               \/ k_pc' = "signal" /\ k_cur' = ptr'[d]
    <3>1. CASE d = c
      BY <3>1, <1>1, <1>2, <1>3, <1>4, <1>6 DEF Walking
    <3>2. CASE d # c
      BY <2>1, <3>2, <1>1, <1>2, <1>3, <1>4, <1>5 DEF AnswerInv
    <3> QED BY <3>1, <3>2
  <2> QED BY <2>1 DEF AnswerInv
<1>12. SoleInv'
  <2>1. overlap \subseteq overlap' /\ (r \notin overlap' => ~Pending(r))
    BY <1>1 DEF link_node
  <2>2. /\ \A d \in Callers : pc[d] # "idle" /\ req[d] = r => Pending(r)
        /\ \A m \in Elems(mac) \cup Elems(rx_head) : m.id = r => Pending(r)
        /\ k_msg.id = r => Pending(r)
    <3>1. mac \in Seq(Msg) /\ rx_head \in Seq(Msg)
      BY DEF TypeOK, MacTypes
    <3>2. r # Ind
      BY KmsgAssumption
    <3> QED BY <3>1, <3>2 DEF Pending, Elems, SoleInv
  <2>3. ASSUME NEW d \in Callers, pc'[d] # "idle", req'[d] \notin overlap'
        PROVE  /\ \A e \in Callers : pc'[e] # "idle" /\ req'[e] = req'[d] => e = d
               /\ \A m \in Elems(mac) \cup Elems(rx_head) \cup {k_msg} :
                     m.id = req'[d] => m.call = call'[d]
               /\ cfm'[d] # 0 => cfm'[d] = call'[d]
    <3>1. CASE d = c
      BY <2>1, <2>2, <2>3, <3>1, <1>2
    <3>2. CASE d # c
      <4>1. req[d] # r /\ req[d] \notin overlap /\ pc[d] # "idle"
        BY <2>1, <2>2, <2>3, <3>2, <1>2
      <4> QED BY <3>2, <4>1, <1>2 DEF SoleInv
    <3> QED BY <3>1, <3>2
  <2> QED BY <1>4, <2>3 DEF SoleInv
<1> QED BY <1>7, <1>8, <1>9, <1>10, <1>11, <1>12
\* The call ends: what happened to other calls and to their nodes is untouched.
LEMMA ServiceFree ==
    ASSUME TypeOK, NodeInv, ServiceInv, NEW c \in Callers, NEW value, free_node(c, value),
           pc[c] # "idle", k_pc \in Walking => k_cur # ptr[c]
    PROVE  ServiceInv'
<1> USE DEF ServiceInv
<1> DEFINE p == ptr[c]
<1>1. p \in live /\ live \subseteq Nodes
  BY DEF NodeInv, Owned, TypeOK, HeapTypes
<1>2. /\ pc'[c] = "idle" /\ cfm'[c] = 0
      /\ \A d \in Callers : d # c => /\ pc'[d] = pc[d] /\ req'[d] = req[d] /\ call'[d] = call[d]
                                     /\ ptr'[d] = ptr[d] /\ cfm'[d] = cfm[d]
  BY DEF free_node, TypeOK, CallerTypes
<1>3. /\ live' = live \ {p}
      /\ \A m \in Nodes : m # p => fields'[m] = fields[m]
  BY <1>1 DEF free_node, TypeOK, HeapTypes
<1>4. UNCHANGED <<mac, rx_head, k_pc, k_msg, k_cur, calls, overlap>>
  BY DEF free_node, macVars, kmsgVars
<1>5. \A d \in Callers : d # c /\ pc[d] # "idle" => ptr[d] # p /\ ptr[d] \in Nodes
  BY <1>1 DEF NodeInv, Owned
<1> HIDE DEF p
<1>6. CallInv'
  BY <1>2, <1>3, <1>4, <1>5 DEF CallInv
<1>7. NodeOwner'
  <2>1. \A n \in live : n # p => fields[n].owner # c
    BY DEF NodeOwner, p
  <2> QED BY <1>1, <1>2, <1>3, <2>1 DEF NodeOwner
<1>8. FlightInv'
  BY <1>2, <1>4, FlightFrame DEF Held
<1>9. MatchInv'
  BY <1>3, <1>4, TouchedLive DEF MatchInv, Walking, p
<1>10. AnswerInv'
  BY <1>2, <1>3, <1>4, <1>5 DEF AnswerInv
<1>11. SoleInv'
  BY <1>2, <1>4, SoleFrame
<1> QED BY <1>6, <1>7, <1>8, <1>9, <1>10, <1>11

\* The steps of rw_msg_send after the node was linked.
LEMMA ServiceCaller ==
    ASSUME TypeOK, NodeInv, ServiceInv, NEW c \in Callers, caller_step(c)
    PROVE  ServiceInv' \/ abandoned' \/ raced'
<1> USE DEF ServiceInv
<1>1. ASSUME UNCHANGED <<req, call, ptr, cfm, live, fields, mac, rx_head, k_pc, k_msg, k_cur,
                         calls, overlap>>,
             pc[c] # "idle", pc'[c] \notin {"idle", "linked"},
             \A d \in Callers : d # c => pc'[d] = pc[d]
      PROVE  ServiceInv'
  <2>1. CallInv' /\ NodeOwner'
    BY <1>1, CallFrame
  <2>2. FlightInv'
    BY <1>1, FlightFrame DEF Held
  <2>3. MatchInv' /\ AnswerInv'
    BY <1>1 DEF MatchInv, AnswerInv
  <2>4. SoleInv'
    BY <1>1, SoleFrame
  <2> QED BY <2>1, <2>2, <2>3, <2>4
<1>2. CASE send_posted(c)
  <2> DEFINE t == [id |-> req[c], call |-> call[c]]
  <2>1. /\ UNCHANGED <<req, call, ptr, cfm, live, fields, rx_head, k_pc, k_msg, k_cur,
                       calls, overlap>>
        /\ pc[c] = "linked" /\ pc'[c] = "waiting"
        /\ \A d \in Callers : d # c => pc'[d] = pc[d]
        /\ mac' = Append(mac, t)
    BY <1>2 DEF send_posted, heapVars, kmsgVars, histVars, TypeOK, CallerTypes
  <2>2. t \in Msg /\ t.id = req[c] /\ t.call = call[c] /\ mac \in Seq(Msg)
    BY DEF TypeOK, CallerTypes, MacTypes, Msg
  <2> HIDE DEF t
  <2>3. CallInv' /\ NodeOwner'
    BY <2>1, CallFrame
  <2>4. MatchInv' /\ AnswerInv'
    BY <2>1 DEF MatchInv, AnswerInv
  <2>5. Apart({t}, Flight)
    BY <2>1, <2>2 DEF FlightInv, Apart
  <2>6. Elems(mac)' = Elems(mac) \cup {t} /\ Distinct(mac')
    <3>1. Apart({t}, Elems(mac))
      BY <2>5 DEF Apart, Flight
    <3> QED BY <2>1, <2>2, <3>1, AppendDistinct DEF FlightInv
  <2>7. Held' = Held /\ Flight' = Flight \cup {t}
    BY <2>1, <2>6 DEF Held, Flight
  <2>8. FlightInv'
    <3>1. \A m \in Flight' : m.id \in Reqs => m.call \in 1 .. calls'
      BY <2>1, <2>2, <2>7 DEF FlightInv, CallInv
    <3>2. ASSUME NEW d \in Callers, NEW m \in Flight', pc'[d] = "linked", m.id \in Reqs
          PROVE  m.call # call'[d]
      <4>1. d # c /\ pc[d] = "linked"
        BY <2>1, <3>2
      <4>2. call[c] # call[d]
        BY <2>1, <4>1 DEF CallInv
      <4> QED BY <2>1, <2>2, <2>7, <3>2, <4>1, <4>2 DEF FlightInv
    <3>3. Apart(Elems(mac)', Elems(rx_head)') /\ Apart(Held', Elems(mac)' \cup Elems(rx_head)')
      BY <2>1, <2>5, <2>6, <2>7 DEF FlightInv, Apart, Flight
    <3> QED BY <2>1, <2>6, <3>1, <3>2, <3>3 DEF FlightInv
  <2>9. SoleInv'
    <3>1. ASSUME NEW d \in Callers, pc'[d] # "idle", req'[d] \notin overlap', t.id = req'[d]
          PROVE  t.call = call'[d]
      BY <2>1, <2>2, <3>1 DEF SoleInv
    <3> QED BY <2>1, <2>6, <3>1 DEF SoleInv
  <2> QED BY <2>3, <2>4, <2>8, <2>9
<1>3. CASE send_failed(c)
  BY <1>3 DEF send_failed
<1>4. CASE get_semaphore(c)
  <2>1. pc[c] # "idle" /\ fields[ptr[c]].sema = 1 /\ free_node(c, 0)
    BY <1>4 DEF get_semaphore
  <2>2. k_pc \in Walking => k_cur # ptr[c]
    BY <2>1 DEF NodeInv, Walk, Confined
  <2> QED BY <2>1, <2>2, ServiceFree
<1>5. CASE get_semaphore_timeout(c)
  BY <1>1, <1>5 DEF get_semaphore_timeout, heapVars, macVars, kmsgVars, histVars, TypeOK, CallerTypes
<1>6. CASE timeout_extract(c)
  BY <1>1, <1>6, TouchedLive DEF timeout_extract, Touching, heapVars, macVars, kmsgVars, histVars,
     TypeOK, CallerTypes
<1>7. CASE timeout_free(c)
  BY <1>7, ServiceFree DEF timeout_free
<1> QED BY <1>2, <1>3, <1>4, <1>5, <1>6, <1>7 DEF caller_step

\* The kmsgbk thread: it takes a message, walks the list, answers or handles it.
LEMMA ServiceKmsg ==
    ASSUME TypeOK, NodeInv, ServiceInv, kmsg_thread
    PROVE  ServiceInv'
<1> USE DEF ServiceInv
<1>1. ASSUME UNCHANGED <<pc, req, call, ptr, cfm, live, fields, mac, rx_head, k_msg, calls, overlap>>,
             k_pc' \in Holding => k_pc \in Holding, k_pc' = "wait" => k_pc = "wait",
             k_pc # "signal", k_pc' # "signal", MatchInv'
      PROVE  ServiceInv'
  <2>1. CallInv' /\ NodeOwner'
    BY <1>1, CallFrame
  <2>2. Held' \subseteq Held
    BY <1>1 DEF Held
  <2>3. FlightInv'
    BY <1>1, <2>2, FlightFrame
  <2>4. AnswerInv'
    BY <1>1 DEF AnswerInv
  <2>5. SoleInv'
    BY <1>1, SoleFrame
  <2> QED BY <1>1, <2>1, <2>3, <2>4, <2>5
<1>2. CASE kmsg_wait
  BY <1>1, <1>2 DEF kmsg_wait, callerVars, heapVars, histVars, Holding, MatchInv
<1>3. CASE recv_pop
  <2>1. /\ UNCHANGED <<pc, req, call, ptr, cfm, live, fields, mac, calls, overlap>>
        /\ k_pc = "pop" /\ k_pc' \in {"wait", "pick"}
    BY <1>3 DEF recv_pop, callerVars, heapVars, histVars
  <2>2. CallInv' /\ NodeOwner' /\ MatchInv' /\ AnswerInv'
    BY <2>1, CallFrame DEF MatchInv, AnswerInv
  <2>3. CASE rx_head = <<>>
    <3>1. k_msg' = NoMsg /\ NoMsg.id = Ind /\ UNCHANGED rx_head /\ k_pc' = "wait"
      BY <1>3, <2>3 DEF recv_pop, NoMsg
    <3>2. FlightInv'
      BY <2>1, <3>1, FlightFrame DEF Held, Holding
    <3>3. SoleInv'
      BY <2>1, <3>1, KmsgAssumption DEF SoleInv, CallInv
    <3> QED BY <2>2, <3>2, <3>3
  <2>4. CASE rx_head # <<>>
    <3>1. /\ k_msg' = Head(rx_head) /\ rx_head' = Tail(rx_head) /\ k_pc' = "pick"
          /\ rx_head \in Seq(Msg)
      BY <1>3, <2>4 DEF recv_pop, TypeOK, MacTypes
    <3>2. /\ Elems(rx_head) = Elems(rx_head)' \cup {k_msg'}
          /\ Distinct(rx_head') /\ Apart({k_msg'}, Elems(rx_head)')
      BY <2>4, <3>1, TailDistinct DEF FlightInv
    <3>3. Held' = {k_msg'} /\ Held = {}
      BY <2>1, <3>1 DEF Held, Holding
    <3>4. Flight' = Flight
      BY <2>1, <3>2, <3>3 DEF Flight
    <3>5. FlightInv'
      BY <2>1, <3>2, <3>3, <3>4 DEF FlightInv, Apart
    <3>6. SoleInv'
      BY <2>1, <3>1, <3>2 DEF SoleInv
    <3> QED BY <2>2, <3>5, <3>6
  <2> QED BY <2>3, <2>4
<1>4. CASE recv_pick
  BY <1>1, <1>4 DEF recv_pick, recv_goto, callerVars, heapVars, macVars, histVars, Holding, MatchInv
<1>5. CASE recv_compare
  BY <1>1, <1>5, TouchedLive DEF recv_compare, recv_match, Touching, callerVars, heapVars, macVars,
     histVars, Holding, Walking, MatchInv
<1>6. CASE recv_next
  BY <1>1, <1>6, TouchedLive DEF recv_next, recv_goto, Touching, callerVars, heapVars, macVars,
     histVars, Holding, Walking, MatchInv
<1>7. CASE recv_extract
  BY <1>1, <1>7, TouchedLive DEF recv_extract, Touching, callerVars, heapVars, macVars,
     histVars, Holding, MatchInv
<1>8. CASE recv_copy
  <2> DEFINE o == fields[k_cur].owner
  <2>1. k_pc = "copy" /\ k_cur \in live /\ k_cur \in Nodes
    BY <1>8, TouchedLive DEF recv_copy, Walking
  <2>2. /\ UNCHANGED <<pc, req, call, ptr, live, fields, mac, rx_head, k_msg, k_cur, calls, overlap>>
        /\ k_pc' = "signal" /\ cfm' = [cfm EXCEPT ![o] = k_msg.call]
    BY <1>8, <2>1 DEF recv_copy, Touching, heapVars, macVars, histVars
  <2>3. /\ o \in Callers /\ pc[o] # "idle" /\ ptr[o] = k_cur
        /\ req[o] = k_msg.id /\ k_msg.id \in Reqs
    BY <2>1 DEF NodeOwner, CallInv, MatchInv
  <2> HIDE DEF o
  <2>4. cfm'[o] = k_msg.call /\ \A d \in Callers : d # o => cfm'[d] = cfm[d]
    BY <2>2, <2>3 DEF TypeOK, CallerTypes
  <2>5. k_msg.call # 0
    <3>1. k_msg \in Flight
      BY <2>1 DEF Flight, Held, Holding
    <3> QED BY <2>3, <3>1 DEF FlightInv
  <2>6. CallInv' /\ NodeOwner'
    BY <2>2, <2>3, <2>4, CallFrame
  <2>7. FlightInv' /\ MatchInv'
    BY <2>2, FlightFrame DEF Held, Holding, MatchInv
  <2>8. AnswerInv'
    <3>1. \A d \in Callers : d # o /\ pc[d] # "idle" => ptr[d] # k_cur
      BY <2>3 DEF NodeInv, Owned
    <3> QED BY <2>1, <2>2, <2>3, <2>4, <2>5, <3>1 DEF AnswerInv
  <2>9. SoleInv'
    BY <2>1, <2>2, <2>3, <2>4, SoleFrame
  <2> QED BY <2>6, <2>7, <2>8, <2>9
<1>9. CASE recv_signal
  <2>1. k_pc = "signal" /\ k_cur \in live /\ k_cur \in Nodes
    BY <1>9, TouchedLive DEF recv_signal, Walking
  <2>2. /\ UNCHANGED <<pc, req, call, ptr, cfm, live, mac, rx_head, k_msg, k_cur, calls, overlap>>
        /\ k_pc' = "pop" /\ fields' = [fields EXCEPT ![k_cur].sema = 1]
    BY <1>9, <2>1 DEF recv_signal, Touching, callerVars, macVars, histVars
  <2>3. /\ fields'[k_cur].sema = 1
        /\ \A n \in Nodes : /\ fields'[n].owner = fields[n].owner
                            /\ fields'[n].reqid = fields[n].reqid
                            /\ n # k_cur => fields'[n].sema = fields[n].sema
    BY <2>1, <2>2 DEF TypeOK, HeapTypes
  <2>4. CallInv' /\ NodeOwner'
    BY <2>2, <2>3, CallFrame
  <2>5. FlightInv' /\ MatchInv'
    BY <2>2, FlightFrame DEF Held, Holding, MatchInv
  <2>6. AnswerInv'
    <3>1. \A c \in Callers : pc[c] # "idle" => ptr[c] \in Nodes
      BY DEF NodeInv, Owned, TypeOK, HeapTypes
    <3> QED BY <2>1, <2>2, <2>3, <3>1 DEF AnswerInv
  <2>7. SoleInv'
    BY <2>1, <2>2, SoleFrame
  <2> QED BY <2>4, <2>5, <2>6, <2>7
<1>10. CASE recv_handle
  BY <1>1, <1>10 DEF recv_handle, callerVars, heapVars, macVars, histVars, Holding, MatchInv
<1> QED BY <1>2, <1>3, <1>4, <1>5, <1>6, <1>7, <1>8, <1>9, <1>10 DEF kmsg_thread
\* Nothing is under way in the beginning.
LEMMA ServiceInit == Init => ServiceInv
<1> SUFFICES ASSUME Init
             PROVE  ServiceInv
  OBVIOUS
<1>1. Elems(mac) = {} /\ Elems(rx_head) = {} /\ Held = {} /\ Flight = {}
  BY DEF Init, Elems, Held, Holding, Flight
<1>2. CallInv /\ NodeOwner /\ MatchInv /\ AnswerInv
  BY DEF Init, CallInv, NodeOwner, MatchInv, AnswerInv
<1>3. FlightInv
  BY <1>1 DEF Init, FlightInv, Distinct, Apart
<1>4. SoleInv
  BY DEF Init, SoleInv, NoMsg
<1> QED BY <1>2, <1>3, <1>4 DEF ServiceInv

\* Every step keeps the invariant, unless it is a fault.
LEMMA ServiceStep == TypeOK /\ IInv /\ SInv /\ [Next]_vars => SInv'
<1> SUFFICES ASSUME TypeOK, IInv, SInv, [Next]_vars, ~abandoned', ~raced'
             PROVE  ServiceInv'
  BY DEF SInv
<1>1. NodeInv /\ ServiceInv
  BY FaultStep DEF IInv, Faults, SInv
<1>2. CASE Next
  BY <1>1, <1>2, ServiceMac, ServiceSend, ServiceCaller, ServiceKmsg DEF Next
<1>3. CASE UNCHANGED vars
  <2>1. UNCHANGED <<pc, req, call, ptr, cfm, live, fields, mac, rx_head, k_pc, k_msg, k_cur,
                    calls, overlap>>
    BY <1>3 DEF vars, callerVars, heapVars, macVars, kmsgVars, histVars
  <2> QED BY <1>1, <2>1, CallFrame, FlightFrame, SoleFrame DEF ServiceInv, MatchInv, AnswerInv, Held
<1> QED BY <1>2, <1>3

(***************************************************************************)
(* The two inductive invariants together, as cited below.                  *)
(***************************************************************************)
THEOREM ServiceInvariance == Spec => [](TypeOK /\ IInv /\ SInv)
<1>1. Init => SInv
  BY ServiceInit DEF SInv
<1> QED BY <1>1, TypeInit, TypeStep, InvInit, InvStep, ServiceStep, PTL DEF Spec

(***************************************************************************)
(* The answer in the cfm buffer of a call is the answer to its own         *)
(* request, unless a call for the same id began before an earlier one was  *)
(* over, although rwnx_recv_msg matches by id alone; for every number of   *)
(* callers, calls, nodes and ids.                                          *)
(***************************************************************************)
THEOREM AnswerIsMineCorrect == Spec => []AnswerIsMine
<1>1. SInv => AnswerIsMine
  BY DEF SInv, ServiceInv, SoleInv, CallInv, AnswerIsMine
<1> QED BY <1>1, ServiceInvariance, PTL

(***************************************************************************)
(* ASSERT(0 == ret) in rwnx_recv_msg holds until one of the faults: the    *)
(* node that matched exists and its semaphore is not given yet.            *)
(***************************************************************************)
THEOREM AssertNeedsFault == Spec => [](~abandoned /\ ~raced => SetSemaphoreSucceeds)
<1>1. IInv => (~abandoned /\ ~raced => SetSemaphoreSucceeds)
  BY DEF IInv, Faults, NodeInv, Walk, Walking, Confined, SetSemaphoreSucceeds
<1> QED BY <1>1, ServiceInvariance, PTL
-----------------------------------------------------------------------------
(***************************************************************************)
(* The refinement.  Call is rw_msg_send up to the linked node, Post the    *)
(* posted request, Deliver recv_copy, Discard recv_handle, Return the end  *)
(* of the call; every other step before a fault is a stutter.              *)
(***************************************************************************)
LEMMA TicketsAreFlight ==
    ASSUME TypeOK, TypeOK'
    PROVE  /\ Tickets = {m \in Flight : m.id \in Reqs}
           /\ Tickets' = {m \in Flight' : m.id \in Reqs}
<1>1. DOMAIN mac = 1 .. Len(mac) /\ DOMAIN rx_head = 1 .. Len(rx_head)
  BY DEF TypeOK, MacTypes
<1>2. DOMAIN mac' = 1 .. Len(mac') /\ DOMAIN rx_head' = 1 .. Len(rx_head')
  BY DEF TypeOK, MacTypes
<1>3. Tickets = {m \in Flight : m.id \in Reqs}
  BY <1>1 DEF Tickets, Flight, Held, Holding, Elems
<1>4. Tickets' = {m \in Flight' : m.id \in Reqs}
  BY <1>2 DEF Tickets, Flight, Held, Holding, Elems
<1> QED BY <1>3, <1>4

\* A step that the service does not see.
LEMMA Stutter ==
    ASSUME TypeOK, TypeOK', UNCHANGED <<req, cfm, ret, abandoned, raced>>,
           \A c \in Callers : pc'[c] = "idle" <=> pc[c] = "idle",
           \A m : m.id \in Reqs => (m \in Flight' <=> m \in Flight)
    PROVE  UNCHANGED Service!vars
<1>1. Tickets' = Tickets
  BY TicketsAreFlight
<1>2. WaitsFor' = WaitsFor
  BY DEF WaitsFor
<1>3. Broken' = Broken
  BY DEF Broken
<1> QED BY <1>1, <1>2, <1>3 DEF Service!vars

\* The end of a call returns; 0 only with an answer.
LEMMA Returns ==
    ASSUME TypeOK, TypeOK', NodeInv, ServiceInv, NEW c \in Callers, NEW value \in {0, -1},
           free_node(c, value), pc[c] # "idle", value = 0 => fields[ptr[c]].sema = 1,
           UNCHANGED <<abandoned, raced>>
    PROVE  Service!Next
<1>1. WaitsFor[c] # Ind
  BY KmsgAssumption DEF WaitsFor, ServiceInv, CallInv
<1>2. value = 0 => cfm[c] # 0
  BY DEF ServiceInv, AnswerInv
<1>3. WaitsFor' = [WaitsFor EXCEPT ![c] = Ind]
  BY DEF WaitsFor, free_node, TypeOK, CallerTypes
<1>4. cfm' = [cfm EXCEPT ![c] = 0] /\ ret' = [ret EXCEPT ![c] = value]
  BY DEF free_node
<1>5. Tickets' = Tickets /\ Broken' = Broken
  BY DEF free_node, macVars, kmsgVars, Tickets, Broken
<1>6. Service!Return(c, value)
  BY <1>1, <1>2, <1>3, <1>4, <1>5 DEF Service!Return
<1> QED BY <1>6 DEF Service!Next

\* The steps of the calling threads.
LEMMA CallerRefines ==
    ASSUME TypeOK, TypeOK', NodeInv, ServiceInv, ~abandoned', ~raced', NEW c \in Callers,
           caller_step(c) \/ \E r \in Reqs, n \in Nodes : rw_msg_send(c, r, n)
    PROVE  Service!Next \/ UNCHANGED Service!vars
<1>1. ASSUME NEW r \in Reqs, NEW n \in Nodes, rw_msg_send(c, r, n)
      PROVE  Service!Next
  <2>1. link_node(c, r, n) /\ pc[c] = "idle"
    BY <1>1, TouchedLive DEF rw_msg_send, Touching
  <2>2. WaitsFor[c] = Ind
    BY <2>1 DEF WaitsFor
  <2>3. WaitsFor' = [WaitsFor EXCEPT ![c] = r]
    BY <2>1 DEF WaitsFor, link_node, TypeOK, CallerTypes
  <2>4. ret' = [ret EXCEPT ![c] = 0]
    BY <2>1 DEF link_node
  <2>5. cfm' = cfm
    <3>1. cfm[c] = 0 /\ cfm' = [cfm EXCEPT ![c] = 0]
      BY <2>1 DEF link_node, ServiceInv, CallInv
    <3> QED BY <3>1 DEF TypeOK, CallerTypes
  <2>6. Tickets' = Tickets /\ Broken' = Broken
    BY <2>1 DEF link_node, macVars, kmsgVars, Tickets, Broken
  <2>7. Service!Call(c, r)
    BY <2>2, <2>3, <2>4, <2>5, <2>6 DEF Service!Call
  <2> QED BY <2>7 DEF Service!Next
<1>2. CASE send_posted(c)
  <2> DEFINE t == [id |-> req[c], call |-> call[c]]
  <2>1. /\ UNCHANGED <<req, cfm, ret, rx_head, k_pc, k_msg, abandoned, raced>>
        /\ pc[c] = "linked" /\ pc' = [pc EXCEPT ![c] = "waiting"]
        /\ mac' = Append(mac, t)
    BY <1>2 DEF send_posted, kmsgVars, histVars
  <2>2. t \in Msg /\ mac \in Seq(Msg) /\ t.id = req[c] /\ t.call = call[c] /\ t.id \in Reqs
    BY <2>1 DEF TypeOK, CallerTypes, MacTypes, Msg, ServiceInv, CallInv
  <2> HIDE DEF t
  <2>3. Elems(mac)' = Elems(mac) \cup {t}
    BY <2>1, <2>2, AppendDistinct
  <2>4. Flight' = Flight \cup {t}
    BY <2>1, <2>3 DEF Flight, Held
  <2>5. Tickets' = Tickets \cup {t}
    BY <2>2, <2>4, TicketsAreFlight
  <2>6. \A u \in Tickets : u.call # t.call
    BY <2>1, <2>2, TicketsAreFlight DEF ServiceInv, FlightInv
  <2>7. WaitsFor' = WaitsFor /\ WaitsFor[c] = t.id /\ t.id # Ind
    BY <2>1, <2>2, KmsgAssumption DEF WaitsFor, TypeOK, CallerTypes
  <2>8. Broken' = Broken
    BY <2>1 DEF Broken
  <2>9. Service!Post(c, t)
    BY <2>1, <2>5, <2>6, <2>7, <2>8 DEF Service!Post
  <2> QED BY <2>5, <2>9 DEF Service!Next
<1>3. CASE send_failed(c)
  BY <1>3 DEF send_failed
<1>4. CASE get_semaphore(c)
  BY <1>4, Returns DEF get_semaphore
<1>5. CASE get_semaphore_timeout(c) \/ timeout_extract(c)
  <2>1. /\ UNCHANGED <<req, cfm, ret, mac, rx_head, k_pc, k_msg, abandoned, raced>>
        /\ pc[c] # "idle" /\ pc'[c] # "idle"
        /\ \A d \in Callers : d # c => pc'[d] = pc[d]
    BY <1>5, TouchedLive DEF get_semaphore_timeout, timeout_extract, Touching, macVars, kmsgVars,
       histVars, TypeOK, CallerTypes
  <2>2. Flight' = Flight
    BY <2>1 DEF Flight, Held
  <2> QED BY <2>1, <2>2, Stutter
<1>6. CASE timeout_free(c)
  <2>1. free_node(c, -1) /\ pc[c] # "idle" /\ abandoned' = abandoned
    BY <1>6 DEF timeout_free
  <2>2. raced' = raced
    BY <1>6 DEF timeout_free, TypeOK, HistTypes
  <2> QED BY <2>1, <2>2, Returns
<1> QED BY <1>1, <1>2, <1>3, <1>4, <1>5, <1>6 DEF caller_step

\* The steps of the MAC and of mr_kmsg_fwd move a confirmation or add none.
LEMMA MacRefines ==
    ASSUME TypeOK, TypeOK', ServiceInv, mac_step
    PROVE  UNCHANGED Service!vars
<1>1. UNCHANGED <<pc, req, cfm, ret, abandoned, raced>> /\ Held' = Held
  BY DEF mac_step, mac_confirm, mac_indication, app_set_sema, callerVars, kmsgVars, histVars, Held
<1>2. mac \in Seq(Msg) /\ rx_head \in Seq(Msg) /\ Distinct(mac)
  BY DEF TypeOK, MacTypes, ServiceInv, FlightInv
<1>3. ASSUME NEW i \in 1 .. Len(mac), mac_confirm(i)
      PROVE  Flight' = Flight
  <2>1. mac' = RemoveAt(mac, i) /\ rx_head' = Append(rx_head, mac[i]) /\ mac[i] \in Msg
    BY <1>2, <1>3 DEF mac_confirm
  <2>2. Elems(mac) = Elems(mac)' \cup {mac[i]}
    BY <1>2, <2>1, RemoveDistinct
  <2>3. Elems(rx_head)' = Elems(rx_head) \cup {mac[i]}
    BY <1>2, <2>1, AppendDistinct
  <2> QED BY <1>1, <2>2, <2>3 DEF Flight
<1>4. ASSUME mac_indication
      PROVE  \A m : m.id \in Reqs => (m \in Flight' <=> m \in Flight)
  <2>1. mac' = mac /\ rx_head' = Append(rx_head, NoMsg) /\ NoMsg \in Msg /\ NoMsg.id \notin Reqs
    BY <1>4, KmsgAssumption DEF mac_indication, NoMsg, Msg
  <2>2. Elems(rx_head)' = Elems(rx_head) \cup {NoMsg}
    BY <1>2, <2>1, AppendDistinct
  <2> QED BY <1>1, <2>1, <2>2 DEF Flight
<1>5. app_set_sema => Flight' = Flight
  BY <1>1 DEF app_set_sema, Flight
<1>6. \A m : m.id \in Reqs => (m \in Flight' <=> m \in Flight)
  BY <1>3, <1>4, <1>5 DEF mac_step
<1> QED BY <1>1, <1>6, Stutter

\* The steps of the kmsgbk thread: one confirmation answers one call or none.
LEMMA KmsgRefines ==
    ASSUME TypeOK, TypeOK', NodeInv, ServiceInv, kmsg_thread
    PROVE  Service!Next \/ UNCHANGED Service!vars
<1>1. ASSUME UNCHANGED <<callerVars, abandoned, raced>>, Flight' = Flight
      PROVE  UNCHANGED Service!vars
  BY <1>1, Stutter DEF callerVars
<1>2. ASSUME UNCHANGED <<callerVars, mac, rx_head, k_msg, abandoned, raced>>,
             k_pc' \in Holding <=> k_pc \in Holding
      PROVE  UNCHANGED Service!vars
  BY <1>1, <1>2 DEF Flight, Held
<1>3. CASE kmsg_wait
  BY <1>2, <1>3 DEF kmsg_wait, histVars, Holding
<1>4. CASE recv_pop
  <2>1. UNCHANGED <<callerVars, mac, abandoned, raced>> /\ k_pc = "pop" /\ rx_head \in Seq(Msg)
    BY <1>4 DEF recv_pop, histVars, TypeOK, MacTypes
  <2>2. CASE rx_head = <<>>
    <3>1. UNCHANGED rx_head /\ k_pc' = "wait"
      BY <1>4, <2>2 DEF recv_pop
    <3> QED BY <1>1, <2>1, <3>1 DEF Flight, Held, Holding
  <2>3. CASE rx_head # <<>>
    <3>1. k_msg' = Head(rx_head) /\ rx_head' = Tail(rx_head) /\ k_pc' = "pick"
      BY <1>4, <2>3 DEF recv_pop
    <3>2. Elems(rx_head) = Elems(rx_head)' \cup {k_msg'}
      BY <2>1, <2>3, <3>1, TailDistinct DEF ServiceInv, FlightInv
    <3>3. Flight' = Flight
      BY <2>1, <3>1, <3>2 DEF Flight, Held, Holding
    <3> QED BY <1>1, <2>1, <3>3
  <2> QED BY <2>2, <2>3
<1>5. CASE recv_pick \/ recv_compare \/ recv_next \/ recv_extract
  BY <1>2, <1>5, TouchedLive DEF recv_pick, recv_compare, recv_match, recv_next, recv_goto,
     recv_extract, Touching, macVars, histVars, Holding, Walking
<1>6. CASE recv_signal
  BY <1>2, <1>6, TouchedLive DEF recv_signal, Touching, macVars, histVars, Holding, Walking
<1>7. ASSUME UNCHANGED <<mac, rx_head, k_msg>>, k_pc \in Holding, k_pc' \notin Holding,
             k_msg.id \in Reqs
      PROVE  k_msg \in Tickets /\ Tickets' = Tickets \ {k_msg}
  <2>1. Flight' = Elems(mac) \cup Elems(rx_head) /\ Flight = Flight' \cup {k_msg}
    BY <1>7 DEF Flight, Held
  <2>2. k_msg \notin Flight'
    BY <1>7, <2>1 DEF ServiceInv, FlightInv, Apart, Held
  <2> QED BY <1>7, <2>1, <2>2, TicketsAreFlight
<1>8. CASE recv_copy
  <2> DEFINE o == fields[k_cur].owner
  <2>1. k_pc = "copy" /\ k_cur \in live
    BY <1>8, TouchedLive DEF recv_copy, Walking
  <2>2. /\ UNCHANGED <<pc, req, ret, mac, rx_head, k_msg, abandoned, raced>>
        /\ k_pc' = "signal" /\ cfm' = [cfm EXCEPT ![o] = k_msg.call]
    BY <1>8, <2>1 DEF recv_copy, Touching, macVars, histVars
  <2>3. /\ o \in Callers /\ pc[o] # "idle" /\ ptr[o] = k_cur
        /\ req[o] = k_msg.id /\ k_msg.id \in Reqs
    BY <2>1 DEF ServiceInv, NodeOwner, CallInv, MatchInv
  <2>4. cfm[o] = 0
    <3>1. fields[k_cur].sema = 0
      BY <2>1 DEF NodeInv, Walk, Walking, Confined
    <3> QED BY <2>1, <2>3, <3>1 DEF ServiceInv, AnswerInv
  <2> HIDE DEF o
  <2>5. k_msg \in Tickets /\ Tickets' = Tickets \ {k_msg}
    BY <1>7, <2>1, <2>2, <2>3 DEF Holding
  <2>6. WaitsFor' = WaitsFor /\ WaitsFor[o] = k_msg.id /\ Broken' = Broken
    BY <2>2, <2>3 DEF WaitsFor, Broken
  <2>7. Service!Deliver(o, k_msg)
    BY <2>2, <2>4, <2>5, <2>6 DEF Service!Deliver
  <2> QED BY <2>3, <2>5, <2>7 DEF Service!Next
<1>9. CASE recv_handle
  <2>1. /\ UNCHANGED <<callerVars, mac, rx_head, k_msg, abandoned, raced>>
        /\ k_pc = "handle" /\ k_pc' = "pop"
    BY <1>9 DEF recv_handle, macVars, histVars
  <2>2. CASE k_msg.id \in Reqs
    <3>1. k_msg \in Tickets /\ Tickets' = Tickets \ {k_msg}
      BY <1>7, <2>1, <2>2 DEF Holding
    <3>2. UNCHANGED <<WaitsFor, cfm, ret, Broken>>
      BY <2>1 DEF callerVars, WaitsFor, Broken
    <3>3. Service!Discard(k_msg)
      BY <3>1, <3>2 DEF Service!Discard
    <3> QED BY <3>1, <3>3 DEF Service!Next
  <2>3. CASE k_msg.id \notin Reqs
    <3>1. \A m : m.id \in Reqs => (m \in Flight' <=> m \in Flight)
      BY <2>1, <2>3 DEF Flight, Held, Holding
    <3> QED BY <2>1, <3>1, Stutter DEF callerVars
  <2> QED BY <2>2, <2>3
<1> QED BY <1>3, <1>4, <1>5, <1>6, <1>8, <1>9 DEF kmsg_thread

\* Every step is a step of the service or one that it does not see.
LEMMA StepRefines == TypeOK /\ IInv /\ SInv /\ [Next]_vars => [Service!Next]_Service!vars
<1> SUFFICES ASSUME TypeOK, IInv, SInv, [Next]_vars
             PROVE  Service!Next \/ UNCHANGED Service!vars
  OBVIOUS
<1>1. TypeOK'
  BY TypeStep
<1>2. CASE abandoned' \/ raced'
  BY <1>2 DEF Service!Next, Broken
<1>3. CASE ~abandoned' /\ ~raced'
  <2>1. NodeInv /\ ServiceInv
    BY <1>3, FaultStep DEF IInv, Faults, SInv
  <2>2. CASE Next
    BY <1>1, <1>3, <2>1, <2>2, CallerRefines, MacRefines, KmsgRefines DEF Next
  <2>3. CASE UNCHANGED vars
    BY <2>3 DEF vars, callerVars, macVars, kmsgVars, histVars, Service!vars, WaitsFor, Tickets,
       Broken
  <2> QED BY <2>2, <2>3
<1> QED BY <1>2, <1>3

(***************************************************************************)
(* Until a fault, the nodes, lists, semaphores and threads implement       *)
(* ConfirmService: a confirmation answers at most one call, a call gets at *)
(* most one answer and only one for its id, and rw_msg_send returns 0 only *)
(* for an answered call; for every number of callers, calls and nodes.     *)
(***************************************************************************)
THEOREM ImplementsServiceCorrect == Spec => ImplementsService
<1>1. Init => Service!Init
  <2> SUFFICES ASSUME Init
               PROVE  Service!Init
    OBVIOUS
  <2>1. Tickets = {}
    BY DEF Init, Tickets
  <2>2. WaitsFor = [c \in Callers |-> Ind] /\ Broken = FALSE
    BY DEF Init, WaitsFor, Broken
  <2> QED BY <2>1, <2>2 DEF Init, Service!Init
<1> QED BY <1>1, StepRefines, ServiceInvariance, PTL DEF Spec, ImplementsService, Service!Spec
=============================================================================
