-------------------------- MODULE ConfirmService --------------------------
(***************************************************************************)
(* What rw_msg_send promises a caller that waits for a confirmation,       *)
(* without lists, nodes, semaphores or threads.  Each posted request is a  *)
(* ticket for one confirmation; a confirmation is delivered to one call    *)
(* that waits for its id, or to nobody; a call returns 0 only with an      *)
(* answer, and may fail at any time.  Nothing is promised once broken.     *)
(***************************************************************************)
EXTENDS Integers

CONSTANTS Callers, Reqs, Ind

VARIABLES
    waiting,   \* the id each caller waits for, or Ind
    answer,    \* the call whose confirmation is in its buffer, or 0
    tickets,   \* confirmations under way: [id, call]
    result,    \* what its last call returned
    broken     \* memory was reused under the service

vars == <<waiting, answer, tickets, result, broken>>

Init ==
    /\ waiting = [c \in Callers |-> Ind]
    /\ answer = [c \in Callers |-> 0]
    /\ tickets = {}
    /\ result = [c \in Callers |-> 0]
    /\ broken = FALSE

Call(c, r) ==
    /\ waiting[c] = Ind
    /\ waiting' = [waiting EXCEPT ![c] = r]
    /\ result' = [result EXCEPT ![c] = 0]
    /\ UNCHANGED <<answer, tickets, broken>>

\* A ticket is issued once: its call number is new.  The answer to another call
\* for the same id may already be there.
Post(c, t) ==
    /\ t.id = waiting[c] /\ waiting[c] # Ind
    /\ \A u \in tickets : u.call # t.call
    /\ tickets' = tickets \cup {t}
    /\ UNCHANGED <<waiting, answer, result, broken>>

Deliver(c, t) ==
    /\ t.id = waiting[c] /\ answer[c] = 0
    /\ answer' = [answer EXCEPT ![c] = t.call]
    /\ tickets' = tickets \ {t}
    /\ UNCHANGED <<waiting, result, broken>>

\* Nobody waits for it any more.
Discard(t) ==
    /\ tickets' = tickets \ {t}
    /\ UNCHANGED <<waiting, answer, result, broken>>

Return(c, value) ==
    /\ waiting[c] # Ind
    /\ value = 0 => answer[c] # 0
    /\ waiting' = [waiting EXCEPT ![c] = Ind]
    /\ answer' = [answer EXCEPT ![c] = 0]
    /\ result' = [result EXCEPT ![c] = value]
    /\ UNCHANGED <<tickets, broken>>

Next ==
    \/ \E c \in Callers :
          \/ \E r \in Reqs : Call(c, r)
          \/ \E t \in tickets' : Post(c, t)
          \/ \E t \in tickets : Deliver(c, t)
          \/ \E value \in {0, -1} : Return(c, value)
    \/ \E t \in tickets : Discard(t)
    \/ broken'

Spec == Init /\ [][Next]_vars
=============================================================================
