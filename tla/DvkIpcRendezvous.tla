-------------------------- MODULE DvkIpcRendezvous ---------------------------
(* How DvkIpc implements Rendezvous: the queue of a process is the list its  *)
(* senders have linked themselves in, and it awaits the source in p_getfrom  *)
(* while it is receiving and not sending.                                    *)
EXTENDS DvkIpc, FiniteSets

\* The processes linked from the node l to the head of a list, k at most.
Senders(head) ==
    LET from[k \in 0 .. Cardinality(Procs), l \in Links] ==
            IF k = 0 \/ l = head THEN <<>>
            ELSE <<l[2]>> \o from[k - 1, lists.next[l]]
    IN  from[Cardinality(Procs), lists.next[head]]

Awaited(p) ==
    IF "RECEIVING" \notin proc[p].rts \/ "SENDING" \in proc[p].rts THEN {}
    ELSE IF proc[p].getfrom = ANY THEN Procs ELSE {proc[p].getfrom}

Abstract == INSTANCE Rendezvous WITH
    queue  <- [p \in Procs |-> Senders(ListHead(p))],
    awaits <- [p \in Procs |-> Awaited(p)],
    sent   <- copied


\* What Rendezvous implies, and what a receiver that has found "Any suitable
\* message" to be missing may take for granted: no sender it waits for is in its
\* queue.
NoneMissed == Abstract!NoneMissed
=============================================================================
