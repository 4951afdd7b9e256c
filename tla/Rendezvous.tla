----------------------------- MODULE Rendezvous ------------------------------
(***************************************************************************)
(* What the message passing of a DC promises its processes: a message      *)
(* passes from one process to one other in a single step, when both have   *)
(* come to it.  A sender that comes first queues at its destination, and   *)
(* the senders of a destination are served in the order they came in; a    *)
(* receiver that comes first waits.  A process that gives up leaves no     *)
(* trace.                                                                  *)
(***************************************************************************)
EXTENDS Integers, Sequences

CONSTANT Procs

VARIABLES
    queue,    \* the senders blocked on a process, in the order they came
    awaits,   \* the senders a process is waiting for
    sent,     \* how often the message of the current call has passed
    got       \* the senders the current call has received from

vars == <<queue, awaits, sent, got>>

Queued(q, d) == {q[d][i] : i \in 1 .. Len(q[d])}
Idle(p) == \A d \in Procs : p \notin Queued(queue, d)

\* The sender at place i is the first in the queue of d that is in S.
IsFirst(d, i, S) == queue[d][i] \in S /\ \A j \in 1 .. i - 1 : queue[d][j] \notin S

Without(s, i) == SubSeq(s, 1, i - 1) \o SubSeq(s, i + 1, Len(s))

\* The message of s goes to d.
Pass(s, d) ==
    /\ sent' = [sent EXCEPT ![s] = @ + 1]
    /\ got' = [got EXCEPT ![d] = Append(@, s)]

Init ==
    /\ queue = [p \in Procs |-> <<>>]
    /\ awaits = [p \in Procs |-> {}]
    /\ sent = [p \in Procs |-> 0]
    /\ got = [p \in Procs |-> <<>>]

\* A sender finds its destination waiting for it.  It may go on to wait for
\* the answer.
Meet(s, d) ==
    /\ s # d /\ Idle(s) /\ awaits[s] = {} /\ s \in awaits[d]
    /\ Pass(s, d)
    /\ \E answer \in {{}, {d}} : awaits' = [awaits EXCEPT ![d] = {}, ![s] = answer]
    /\ UNCHANGED queue

\* It does not, and queues.
Enter(s, d) ==
    /\ s # d /\ Idle(s) /\ awaits[s] = {} /\ s \notin awaits[d]
    /\ queue' = [queue EXCEPT ![d] = Append(@, s)]
    /\ UNCHANGED <<awaits, sent, got>>

\* A receiver that asks for a message of S takes the first there is.  The copy
\* may fail: the message is lost, and its sender is not told when it waits for
\* the answer.
Take(d, i, S) ==
    /\ Idle(d) /\ awaits[d] = {} /\ IsFirst(d, i, S)
    /\ queue' = [queue EXCEPT ![d] = Without(@, i)]
    /\ LET s == queue[d][i] IN
        /\ Pass(s, d) \/ UNCHANGED <<sent, got>>
        /\ \E answer \in {{}, {d}} : awaits' = [awaits EXCEPT ![s] = answer]

\* There is none: it waits.
Await(d, S) ==
    /\ Idle(d) /\ awaits[d] = {} /\ Queued(queue, d) \cap S = {}
    /\ awaits' = [awaits EXCEPT ![d] = S]
    /\ UNCHANGED <<queue, sent, got>>

\* Give up: a timeout or a signal.
Leave(d, i) ==
    /\ queue' = [queue EXCEPT ![d] = Without(@, i)]
    /\ UNCHANGED <<awaits, sent, got>>

Forget(d) ==
    /\ awaits' = [awaits EXCEPT ![d] = {}]
    /\ UNCHANGED <<queue, sent, got>>

\* The call is over.
Done(p) ==
    /\ Idle(p) /\ awaits[p] = {}
    /\ sent' = [sent EXCEPT ![p] = 0]
    /\ got' = [got EXCEPT ![p] = <<>>]
    /\ UNCHANGED <<queue, awaits>>

Next ==
    \/ \E s, d \in Procs : Meet(s, d) \/ Enter(s, d)
    \/ \E d \in Procs : \E i \in 1 .. Len(queue[d]) :
          Leave(d, i) \/ \E S \in SUBSET Procs : Take(d, i, S)
    \/ \E d \in Procs, S \in SUBSET Procs : Await(d, S)
    \/ \E p \in Procs : Forget(p) \/ Done(p)

Spec == Init /\ [][Next]_vars

----------------------------------------------------------------------------
\* Nobody misses another: no sender is left in the queue of a process that
\* waits for it.
NoneMissed == \A d \in Procs : Queued(queue, d) \cap awaits[d] = {}
=============================================================================
