-------------------------- MODULE RendezvousProofs ---------------------------
(* No two processes of a Rendezvous miss each other. *)
EXTENDS Rendezvous, SequenceTheorems, TLAPS

Typed ==
    /\ queue \in [Procs -> Seq(Procs)]
    /\ awaits \in [Procs -> SUBSET Procs]

\* A process is in one place of one queue at most.
Once == \A d, e \in Procs : \A i \in 1 .. Len(queue[d]), j \in 1 .. Len(queue[e]) :
    queue[d][i] = queue[e][j] => d = e /\ i = j

\* A process that waits for a sender is in no queue.
OneSide == \A p \in Procs : awaits[p] # {} => Idle(p)

IInv == Typed /\ Once /\ OneSide /\ NoneMissed

----------------------------------------------------------------------------
\* The places of a queue without its i-th are the other places, in order.
LEMMA WithoutFacts ==
    ASSUME NEW S, NEW s \in Seq(S), NEW i \in 1 .. Len(s)
    PROVE  /\ Without(s, i) \in Seq(S)
           /\ Len(Without(s, i)) = Len(s) - 1
           /\ \A j \in 1 .. Len(s) - 1 : Without(s, i)[j] = IF j < i THEN s[j] ELSE s[j + 1]
<1> DEFINE a == SubSeq(s, 1, i - 1)
           b == SubSeq(s, i + 1, Len(s))
<1>1. Len(s) \in Nat /\ i \in 1 .. Len(s)
  OBVIOUS
<1>2. /\ a \in Seq(S) /\ Len(a) = i - 1
      /\ \A j \in 1 .. i - 1 : a[j] = s[j]
  BY <1>1, SubSeqProperties
<1>3. /\ b \in Seq(S) /\ Len(b) = Len(s) - i
      /\ \A j \in 1 .. Len(s) - i : b[j] = s[i + j]
  BY <1>1, SubSeqProperties
<1> HIDE DEF a, b
<1>4. /\ a \o b \in Seq(S) /\ Len(a \o b) = Len(s) - 1
      /\ \A j \in 1 .. Len(s) - 1 : (a \o b)[j] = IF j <= Len(a) THEN a[j] ELSE b[j - Len(a)]
  <2>1. /\ a \o b \in Seq(S) /\ Len(a \o b) = Len(a) + Len(b)
        /\ \A j \in 1 .. Len(a) + Len(b) : (a \o b)[j] = IF j <= Len(a) THEN a[j] ELSE b[j - Len(a)]
    BY <1>2, <1>3, ConcatProperties
  <2>2. Len(a) + Len(b) = Len(s) - 1
    BY <1>1, <1>2, <1>3
  <2>3. QED
    BY <2>1, <2>2
<1>5. \A j \in 1 .. Len(s) - 1 : (a \o b)[j] = IF j < i THEN s[j] ELSE s[j + 1]
  BY <1>1, <1>2, <1>3, <1>4
<1>6. QED
  BY <1>4, <1>5 DEF Without, a, b

\* What leaving a queue keeps.
LEMMA LeavesQueue ==
    ASSUME Typed, Once, NEW d \in Procs, NEW i \in 1 .. Len(queue[d]),
           queue' = [queue EXCEPT ![d] = Without(@, i)]
    PROVE  /\ queue' \in [Procs -> Seq(Procs)]
           /\ Once'
           /\ \A p \in Procs : Queued(queue', p) \subseteq Queued(queue, p)
           /\ \A p \in Procs : queue[d][i] \notin Queued(queue', p)
<1> DEFINE s == queue[d]
<1>1. s \in Seq(Procs) /\ Len(s) \in Nat
  BY DEF Typed
<1>2. /\ Without(s, i) \in Seq(Procs)
      /\ Len(Without(s, i)) = Len(s) - 1
      /\ \A j \in 1 .. Len(s) - 1 : Without(s, i)[j] = IF j < i THEN s[j] ELSE s[j + 1]
  BY <1>1, WithoutFacts
<1>3. queue'[d] = Without(s, i) /\ \A p \in Procs \ {d} : queue'[p] = queue[p]
  BY DEF Typed
<1>4. queue' \in [Procs -> Seq(Procs)]
  BY <1>2 DEF Typed
<1> DEFINE old(p, j) == IF p = d /\ j >= i THEN j + 1 ELSE j
<1>5. \A p \in Procs : \A j \in 1 .. Len(queue'[p]) :
        /\ old(p, j) \in 1 .. Len(queue[p])
        /\ queue'[p][j] = queue[p][old(p, j)]
        /\ p = d => old(p, j) # i
  <2> SUFFICES ASSUME NEW p \in Procs, NEW j \in 1 .. Len(queue'[p])
               PROVE  /\ old(p, j) \in 1 .. Len(queue[p])
                      /\ queue'[p][j] = queue[p][old(p, j)]
                      /\ p = d => old(p, j) # i
    OBVIOUS
  <2>1. CASE p = d
    <3>1. j \in 1 .. Len(s) - 1 /\ queue'[p][j] = IF j < i THEN s[j] ELSE s[j + 1]
      BY <2>1, <1>2, <1>3
    <3>2. QED
      BY <2>1, <3>1, <1>1
  <2>2. CASE p # d
    BY <2>2, <1>3
  <2>3. QED
    BY <2>1, <2>2
<1>6. Once'
  <2> SUFFICES ASSUME NEW p \in Procs, NEW q \in Procs,
                      NEW j \in 1 .. Len(queue'[p]), NEW k \in 1 .. Len(queue'[q]),
                      queue'[p][j] = queue'[q][k]
               PROVE  p = q /\ j = k
    BY DEF Once
  <2>1. p = q /\ old(p, j) = old(q, k)
    BY <1>5 DEF Once
  <2>2. j \in Int /\ k \in Int /\ i \in Int
    BY <1>4
  <2>3. QED
    BY <2>1, <2>2
<1>7. \A p \in Procs : Queued(queue', p) \subseteq Queued(queue, p)
  BY <1>5 DEF Queued
<1>8. \A p \in Procs : queue[d][i] \notin Queued(queue', p)
  <2> SUFFICES ASSUME NEW p \in Procs, NEW j \in 1 .. Len(queue'[p]),
                      queue'[p][j] = queue[d][i]
               PROVE  FALSE
    BY DEF Queued
  <2>1. p = d /\ old(p, j) = i
    BY <1>5 DEF Once
  <2>2. QED
    BY <2>1, <1>5
<1>9. QED
  BY <1>4, <1>6, <1>7, <1>8

----------------------------------------------------------------------------
(* The steps. *)

LEMMA MeetStep == ASSUME IInv, NEW s \in Procs, NEW d \in Procs, Meet(s, d) PROVE IInv'
<1>1. PICK answer \in {{}, {d}} : awaits' = [awaits EXCEPT ![d] = {}, ![s] = answer]
  BY DEF Meet
<1>2. queue' = queue /\ Idle(s) /\ Idle(d)
  BY DEF Meet, IInv, OneSide
<1>3. Typed' /\ Once'
  <2>1. awaits' \in [Procs -> SUBSET Procs]
    BY <1>1 DEF IInv, Typed
  <2>2. QED
    BY <1>2, <2>1 DEF IInv, Typed, Once
<1>4. \A p \in Procs : awaits'[p] \subseteq awaits[p] \/ (p = s /\ awaits'[p] \subseteq {d})
  BY <1>1 DEF IInv, Typed
<1>5. OneSide'
  BY <1>2, <1>4 DEF IInv, OneSide, Idle
<1>6. NoneMissed'
  BY <1>2, <1>4 DEF IInv, NoneMissed, Idle
<1>7. QED
  BY <1>3, <1>5, <1>6 DEF IInv

LEMMA EnterStep == ASSUME IInv, NEW s \in Procs, NEW d \in Procs, Enter(s, d) PROVE IInv'
<1>1. /\ Idle(s) /\ awaits[s] = {} /\ s \notin awaits[d]
      /\ queue' = [queue EXCEPT ![d] = Append(queue[d], s)] /\ awaits' = awaits
  BY DEF Enter
<1>2. queue[d] \in Seq(Procs) /\ Len(queue[d]) \in Nat
  BY DEF IInv, Typed
<1>3. /\ queue'[d] = Append(queue[d], s)
      /\ Len(queue'[d]) = Len(queue[d]) + 1
      /\ \A j \in 1 .. Len(queue[d]) : queue'[d][j] = queue[d][j]
      /\ queue'[d][Len(queue[d]) + 1] = s
      /\ \A p \in Procs \ {d} : queue'[p] = queue[p]
  BY <1>1, <1>2 DEF IInv, Typed
<1>4. Typed'
  BY <1>1, <1>2 DEF IInv, Typed
<1>5. \A p \in Procs : \A j \in 1 .. Len(queue'[p]) :
        \/ j \in 1 .. Len(queue[p]) /\ queue'[p][j] = queue[p][j]
        \/ p = d /\ j = Len(queue[d]) + 1 /\ queue'[p][j] = s
  BY <1>2, <1>3
<1>6. \A p \in Procs : \A j \in 1 .. Len(queue[p]) : queue[p][j] # s
  BY <1>1 DEF Idle, Queued
<1>7. Once'
  BY <1>5, <1>6 DEF IInv, Once
<1>8. \A p \in Procs : Queued(queue', p) \subseteq Queued(queue, p) \cup IF p = d THEN {s} ELSE {}
  BY <1>5 DEF Queued
<1>9. OneSide'
  BY <1>1, <1>8 DEF IInv, OneSide, Idle
<1>10. NoneMissed'
  <2> SUFFICES ASSUME NEW p \in Procs, NEW x, x \in Queued(queue', p), x \in awaits'[p]
               PROVE  FALSE
    BY DEF NoneMissed
  <2>1. x \in awaits[p]
    BY <1>1
  <2>2. x \in Queued(queue, p) \/ (p = d /\ x = s)
    BY <1>8
  <2>3. CASE x \in Queued(queue, p)
    BY <2>1, <2>3 DEF IInv, NoneMissed
  <2>4. CASE p = d /\ x = s
    BY <1>1, <2>1, <2>4
  <2>5. QED
    BY <2>2, <2>3, <2>4
<1>11. QED
  BY <1>4, <1>7, <1>9, <1>10 DEF IInv

LEMMA TakeStep ==
    ASSUME IInv, NEW d \in Procs, NEW i \in 1 .. Len(queue[d]), NEW S, Take(d, i, S)
    PROVE  IInv'
<1> DEFINE s == queue[d][i]
<1>1. PICK answer \in {{}, {d}} : awaits' = [awaits EXCEPT ![s] = answer]
  BY DEF Take
<1>2. queue' = [queue EXCEPT ![d] = Without(@, i)] /\ Idle(d)
  BY DEF Take
<1>3. s \in Procs
  BY DEF IInv, Typed
<1>4. /\ queue' \in [Procs -> Seq(Procs)]
      /\ Once'
      /\ \A p \in Procs : Queued(queue', p) \subseteq Queued(queue, p)
      /\ \A p \in Procs : s \notin Queued(queue', p)
  BY <1>2, LeavesQueue DEF IInv
<1> HIDE DEF s
<1>5. Typed'
  BY <1>1, <1>3, <1>4 DEF IInv, Typed
<1>6. \A p \in Procs : IF p = s THEN awaits'[p] \subseteq {d} ELSE awaits'[p] = awaits[p]
  BY <1>1, <1>3 DEF IInv, Typed
<1>7. OneSide'
  BY <1>4, <1>6 DEF IInv, OneSide, Idle
<1>8. NoneMissed'
  <2> SUFFICES ASSUME NEW p \in Procs, NEW x, x \in Queued(queue', p), x \in awaits'[p]
               PROVE  FALSE
    BY DEF NoneMissed
  <2>1. x \in Queued(queue, p)
    BY <1>4
  <2>2. CASE p = s
    <3>1. x = d
      BY <1>6, <2>2
    <3>2. QED
      BY <1>2, <2>1, <3>1 DEF Idle
  <2>3. CASE p # s
    BY <1>6, <2>1, <2>3 DEF IInv, NoneMissed
  <2>4. QED
    BY <2>2, <2>3
<1>9. QED
  BY <1>4, <1>5, <1>7, <1>8 DEF IInv

LEMMA LeaveStep ==
    ASSUME IInv, NEW d \in Procs, NEW i \in 1 .. Len(queue[d]), Leave(d, i)
    PROVE  IInv'
<1>1. queue' = [queue EXCEPT ![d] = Without(@, i)] /\ awaits' = awaits
  BY DEF Leave
<1>2. /\ queue' \in [Procs -> Seq(Procs)]
      /\ Once'
      /\ \A p \in Procs : Queued(queue', p) \subseteq Queued(queue, p)
  BY <1>1, LeavesQueue DEF IInv
<1>3. QED
  BY <1>1, <1>2 DEF IInv, Typed, OneSide, NoneMissed, Idle

LEMMA WaitStep ==
    ASSUME IInv, NEW d \in Procs, NEW S \in SUBSET Procs, Await(d, S) \/ Forget(d) PROVE IInv'
<1>1. queue' = queue /\ Typed'
  BY DEF Await, Forget, IInv, Typed
<1>2. \A p \in Procs : \/ awaits'[p] \subseteq awaits[p]
                       \/ awaits'[p] = S /\ Idle(p) /\ Queued(queue, p) \cap S = {}
  BY DEF Await, Forget, IInv, Typed
<1>3. QED
  BY <1>1, <1>2 DEF IInv, Once, OneSide, NoneMissed, Idle

LEMMA SameIInv == ASSUME IInv, UNCHANGED <<queue, awaits>> PROVE IInv'
<1>1. Typed' /\ Once'
  BY DEF IInv, Typed, Once
<1>2. OneSide'
  BY DEF IInv, OneSide, Idle, Queued
<1>3. NoneMissed'
  BY DEF IInv, NoneMissed, Queued
<1>4. QED
  BY <1>1, <1>2, <1>3 DEF IInv

LEMMA StepIInv == IInv /\ [Next]_vars => IInv'
<1> SUFFICES ASSUME IInv, [Next]_vars PROVE IInv'
  OBVIOUS
<1>1. ASSUME NEW p \in Procs, Done(p) PROVE IInv'
  BY <1>1, SameIInv DEF Done
<1>2. CASE UNCHANGED vars
  BY <1>2, SameIInv DEF vars
<1>3. {} \in SUBSET Procs
  OBVIOUS
<1>4. QED
  BY <1>1, <1>2, <1>3, MeetStep, EnterStep, TakeStep, LeaveStep, WaitStep DEF Next

LEMMA InitIInv == Init => IInv
BY DEF Init, IInv, Typed, Once, OneSide, NoneMissed, Idle, Queued

(* In a rendezvous no sender is left in the queue of a process that waits for *)
(* it: whichever of the two comes first, the other finds it.                  *)
THEOREM NobodyMissed == Spec => []NoneMissed
<1>1. IInv => NoneMissed
  BY DEF IInv
<1>2. QED
  BY <1>1, InitIInv, StepIInv, PTL DEF Spec
=============================================================================
