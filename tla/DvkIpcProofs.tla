---------------------------- MODULE DvkIpcProofs ----------------------------
(* Proofs about DvkIpc, for any set of processes and any privileges. *)
EXTENDS DvkIpc, SequenceTheorems, TLAPS

Sleeping == {"sleep", "expired", "signaled"}
Receiving == {"notify", "store", "lock", "scan", "window", "wild"}

\* What holds of a descriptor d whose thread is at l in a call op: it has a flag
\* exactly while it sleeps unwoken, and only flags of its call, which clears
\* them when it gives up.
Fits(d, l, op) ==
    /\ d.rts # {} <=> l \in Sleeping /\ d.sem = -1
    /\ l \in Receiving => op \in {"receive", "rcvrqst"}
    /\ "SENDING" \in d.rts => op \in {"send", "sendrec"}
    /\ "RECEIVING" \in d.rts => op \in {"receive", "rcvrqst", "sendrec"}

\* The inductive invariant, in two parts: what a step does to the processes,
\* and the types of the rest.
ProcsFit ==
    /\ proc \in [Procs -> Descriptors]
    /\ pc \in [Procs -> PcValues]
    /\ call \in [Procs -> CallRecords]
    /\ \A p \in Procs : Fits(proc[p], pc[p], call[p].op)

ListStructs == [next : [Links -> Links], prev : [Links -> Links]]
Messages == Procs \cup {HARDWARE, NONE}
RestTyped ==
    /\ lists \in ListStructs
    /\ walk \in [Procs -> [xpp : Links, tmp : Links]]
    /\ chunk \in [Procs -> SUBSET Procs]
    /\ ret \in [Procs -> Rcodes]
    /\ copied \in [Procs -> Nat]
    /\ got \in [Procs -> Seq(Messages)]

IInv == ProcsFit /\ RestTyped

-----------------------------------------------------------------------------
(* What the operations on a descriptor do to its flags and its semaphore. *)

LEMMA EndSendFacts ==
    ASSUME NEW d \in Descriptors
    PROVE  /\ EndSend(d) \in Descriptors
           /\ EndSend(d).rts = d.rts \ {"SENDING"}
           /\ EndSend(d).sem = d.sem
BY DEF EndSend, Descriptors

LEMMA EndReceiveFacts ==
    ASSUME NEW d \in Descriptors
    PROVE  /\ EndReceive(d) \in Descriptors
           /\ EndReceive(d).rts = d.rts \ {"RECEIVING"}
           /\ EndReceive(d).sem = d.sem
BY DEF EndReceive, Descriptors

LEMMA MiscFacts ==
    ASSUME NEW d \in Descriptors, NEW bit \in MiscFlags
    PROVE  /\ Clear(d, bit) \in Descriptors /\ Mark(d, bit) \in Descriptors
           /\ Clear(d, bit).rts = d.rts /\ Mark(d, bit).rts = d.rts
           /\ Clear(d, bit).sem = d.sem /\ Mark(d, bit).sem = d.sem
BY DEF Clear, Mark, Descriptors

LEMMA WakeFacts ==
    ASSUME NEW d \in Descriptors, NEW rc \in Rcodes, d.sem = -1
    PROVE  /\ Wake(d, rc) \in Descriptors
           /\ Wake(d, rc).rts = d.rts
           /\ Wake(d, rc).sem = IF d.rts = {} THEN 0 ELSE -1
<1>1. CASE d.rts = {}
  <2>1. /\ Wake(d, rc) = [d EXCEPT !.rcode = rc, !.sem = @ + 1]
        /\ d.sem + 1 = 0
    BY <1>1 DEF Wake
  <2>2. QED
    BY <1>1, <2>1 DEF Descriptors
<1>2. CASE d.rts # {}
  BY <1>2 DEF Wake
<1>3. QED
  BY <1>1, <1>2

LEMMA DownFacts ==
    ASSUME NEW d \in Descriptors
    PROVE  /\ Down(d) \in Descriptors
           /\ Down(d).rts = d.rts
           /\ Down(d).sem = -1
BY DEF Down, Descriptors, Rcodes

LEMMA UpFacts ==
    ASSUME NEW d \in Descriptors, NEW rc \in Rcodes
    PROVE  /\ Up(d, rc) \in Descriptors
           /\ Up(d, rc).rts = d.rts
           /\ Up(d, rc).sem = IF rc = "OK" THEN d.sem ELSE 0
<1> DEFINE n == IF rc # "OK" /\ d.sem < 0 THEN d.sem + 1 ELSE d.sem
<1>1. d.sem \in {-1, 0}
  BY DEF Descriptors
<1>2. n \in {-1, 0} /\ n = IF rc = "OK" THEN d.sem ELSE 0
  BY <1>1
<1>3. Up(d, rc) = [d EXCEPT !.rcode = rc, !.sem = n]
  BY DEF Up
<1> HIDE DEF n
<1>4. QED
  BY <1>2, <1>3 DEF Descriptors

LEMMA SleepResultFacts ==
    ASSUME ProcsFit, NEW p \in Procs
    PROVE  /\ SleepResult(p) \in Rcodes
           /\ SleepResult(p) = "OK" => pc[p] \notin {"expired", "signaled"}
BY DEF SleepResult, ProcsFit, Descriptors, Rcodes

LEMMA ListFacts ==
    ASSUME NEW l \in ListStructs, NEW p \in Procs, NEW d \in Procs
    PROVE  ListDelInit(l, ListNode(p)) \in ListStructs /\ Enqueue(l, p, d) \in ListStructs
<1>1. ListNode(p) \in Links /\ ListHead(d) \in Links
  BY DEF ListNode, ListHead, Links
<1>2. QED
  BY <1>1 DEF ListDelInit, Enqueue, InitListHead, ListAddTail, ListStructs

-----------------------------------------------------------------------------
(* A step of p that changes its own descriptor, or that of one peer too. *)

LEMMA OneProcess ==
    ASSUME ProcsFit, NEW p \in Procs, NEW A \in Descriptors, NEW l \in PcValues,
           NEW c \in CallRecords,
           proc' = [proc EXCEPT ![p] = A],
           pc' = [pc EXCEPT ![p] = l],
           call' = [call EXCEPT ![p] = c],
           Fits(A, l, c.op)
    PROVE  ProcsFit'
<1>1. ASSUME NEW q \in Procs PROVE Fits(proc'[q], pc'[q], call'[q].op)
  <2>1. CASE q = p
    BY <2>1 DEF ProcsFit
  <2>2. CASE q # p
    BY <2>2 DEF ProcsFit
  <2>3. QED
    BY <2>1, <2>2
<1>2. QED
  BY <1>1 DEF ProcsFit

LEMMA TwoProcesses ==
    ASSUME ProcsFit, NEW p \in Procs, NEW d \in Procs, p # d,
           NEW A \in Descriptors, NEW B \in Descriptors,
           NEW l \in PcValues, NEW c \in CallRecords,
           proc' = [proc EXCEPT ![p] = A, ![d] = B],
           pc' = [pc EXCEPT ![p] = l],
           call' = [call EXCEPT ![p] = c],
           Fits(A, l, c.op), Fits(B, pc[d], call[d].op)
    PROVE  ProcsFit'
<1>1. ASSUME NEW q \in Procs PROVE Fits(proc'[q], pc'[q], call'[q].op)
  <2>1. CASE q = p
    BY <2>1 DEF ProcsFit
  <2>2. CASE q = d
    BY <2>2 DEF ProcsFit
  <2>3. CASE q # p /\ q # d
    BY <2>3 DEF ProcsFit
  <2>4. QED
    BY <2>1, <2>2, <2>3
<1>2. QED
  BY <1>1 DEF ProcsFit

\* The call ends and leaves no flag.
LEMMA CallEnds ==
    ASSUME ProcsFit, NEW p \in Procs, NEW A \in Descriptors, A.rts = {},
           NEW c \in CallRecords, NEW rc,
           proc' = [proc EXCEPT ![p] = A], call' = [call EXCEPT ![p] = c],
           Finish(p, rc)
    PROVE  ProcsFit'
<1>1. Fits(A, "done", c.op)
  BY DEF Fits, Sleeping, Receiving
<1>2. QED
  BY <1>1, OneProcess DEF Finish, Goto, PcValues

LEMMA CallEndsWithPeer ==
    ASSUME ProcsFit, NEW p \in Procs, NEW d \in Procs, p # d,
           NEW A \in Descriptors, A.rts = {},
           NEW B \in Descriptors, Fits(B, pc[d], call[d].op),
           NEW c \in CallRecords, NEW rc,
           proc' = [proc EXCEPT ![p] = A, ![d] = B],
           call' = [call EXCEPT ![p] = c], Finish(p, rc)
    PROVE  ProcsFit'
<1>1. Fits(A, "done", c.op)
  BY DEF Fits, Sleeping, Receiving
<1>2. QED
  BY <1>1, TwoProcesses DEF Finish, Goto, PcValues

\* A call puts its process to sleep with the flags it set.
LEMMA SleepFits ==
    ASSUME NEW d \in Descriptors, d.rts # {}, NEW op,
           "SENDING" \in d.rts => op \in {"send", "sendrec"},
           "RECEIVING" \in d.rts => op \in {"receive", "rcvrqst", "sendrec"}
    PROVE  Down(d) \in Descriptors /\ Fits(Down(d), "sleep", op)
<1>1. Down(d) \in Descriptors /\ Down(d).rts = d.rts /\ Down(d).sem = -1
  BY DownFacts
<1>2. QED
  BY <1>1 DEF Fits, Sleeping, Receiving

-----------------------------------------------------------------------------
(* What is known of the processes a step touches. *)

LEMMA RunningFits ==
    ASSUME ProcsFit, NEW p \in Procs, pc[p] \notin Sleeping
    PROVE  proc[p] \in Descriptors /\ proc[p].rts = {}
BY DEF ProcsFit, Fits

LEMMA BlockedFits ==
    ASSUME ProcsFit, NEW d \in Procs, proc[d].rts # {}
    PROVE  proc[d] \in Descriptors /\ proc[d].sem = -1 /\ pc[d] \in Sleeping
BY DEF ProcsFit, Fits

LEMMA PeerDiffers ==
    ASSUME NEW p \in Procs, NEW d \in IpcTo[p]
    PROVE  d \in Procs /\ p # d
BY PrivAssumption

\* A peer that loses a flag and is woken, and one that keeps its flags.
LEMMA ReceiverWoken ==
    ASSUME ProcsFit, NEW d \in Procs, "RECEIVING" \in proc[d].rts, NEW rc \in Rcodes,
           NEW X \in Descriptors, X.rts = proc[d].rts, X.sem = proc[d].sem
    PROVE  /\ Wake(EndReceive(X), rc) \in Descriptors
           /\ Fits(Wake(EndReceive(X), rc), pc[d], call[d].op)
<1>1. X.rts # {} /\ X.sem = -1 /\ EndReceive(X) \in Descriptors
  BY BlockedFits, EndReceiveFacts
<1>2. EndReceive(X).rts = X.rts \ {"RECEIVING"} /\ EndReceive(X).sem = -1
  BY <1>1, EndReceiveFacts
<1>3. /\ Wake(EndReceive(X), rc) \in Descriptors
      /\ Wake(EndReceive(X), rc).rts = X.rts \ {"RECEIVING"}
      /\ Wake(EndReceive(X), rc).sem = IF X.rts \ {"RECEIVING"} = {} THEN 0 ELSE -1
  BY <1>1, <1>2, WakeFacts
<1>4. QED
  BY <1>3 DEF ProcsFit, Fits

LEMMA SenderWoken ==
    ASSUME ProcsFit, NEW d \in Procs, "SENDING" \in proc[d].rts, NEW rc \in Rcodes,
           NEW X \in Descriptors, X.rts = proc[d].rts, X.sem = proc[d].sem
    PROVE  /\ Wake(EndSend(X), rc) \in Descriptors
           /\ Fits(Wake(EndSend(X), rc), pc[d], call[d].op)
<1>1. X.rts # {} /\ X.sem = -1 /\ EndSend(X) \in Descriptors
  BY BlockedFits, EndSendFacts
<1>2. EndSend(X).rts = X.rts \ {"SENDING"} /\ EndSend(X).sem = -1
  BY <1>1, EndSendFacts
<1>3. /\ Wake(EndSend(X), rc) \in Descriptors
      /\ Wake(EndSend(X), rc).rts = X.rts \ {"SENDING"}
      /\ Wake(EndSend(X), rc).sem = IF X.rts \ {"SENDING"} = {} THEN 0 ELSE -1
  BY <1>1, <1>2, WakeFacts
<1>4. QED
  BY <1>3 DEF ProcsFit, Fits

LEMMA SameFlags ==
    ASSUME ProcsFit, NEW d \in Procs,
           NEW X, X.rts = proc[d].rts, X.sem = proc[d].sem
    PROVE  Fits(X, pc[d], call[d].op)
BY DEF ProcsFit, Fits

\* p leaves wait_event_*: if it was woken it has no flag left.
LEMMA LeavesFits ==
    ASSUME ProcsFit, NEW p \in Procs, NEW op, Leaves(p, op)
    PROVE  /\ proc[p] \in Descriptors /\ call[p].op = op /\ call[p] \in CallRecords
           /\ SleepResult(p) = "OK" => proc[p].rts = {}
           /\ "SENDING" \in proc[p].rts => op \in {"send", "sendrec"}
           /\ "RECEIVING" \in proc[p].rts => op \in {"receive", "rcvrqst", "sendrec"}
           /\ proc[p].rts \subseteq RtsFlags
<1>1. SleepResult(p) = "OK" => pc[p] = "sleep" /\ proc[p].sem >= 0
  BY SleepResultFacts DEF Leaves
<1>2. SleepResult(p) = "OK" => proc[p].rts = {}
  BY <1>1 DEF ProcsFit, Fits
<1>3. QED
  BY <1>2 DEF ProcsFit, Fits, Leaves, Descriptors

-----------------------------------------------------------------------------
(* Every step keeps the processes in order. *)

LEMMA SendDeliverFits ==
    ASSUME ProcsFit, NEW p \in Procs, NEW d \in Procs, SendDeliver(p, d)
    PROVE  ProcsFit'
<1> DEFINE c == [op |-> "send", peer |-> d, timeout |-> "none", both |-> FALSE]
           R == [proc[p] EXCEPT !.rcode = "OK"]
<1>1. /\ p # d /\ proc[p] \in Descriptors /\ proc[d] \in Descriptors /\ proc[p].rts = {}
      /\ "RECEIVING" \in proc[d].rts
  BY PeerDiffers, RunningFits DEF SendDeliver, EnterTo, Enter, Sleeping, Waits, ProcsFit
<1>2. c \in CallRecords /\ call' = [call EXCEPT ![p] = c]
  BY DEF SendDeliver, Calling, CallRecords, Calls
<1>3. R \in Descriptors /\ R.rts = {}
  BY <1>1 DEF Descriptors, Rcodes
<1>4. CASE Finish(p, "FAULT") /\ proc' = [proc EXCEPT ![p].rcode = "OK"]
  <2>1. proc' = [proc EXCEPT ![p] = R]
    BY <1>4
  <2> HIDE DEF c, R
  <2>2. QED
    BY <1>2, <1>3, <1>4, <2>1, CallEnds
<1>5. CASE /\ Finish(p, "OK")
           /\ proc' = [proc EXCEPT
                ![p] = IF "ATOMIC" \in proc[d].misc
                       THEN Clear([@ EXCEPT !.rcode = "OK"], "NOMIGRATE")
                       ELSE [@ EXCEPT !.rcode = "OK"],
                ![d] = Wake(EndReceive(Clear(@, "ATOMIC")), "OK")]
  <2> DEFINE A == IF "ATOMIC" \in proc[d].misc THEN Clear(R, "NOMIGRATE") ELSE R
             X == Clear(proc[d], "ATOMIC")
             B == Wake(EndReceive(X), "OK")
  <2>1. proc' = [proc EXCEPT ![p] = A, ![d] = B]
    BY <1>1, <1>5
  <2>2. A \in Descriptors /\ A.rts = {}
    BY <1>3, MiscFacts DEF MiscFlags
  <2>3. X \in Descriptors /\ X.rts = proc[d].rts /\ X.sem = proc[d].sem
    BY <1>1, MiscFacts DEF MiscFlags
  <2>4. B \in Descriptors /\ Fits(B, pc[d], call[d].op)
    BY <1>1, <2>3, ReceiverWoken DEF Rcodes
  <2>5. Finish(p, "OK")
    BY <1>5
  <2> HIDE DEF c, A, B
  <2>6. QED
    BY <1>1, <1>2, <2>1, <2>2, <2>4, <2>5, CallEndsWithPeer
<1>6. QED
  BY <1>4, <1>5 DEF SendDeliver

LEMMA SendBlockFits ==
    ASSUME ProcsFit, NEW p \in Procs, NEW d \in Procs, SendBlock(p, d)
    PROVE  ProcsFit'
<1> DEFINE S == [Set(proc[p], "SENDING") EXCEPT !.sendto = d]
<1>1. proc[p] \in Descriptors /\ proc[p].rts = {}
  BY RunningFits DEF SendBlock, EnterTo, Enter, Sleeping
<1>2. PICK t \in Timeouts \ {"nowait"} : Calling(p, "send", d, t, TRUE)
  BY DEF SendBlock
<1> DEFINE c == [op |-> "send", peer |-> d, timeout |-> t, both |-> TRUE]
<1>3. c \in CallRecords /\ call' = [call EXCEPT ![p] = c]
  BY <1>2, EnvAssumption DEF Calling, CallRecords, Calls
<1>4. S \in Descriptors /\ S.rts = {"SENDING"}
  BY <1>1 DEF Set, Descriptors, RtsFlags
<1>5. Down(S) \in Descriptors /\ Fits(Down(S), "sleep", c.op)
  <2>1. c.op = "send"
    OBVIOUS
  <2> HIDE DEF c, S
  <2>2. QED
    BY <1>4, <2>1, SleepFits
<1>6. proc' = [proc EXCEPT ![p] = Down(S)] /\ pc' = [pc EXCEPT ![p] = "sleep"]
  BY DEF SendBlock, Goto
<1> HIDE DEF c, S
<1>7. QED
  BY <1>3, <1>5, <1>6, OneProcess DEF PcValues

LEMMA SendAgainFits ==
    ASSUME ProcsFit, NEW p \in Procs, NEW d \in Procs, SendAgain(p, d)
    PROVE  ProcsFit'
<1> DEFINE c == [op |-> "send", peer |-> d, timeout |-> "none", both |-> FALSE]
           R == [proc[p] EXCEPT !.rcode = "EAGAIN"]
<1>1. proc[p] \in Descriptors /\ proc[p].rts = {}
  BY RunningFits DEF SendAgain, EnterTo, Enter, Sleeping
<1>2. c \in CallRecords /\ call' = [call EXCEPT ![p] = c]
  BY DEF SendAgain, Calling, CallRecords, Calls
<1>3. R \in Descriptors /\ R.rts = {}
  BY <1>1 DEF Descriptors, Rcodes
<1>4. EndSend(R) \in Descriptors /\ EndSend(R).rts = {}
  BY <1>3, EndSendFacts
<1>5. proc' = [proc EXCEPT ![p] = EndSend(R)] /\ Finish(p, "EAGAIN")
  BY DEF SendAgain
<1> HIDE DEF c, R
<1>6. QED
  BY <1>2, <1>4, <1>5, CallEnds

LEMMA SendDoneFits ==
    ASSUME ProcsFit, NEW p \in Procs, SendDone(p)
    PROVE  ProcsFit'
<1> DEFINE rc == SleepResult(p)
           D == Up(proc[p], rc)
           A == IF rc # "OK" THEN EndSend(D) ELSE D
<1>1. /\ proc[p] \in Descriptors /\ call[p] \in CallRecords
      /\ rc = "OK" => proc[p].rts = {}
      /\ proc[p].rts \ {"SENDING"} = {}
  BY LeavesFits DEF SendDone, RtsFlags
<1>2. D \in Descriptors /\ D.rts = proc[p].rts
  BY <1>1, UpFacts, SleepResultFacts
<1>3. A \in Descriptors /\ A.rts = {}
  BY <1>1, <1>2, EndSendFacts
<1>4. proc' = [proc EXCEPT ![p] = A] /\ Finish(p, rc) /\ call' = [call EXCEPT ![p] = call[p]]
  BY DEF SendDone, ProcsFit
<1> HIDE DEF A
<1>5. QED
  BY <1>1, <1>3, <1>4, CallEnds

\* A receiver moves on in the kernel without touching a descriptor.
LEMMA MovesOn ==
    ASSUME ProcsFit, NEW p \in Procs, pc[p] \in Receiving, NEW l \in Receiving,
           pc' = [pc EXCEPT ![p] = l], UNCHANGED <<proc, call>>
    PROVE  ProcsFit'
<1>1. /\ proc[p] \in Descriptors /\ call[p] \in CallRecords /\ proc[p].rts = {}
      /\ call[p].op \in {"receive", "rcvrqst"}
  BY RunningFits DEF ProcsFit, Fits, Sleeping, Receiving
<1>2. Fits(proc[p], l, call[p].op) /\ l \in PcValues
  BY <1>1 DEF Fits, Sleeping, Receiving, PcValues
<1>3. proc' = [proc EXCEPT ![p] = proc[p]] /\ call' = [call EXCEPT ![p] = call[p]]
  BY DEF ProcsFit
<1>4. QED
  BY <1>1, <1>2, <1>3, OneProcess

LEMMA ReceiveStartFits ==
    ASSUME ProcsFit, NEW p \in Procs, NEW s \in Procs \cup {ANY}, ReceiveStart(p, s)
    PROVE  ProcsFit'
<1> DEFINE c == [op |-> "receive", peer |-> s, timeout |-> "none", both |-> FALSE]
           A == Clear(proc[p], "WOKENUP")
<1>1. proc[p] \in Descriptors /\ proc[p].rts = {}
  BY RunningFits DEF ReceiveStart, Enter, Sleeping
<1>2. c \in CallRecords /\ call' = [call EXCEPT ![p] = c] /\ c.op = "receive"
  BY DEF ReceiveStart, Calling, CallRecords, Calls
<1>3. A \in Descriptors /\ A.rts = {}
  BY <1>1, MiscFacts DEF MiscFlags
<1>4. CASE proc' = [proc EXCEPT ![p] = A] /\ Finish(p, "WOKENUP")
  <2> HIDE DEF c, A
  <2>1. QED
    BY <1>2, <1>3, <1>4, CallEnds
<1>5. CASE UNCHANGED proc /\ Goto(p, "notify")
  <2>1. Fits(proc[p], "notify", c.op)
    BY <1>1, <1>2 DEF Fits, Sleeping, Receiving
  <2>2. proc' = [proc EXCEPT ![p] = proc[p]]
    BY <1>5 DEF ProcsFit
  <2> HIDE DEF c
  <2>3. QED
    BY <1>1, <1>2, <1>5, <2>1, <2>2, OneProcess DEF Goto, PcValues
<1>6. QED
  BY <1>4, <1>5 DEF ReceiveStart

LEMMA NotifyStoreFits ==
    ASSUME ProcsFit, RestTyped, NEW p \in Procs, NotifyStore(p)
    PROVE  ProcsFit'
<1>1. proc[p] \in Descriptors /\ proc[p].rts = {} /\ call[p] \in CallRecords
  BY RunningFits DEF NotifyStore, Sleeping, ProcsFit
<1>2. PICK i \in chunk[p] :
         proc' = [proc EXCEPT ![p].pending = chunk[p] \ {i},
                              ![p].message = IF i = p THEN HARDWARE ELSE i]
  BY DEF NotifyStore
<1> DEFINE rest == chunk[p] \ {i}
           m == IF i = p THEN HARDWARE ELSE i
           A == [proc[p] EXCEPT !.pending = rest, !.message = m]
<1>3. rest \in SUBSET Procs /\ m \in Messages
  BY DEF RestTyped, Messages
<1>4. proc' = [proc EXCEPT ![p] = A]
  BY <1>2 DEF ProcsFit
<1>5. A \in Descriptors /\ A.rts = {}
  <2> HIDE DEF rest, m
  <2>1. QED
    BY <1>1, <1>3 DEF Descriptors, Messages
<1>6. Finish(p, "OK") /\ call' = [call EXCEPT ![p] = call[p]]
  BY DEF NotifyStore, ProcsFit
<1> HIDE DEF A
<1>7. QED
  BY <1>1, <1>4, <1>5, <1>6, CallEnds

LEMMA RcvrqstStartFits ==
    ASSUME ProcsFit, NEW p \in Procs, RcvrqstStart(p)
    PROVE  ProcsFit'
<1> DEFINE c == [op |-> "rcvrqst", peer |-> ANY, timeout |-> "none", both |-> FALSE]
           A == Clear(proc[p], "WOKENUP")
<1>1. proc[p] \in Descriptors /\ proc[p].rts = {}
  BY RunningFits DEF RcvrqstStart, Enter, Sleeping
<1>2. c \in CallRecords /\ call' = [call EXCEPT ![p] = c] /\ c.op = "rcvrqst"
  BY DEF RcvrqstStart, Calling, CallRecords, Calls
<1>3. A \in Descriptors /\ A.rts = {}
  BY <1>1, MiscFacts DEF MiscFlags
<1>4. CASE proc' = [proc EXCEPT ![p] = A] /\ Finish(p, "WOKENUP")
  <2> HIDE DEF c, A
  <2>1. QED
    BY <1>2, <1>3, <1>4, CallEnds
<1>5. CASE UNCHANGED proc /\ Goto(p, "scan")
  <2>1. Fits(proc[p], "scan", c.op)
    BY <1>1, <1>2 DEF Fits, Sleeping, Receiving
  <2>2. proc' = [proc EXCEPT ![p] = proc[p]]
    BY <1>5 DEF ProcsFit
  <2> HIDE DEF c
  <2>3. QED
    BY <1>1, <1>2, <1>5, <2>1, <2>2, OneProcess DEF Goto, PcValues
<1>6. QED
  BY <1>4, <1>5 DEF RcvrqstStart, StartScan

LEMMA ScanRefuseFits ==
    ASSUME ProcsFit, NEW p \in Procs, NEW x \in Procs, ScanRefuse(p, x)
    PROVE  ProcsFit'
<1>1. proc[p] \in Descriptors /\ proc[p].rts = {} /\ call[p] \in CallRecords
  BY RunningFits DEF ScanRefuse, Visits, Sleeping, ProcsFit
<1>2. /\ proc' = [proc EXCEPT ![p] = proc[p]] /\ call' = [call EXCEPT ![p] = call[p]]
      /\ Finish(p, "PROCSTS")
  BY DEF ScanRefuse, ProcsFit
<1>3. QED
  BY <1>1, <1>2, CallEnds

LEMMA ScanTakeFits ==
    ASSUME ProcsFit, NEW p \in Procs, NEW x \in Procs, ScanTake(p, x)
    PROVE  ProcsFit'
<1>1. proc[p] \in Descriptors /\ proc[p].rts = {} /\ call[p] \in CallRecords
  BY RunningFits DEF ScanTake, Visits, Sleeping, ProcsFit
<1>2. "SENDING" \in proc[x].rts /\ p # x /\ proc[x] \in Descriptors
  BY <1>1 DEF ScanTake, SendsTo, ProcsFit
<1> DEFINE A == IF call[p].op = "receive" /\ "ATOMIC" \in proc[x].misc
                THEN Mark(proc[p], "NOMIGRATE") ELSE proc[p]
           B(rc) == Wake(EndSend(proc[x]), rc)
<1>3. PICK rc \in {"OK", "FAULT"} :
         /\ proc' = [proc EXCEPT
                ![x] = Wake(EndSend(@), rc),
                ![p] = IF call[p].op = "receive" /\ "ATOMIC" \in proc[x].misc
                       THEN Mark(@, "NOMIGRATE") ELSE @]
         /\ Finish(p, rc)
  BY DEF ScanTake
<1>4. proc' = [proc EXCEPT ![p] = A, ![x] = B(rc)]
  BY <1>2, <1>3 DEF ProcsFit
<1>5. A \in Descriptors /\ A.rts = {}
  BY <1>1, MiscFacts DEF MiscFlags
<1>6. B(rc) \in Descriptors /\ Fits(B(rc), pc[x], call[x].op)
  BY <1>2, SenderWoken DEF Rcodes
<1>7. call' = [call EXCEPT ![p] = call[p]] /\ Finish(p, rc)
  BY <1>3 DEF ScanTake, ProcsFit
<1> HIDE DEF A, B
<1>8. QED
  BY <1>1, <1>2, <1>4, <1>5, <1>6, <1>7, CallEndsWithPeer

LEMMA ReceiveBlockFits ==
    ASSUME ProcsFit, NEW p \in Procs, ReceiveBlock(p)
    PROVE  ProcsFit'
<1> DEFINE N == Clear(proc[p], "NOTIFY")
           S == [Set(N, "RECEIVING") EXCEPT !.getfrom = call[p].peer]
<1>1. /\ proc[p] \in Descriptors /\ proc[p].rts = {} /\ call[p] \in CallRecords
      /\ call[p].op \in {"receive", "rcvrqst"}
  BY RunningFits DEF ReceiveBlock, AtEnd, Sleeping, Receiving, ProcsFit, Fits
<1>2. PICK t \in Timeouts \ {"nowait"} : Calling(p, call[p].op, call[p].peer, t, FALSE)
  BY DEF ReceiveBlock
<1> DEFINE c == [op |-> call[p].op, peer |-> call[p].peer, timeout |-> t, both |-> FALSE]
<1>3. c \in CallRecords /\ call' = [call EXCEPT ![p] = c] /\ c.op \in {"receive", "rcvrqst"}
  BY <1>1, <1>2, EnvAssumption DEF Calling, CallRecords
<1>4. N \in Descriptors /\ N.rts = {}
  BY <1>1, MiscFacts DEF MiscFlags
<1>5. S \in Descriptors /\ S.rts = {"RECEIVING"}
  <2>1. call[p].peer \in Procs \cup {ANY, NONE}
    BY <1>1 DEF CallRecords
  <2> HIDE DEF N
  <2>2. QED
    BY <1>4, <2>1 DEF Set, Descriptors, RtsFlags
<1>6. proc' = [proc EXCEPT ![p] = Down(S)] /\ pc' = [pc EXCEPT ![p] = "sleep"]
  BY DEF ReceiveBlock, Goto
<1> HIDE DEF c, S
<1>7. Down(S) \in Descriptors /\ Fits(Down(S), "sleep", c.op)
  BY <1>3, <1>5, SleepFits
<1>8. QED
  BY <1>3, <1>6, <1>7, OneProcess DEF PcValues

LEMMA ReceiveAgainFits ==
    ASSUME ProcsFit, NEW p \in Procs, ReceiveAgain(p)
    PROVE  ProcsFit'
<1> DEFINE N == Clear(proc[p], "NOTIFY")
           R == [N EXCEPT !.rcode = "EAGAIN"]
<1>1. proc[p] \in Descriptors /\ proc[p].rts = {} /\ call[p] \in CallRecords
  BY RunningFits DEF ReceiveAgain, AtEnd, Sleeping, ProcsFit
<1>2. N \in Descriptors /\ N.rts = {}
  BY <1>1, MiscFacts DEF MiscFlags
<1>3. R \in Descriptors /\ R.rts = {}
  <2> HIDE DEF N
  <2>1. QED
    BY <1>2 DEF Descriptors, Rcodes
<1>4. EndReceive(R) \in Descriptors /\ EndReceive(R).rts = {}
  BY <1>3, EndReceiveFacts
<1>5. /\ proc' = [proc EXCEPT ![p] = EndReceive(R)] /\ Finish(p, "EAGAIN")
      /\ call' = [call EXCEPT ![p] = call[p]]
  BY DEF ReceiveAgain, ProcsFit
<1> HIDE DEF R
<1>6. QED
  BY <1>1, <1>4, <1>5, CallEnds

LEMMA ReceiveDoneFits ==
    ASSUME ProcsFit, NEW p \in Procs, ReceiveDone(p)
    PROVE  ProcsFit'
<1> DEFINE rc == SleepResult(p)
           U == Up(proc[p], rc)
           D == Clear(U, "NOTIFY")
           A == IF rc = "OK" THEN D ELSE EndReceive(D)
<1>1. /\ proc[p] \in Descriptors /\ call[p] \in CallRecords
      /\ rc = "OK" => proc[p].rts = {}
      /\ proc[p].rts \ {"RECEIVING"} = {}
  BY LeavesFits DEF ReceiveDone, RtsFlags
<1>2. U \in Descriptors /\ U.rts = proc[p].rts
  BY <1>1, UpFacts, SleepResultFacts
<1>3. D \in Descriptors /\ D.rts = proc[p].rts
  <2> HIDE DEF U
  <2>1. QED
    BY <1>2, MiscFacts DEF MiscFlags
<1>4. A \in Descriptors /\ A.rts = {}
  <2> HIDE DEF D
  <2>1. QED
    BY <1>1, <1>3, EndReceiveFacts
<1>5. proc' = [proc EXCEPT ![p] = A] /\ Finish(p, rc) /\ call' = [call EXCEPT ![p] = call[p]]
  BY DEF ReceiveDone, ProcsFit
<1> HIDE DEF A
<1>6. QED
  BY <1>1, <1>4, <1>5, CallEnds

LEMMA RcvrqstDoneFits ==
    ASSUME ProcsFit, NEW p \in Procs, RcvrqstDone(p)
    PROVE  ProcsFit'
<1> DEFINE rc == SleepResult(p)
           U == Up(proc[p], rc)
<1>1. /\ proc[p] \in Descriptors /\ call[p] \in CallRecords
      /\ proc[p].rts \ {"RECEIVING"} = {}
  BY LeavesFits DEF RcvrqstDone, RtsFlags
<1>2. U \in Descriptors /\ U.rts = proc[p].rts
  BY <1>1, UpFacts, SleepResultFacts
<1>3. EndReceive(U) \in Descriptors /\ EndReceive(U).rts = {}
  <2> HIDE DEF U
  <2>1. QED
    BY <1>1, <1>2, EndReceiveFacts
<1>4. /\ proc' = [proc EXCEPT ![p] = EndReceive(U)] /\ Finish(p, rc)
      /\ call' = [call EXCEPT ![p] = call[p]]
  BY DEF RcvrqstDone, ProcsFit
<1> HIDE DEF U
<1>5. QED
  BY <1>1, <1>3, <1>4, CallEnds

LEMMA SendrecDeliverFits ==
    ASSUME ProcsFit, NEW p \in Procs, NEW d \in Procs, SendrecDeliver(p, d)
    PROVE  ProcsFit'
<1> DEFINE X == Mark(proc[d], "NOMIGRATE")
           B == Wake(EndReceive(X), "OK")
           M == Mark(proc[p], "ATOMIC")
           S == [Set(M, "RECEIVING") EXCEPT !.getfrom = d]
           R == [proc[p] EXCEPT !.rcode = "EAGAIN"]
           N == Clear(R, "ATOMIC")
           A == EndSend(EndReceive(N))
           c(t) == [op |-> "sendrec", peer |-> d, timeout |-> t, both |-> FALSE]
<1>1. /\ p # d /\ proc[p] \in Descriptors /\ proc[d] \in Descriptors /\ proc[p].rts = {}
      /\ "RECEIVING" \in proc[d].rts
  BY PeerDiffers, RunningFits DEF SendrecDeliver, EnterTo, Enter, Sleeping, Waits, ProcsFit
<1>2. X \in Descriptors /\ X.rts = proc[d].rts /\ X.sem = proc[d].sem
  BY <1>1, MiscFacts DEF MiscFlags
<1>3. B \in Descriptors /\ Fits(B, pc[d], call[d].op)
  <2> HIDE DEF X
  <2>1. QED
    BY <1>1, <1>2, ReceiverWoken DEF Rcodes
<1>4. ASSUME NEW t \in Timeouts \ {"nowait"}, Calling(p, "sendrec", d, t, FALSE),
             proc' = [proc EXCEPT ![p] = Down(S), ![d] = B], Goto(p, "sleep")
      PROVE  ProcsFit'
  <2>1. c(t) \in CallRecords /\ call' = [call EXCEPT ![p] = c(t)] /\ c(t).op = "sendrec"
    BY <1>4, EnvAssumption DEF Calling, CallRecords, Calls
  <2>2. M \in Descriptors /\ M.rts = {}
    BY <1>1, MiscFacts DEF MiscFlags
  <2>3. S \in Descriptors /\ S.rts = {"RECEIVING"}
    <3> HIDE DEF M
    <3>1. QED
      BY <2>2 DEF Set, Descriptors, RtsFlags
  <2> HIDE DEF S, B, c
  <2>4. Down(S) \in Descriptors /\ Fits(Down(S), "sleep", c(t).op)
    BY <2>1, <2>3, SleepFits
  <2>5. QED
    BY <1>1, <1>3, <1>4, <2>1, <2>4, TwoProcesses DEF Goto, PcValues
<1>5. ASSUME Calling(p, "sendrec", d, "none", FALSE),
             proc' = [proc EXCEPT ![p] = A, ![d] = B], Finish(p, "EAGAIN")
      PROVE  ProcsFit'
  <2>1. c("none") \in CallRecords /\ call' = [call EXCEPT ![p] = c("none")]
    BY <1>5 DEF Calling, CallRecords, Calls
  <2>2. R \in Descriptors /\ R.rts = {}
    BY <1>1 DEF Descriptors, Rcodes
  <2>3. A \in Descriptors /\ A.rts = {}
    <3> HIDE DEF R
    <3>1. N \in Descriptors /\ N.rts = {}
      BY <2>2, MiscFacts DEF MiscFlags
    <3> HIDE DEF N
    <3>2. QED
      BY <3>1, EndReceiveFacts, EndSendFacts
  <2> HIDE DEF A, B, c
  <2>4. QED
    BY <1>1, <1>3, <1>5, <2>1, <2>3, CallEndsWithPeer
<1>6. QED
  <2>1. CASE /\ \E t \in Timeouts \ {"nowait"} : Calling(p, "sendrec", d, t, FALSE)
             /\ proc' = [proc EXCEPT
                   ![p] = Down([Set(Mark(@, "ATOMIC"), "RECEIVING") EXCEPT !.getfrom = d]),
                   ![d] = Wake(EndReceive(Mark(@, "NOMIGRATE")), "OK")]
             /\ Goto(p, "sleep")
    <3>1. proc' = [proc EXCEPT ![p] = Down(S), ![d] = B]
      BY <1>1, <2>1
    <3> HIDE DEF S, B
    <3>2. QED
      BY <1>4, <2>1, <3>1
  <2>2. CASE /\ Calling(p, "sendrec", d, "none", FALSE)
             /\ proc' = [proc EXCEPT
                   ![p] = EndSend(EndReceive(Clear([@ EXCEPT !.rcode = "EAGAIN"], "ATOMIC"))),
                   ![d] = Wake(EndReceive(Mark(@, "NOMIGRATE")), "OK")]
             /\ Finish(p, "EAGAIN")
    <3>1. proc' = [proc EXCEPT ![p] = A, ![d] = B]
      BY <1>1, <2>2
    <3> HIDE DEF A, B
    <3>2. QED
      BY <1>5, <2>2, <3>1
  <2>3. QED
    BY <2>1, <2>2 DEF SendrecDeliver

LEMMA SendrecFaultFits ==
    ASSUME ProcsFit, NEW p \in Procs, NEW d \in Procs, SendrecFault(p, d)
    PROVE  ProcsFit'
<1> DEFINE R == [proc[p] EXCEPT !.rcode = "OK"]
           N == Clear(R, "ATOMIC")
           A == EndSend(EndReceive(N))
           W == Wake(EndReceive(proc[d]), "FAULT")
           B == Clear(W, "NOMIGRATE")
           c == [op |-> "sendrec", peer |-> d, timeout |-> "none", both |-> FALSE]
<1>1. /\ p # d /\ proc[p] \in Descriptors /\ proc[d] \in Descriptors /\ proc[p].rts = {}
      /\ "RECEIVING" \in proc[d].rts
  BY PeerDiffers, RunningFits DEF SendrecFault, EnterTo, Enter, Sleeping, Waits, ProcsFit
<1>2. W \in Descriptors /\ Fits(W, pc[d], call[d].op)
  BY <1>1, ReceiverWoken DEF Rcodes
<1>3. B \in Descriptors /\ Fits(B, pc[d], call[d].op)
  <2> HIDE DEF W
  <2>1. B \in Descriptors /\ B.rts = W.rts /\ B.sem = W.sem
    BY <1>2, MiscFacts DEF MiscFlags
  <2> HIDE DEF B
  <2>2. QED
    BY <1>2, <2>1 DEF Fits
<1>4. R \in Descriptors /\ R.rts = {}
  BY <1>1 DEF Descriptors, Rcodes
<1>5. A \in Descriptors /\ A.rts = {}
  <2> HIDE DEF R
  <2>1. N \in Descriptors /\ N.rts = {}
    BY <1>4, MiscFacts DEF MiscFlags
  <2> HIDE DEF N
  <2>2. QED
    BY <2>1, EndReceiveFacts, EndSendFacts
<1>6. c \in CallRecords /\ call' = [call EXCEPT ![p] = c]
  BY DEF SendrecFault, Calling, CallRecords, Calls
<1>7. proc' = [proc EXCEPT ![p] = A, ![d] = B] /\ Finish(p, "FAULT")
  BY <1>1 DEF SendrecFault
<1> HIDE DEF A, B, c
<1>8. QED
  BY <1>1, <1>3, <1>5, <1>6, <1>7, CallEndsWithPeer

LEMMA SendrecTakeFits ==
    ASSUME ProcsFit, NEW p \in Procs, NEW d \in Procs, SendrecTake(p, d)
    PROVE  ProcsFit'
<1> DEFINE X == Clear(proc[d], "NOMIGRATE")
           B(ret1) == Wake(EndSend(X), ret1)
           F0 == [proc[p] EXCEPT !.rcode = "OK", !.getfrom = NONE]
           F1 == Mark(F0, "ATOMIC")
           G0 == [proc[p] EXCEPT !.rcode = "OK", !.getfrom = d]
           A(fault) == IF fault THEN EndSend(F1) ELSE Clear(G0, "ATOMIC")
           c == [op |-> "sendrec", peer |-> d, timeout |-> "none", both |-> FALSE]
<1>1. /\ p # d /\ proc[p] \in Descriptors /\ proc[d] \in Descriptors /\ proc[p].rts = {}
      /\ "SENDING" \in proc[d].rts
  BY PeerDiffers, RunningFits DEF SendrecTake, EnterTo, Enter, Sleeping, SendsTo, ProcsFit
<1>2. PICK ret1 \in {"OK", "GARBAGE"}, fault \in Faults :
         /\ proc' = [proc EXCEPT
                ![d] = Wake(EndSend(Clear(@, "NOMIGRATE")), ret1),
                ![p] = IF fault
                       THEN EndSend(Mark([@ EXCEPT !.rcode = "OK", !.getfrom = NONE], "ATOMIC"))
                       ELSE Clear([@ EXCEPT !.rcode = "OK", !.getfrom = d], "ATOMIC")]
         /\ \E rc : Finish(p, rc)
  BY DEF SendrecTake
<1>3. proc' = [proc EXCEPT ![p] = A(fault), ![d] = B(ret1)]
  BY <1>1, <1>2 DEF ProcsFit
<1>4. X \in Descriptors /\ X.rts = proc[d].rts /\ X.sem = proc[d].sem
  BY <1>1, MiscFacts DEF MiscFlags
<1>5. B(ret1) \in Descriptors /\ Fits(B(ret1), pc[d], call[d].op)
  <2> HIDE DEF X
  <2>1. QED
    BY <1>1, <1>4, SenderWoken DEF Rcodes
<1>6. F0 \in Descriptors /\ F0.rts = {} /\ G0 \in Descriptors /\ G0.rts = {}
  BY <1>1 DEF Descriptors, Rcodes
<1>7. A(fault) \in Descriptors /\ A(fault).rts = {}
  <2> HIDE DEF F0, G0
  <2>1. F1 \in Descriptors /\ F1.rts = {}
    BY <1>6, MiscFacts DEF MiscFlags
  <2> HIDE DEF F1
  <2>2. QED
    BY <1>6, <2>1, MiscFacts, EndSendFacts DEF MiscFlags
<1>8. c \in CallRecords /\ call' = [call EXCEPT ![p] = c]
  BY DEF SendrecTake, Calling, CallRecords, Calls
<1>9. PICK rc : Finish(p, rc)
  BY <1>2
<1> HIDE DEF A, B, c
<1>10. QED
  BY <1>1, <1>3, <1>5, <1>7, <1>8, <1>9, CallEndsWithPeer

LEMMA SendrecBlockFits ==
    ASSUME ProcsFit, NEW p \in Procs, NEW d \in Procs, SendrecBlock(p, d)
    PROVE  ProcsFit'
<1> DEFINE M == Mark(proc[p], "ATOMIC")
           S == [M EXCEPT !.rts = RtsFlags, !.getfrom = d, !.sendto = d]
           B == Clear(proc[d], "NOMIGRATE")
<1>1. /\ p # d /\ proc[p] \in Descriptors /\ proc[d] \in Descriptors /\ proc[p].rts = {}
  BY PeerDiffers, RunningFits
     DEF SendrecBlock, QueuesRequest, EnterTo, Enter, Sleeping, ProcsFit
<1>2. PICK t \in Timeouts \ {"nowait"} : Calling(p, "sendrec", d, t, TRUE)
  BY DEF SendrecBlock
<1> DEFINE c == [op |-> "sendrec", peer |-> d, timeout |-> t, both |-> TRUE]
<1>3. c \in CallRecords /\ call' = [call EXCEPT ![p] = c] /\ c.op = "sendrec"
  BY <1>2, EnvAssumption DEF Calling, CallRecords, Calls
<1>4. M \in Descriptors
  BY <1>1, MiscFacts DEF MiscFlags
<1>5. S \in Descriptors /\ S.rts = RtsFlags
  <2> HIDE DEF M
  <2>1. QED
    BY <1>4 DEF Descriptors
<1>6. B \in Descriptors /\ Fits(B, pc[d], call[d].op)
  <2>1. B \in Descriptors /\ B.rts = proc[d].rts /\ B.sem = proc[d].sem
    BY <1>1, MiscFacts DEF MiscFlags
  <2> HIDE DEF B
  <2>2. QED
    BY <2>1, SameFlags
<1>7. proc' = [proc EXCEPT ![p] = Down(S), ![d] = B] /\ pc' = [pc EXCEPT ![p] = "sleep"]
  BY <1>1 DEF SendrecBlock, Goto
<1> HIDE DEF c, S, B
<1>8. Down(S) \in Descriptors /\ Fits(Down(S), "sleep", c.op)
  BY <1>3, <1>5, SleepFits DEF RtsFlags
<1>9. QED
  BY <1>1, <1>3, <1>6, <1>7, <1>8, TwoProcesses DEF PcValues

LEMMA SendrecAgainFits ==
    ASSUME ProcsFit, NEW p \in Procs, NEW d \in Procs, SendrecAgain(p, d)
    PROVE  ProcsFit'
<1> DEFINE R == [proc[p] EXCEPT !.rcode = "EAGAIN"]
           N == Clear(R, "ATOMIC")
           A == EndSend(EndReceive(N))
           B == Clear(proc[d], "NOMIGRATE")
           c == [op |-> "sendrec", peer |-> d, timeout |-> "none", both |-> FALSE]
<1>1. /\ p # d /\ proc[p] \in Descriptors /\ proc[d] \in Descriptors /\ proc[p].rts = {}
  BY PeerDiffers, RunningFits
     DEF SendrecAgain, QueuesRequest, EnterTo, Enter, Sleeping, ProcsFit
<1>2. R \in Descriptors /\ R.rts = {}
  BY <1>1 DEF Descriptors, Rcodes
<1>3. A \in Descriptors /\ A.rts = {}
  <2> HIDE DEF R
  <2>1. N \in Descriptors /\ N.rts = {}
    BY <1>2, MiscFacts DEF MiscFlags
  <2> HIDE DEF N
  <2>2. QED
    BY <2>1, EndReceiveFacts, EndSendFacts
<1>4. B \in Descriptors /\ Fits(B, pc[d], call[d].op)
  <2>1. B \in Descriptors /\ B.rts = proc[d].rts /\ B.sem = proc[d].sem
    BY <1>1, MiscFacts DEF MiscFlags
  <2> HIDE DEF B
  <2>2. QED
    BY <2>1, SameFlags
<1>5. c \in CallRecords /\ call' = [call EXCEPT ![p] = c]
  BY DEF SendrecAgain, Calling, CallRecords, Calls
<1>6. proc' = [proc EXCEPT ![p] = A, ![d] = B] /\ Finish(p, "EAGAIN")
  BY <1>1 DEF SendrecAgain
<1> HIDE DEF A, B, c
<1>7. QED
  BY <1>1, <1>3, <1>4, <1>5, <1>6, CallEndsWithPeer

LEMMA SendrecDoneFits ==
    ASSUME ProcsFit, NEW p \in Procs, SendrecDone(p)
    PROVE  ProcsFit'
<1> DEFINE rc == SleepResult(p)
           U == Up(proc[p], rc)
           D == Clear(U, "ATOMIC")
           E == EndReceive(D)
           A == IF rc = "OK" THEN D ELSE EndSend(E)
<1>1. /\ proc[p] \in Descriptors /\ call[p] \in CallRecords
      /\ rc = "OK" => proc[p].rts = {}
      /\ proc[p].rts \subseteq RtsFlags
  BY LeavesFits DEF SendrecDone
<1>2. U \in Descriptors /\ U.rts = proc[p].rts
  BY <1>1, UpFacts, SleepResultFacts
<1>3. D \in Descriptors /\ D.rts = proc[p].rts
  <2> HIDE DEF U
  <2>1. QED
    BY <1>2, MiscFacts DEF MiscFlags
<1>4. A \in Descriptors /\ A.rts = {}
  <2> HIDE DEF D
  <2>1. E \in Descriptors /\ E.rts = proc[p].rts \ {"RECEIVING"}
    BY <1>3, EndReceiveFacts
  <2> HIDE DEF E
  <2>2. EndSend(E) \in Descriptors /\ EndSend(E).rts = {}
    BY <1>1, <2>1, EndSendFacts DEF RtsFlags
  <2>3. QED
    BY <1>1, <1>3, <2>2
<1>5. proc' = [proc EXCEPT ![p] = A] /\ Finish(p, rc) /\ call' = [call EXCEPT ![p] = call[p]]
  BY DEF SendrecDone, ProcsFit
<1> HIDE DEF A
<1>6. QED
  BY <1>1, <1>4, <1>5, CallEnds

LEMMA ReplyFits ==
    ASSUME ProcsFit, NEW p \in Procs, NEW d \in Procs, Reply(p, d) \/ ReplyRefuse(p, d)
    PROVE  ProcsFit'
<1> DEFINE R == [proc[p] EXCEPT !.rcode = "OK"]
           B == Wake(EndReceive(proc[d]), "OK")
           c == [op |-> "reply", peer |-> d, timeout |-> "none", both |-> FALSE]
<1>1. /\ p # d /\ proc[p] \in Descriptors /\ proc[d] \in Descriptors /\ proc[p].rts = {}
  BY PeerDiffers, RunningFits DEF Reply, ReplyRefuse, EnterTo, Enter, Sleeping, ProcsFit
<1>2. c \in CallRecords /\ call' = [call EXCEPT ![p] = c]
  BY DEF Reply, ReplyRefuse, Calling, CallRecords, Calls
<1>3. R \in Descriptors /\ R.rts = {}
  BY <1>1 DEF Descriptors, Rcodes
<1>4. CASE proc' = [proc EXCEPT ![p].rcode = "OK"] /\ \E rc : Finish(p, rc)
  <2>1. proc' = [proc EXCEPT ![p] = R]
    BY <1>4
  <2> HIDE DEF R, c
  <2>2. QED
    BY <1>2, <1>3, <1>4, <2>1, CallEnds
<1>5. CASE /\ AwaitsReply(proc[d], p) /\ Finish(p, "OK")
           /\ proc' = [proc EXCEPT ![p].rcode = "OK", ![d] = Wake(EndReceive(@), "OK")]
  <2>1. B \in Descriptors /\ Fits(B, pc[d], call[d].op)
    BY <1>1, <1>5, ReceiverWoken DEF AwaitsReply, Waits, Rcodes
  <2>2. proc' = [proc EXCEPT ![p] = R, ![d] = B] /\ Finish(p, "OK")
    BY <1>1, <1>5
  <2> HIDE DEF R, B, c
  <2>3. QED
    BY <1>1, <1>2, <1>3, <2>1, <2>2, CallEndsWithPeer
<1>6. QED
  BY <1>4, <1>5 DEF Reply, ReplyRefuse

LEMMA NotifiedFits ==
    ASSUME ProcsFit, NEW d \in Procs, "RECEIVING" \in proc[d].rts,
           NEW s \in Messages
    PROVE  /\ Notified(proc[d], s) \in Descriptors
           /\ Fits(Notified(proc[d], s), pc[d], call[d].op)
<1> DEFINE M == [proc[d] EXCEPT !.message = s]
           X == Mark(M, "NOTIFY")
<1>1. M \in Descriptors /\ M.rts = proc[d].rts /\ M.sem = proc[d].sem
  <2>1. proc[d] \in Descriptors
    BY DEF ProcsFit
  <2>2. QED
    BY <2>1 DEF Descriptors, Messages
<1>2. X \in Descriptors /\ X.rts = proc[d].rts /\ X.sem = proc[d].sem
  <2> HIDE DEF M
  <2>1. QED
    BY <1>1, MiscFacts DEF MiscFlags
<1>3. Notified(proc[d], s) = Wake(EndReceive(X), "OK")
  BY DEF Notified
<1> HIDE DEF X
<1>4. QED
  BY <1>2, <1>3, ReceiverWoken DEF Rcodes

LEMMA PendingFits ==
    ASSUME ProcsFit, NEW d \in Procs, NEW p \in Procs
    PROVE  /\ Pend(proc[d], p) \in Descriptors
           /\ Fits(Pend(proc[d], p), pc[d], call[d].op)
<1>1. proc[d] \in Descriptors
  BY DEF ProcsFit
<1>2. /\ Pend(proc[d], p) \in Descriptors
      /\ Pend(proc[d], p).rts = proc[d].rts /\ Pend(proc[d], p).sem = proc[d].sem
  BY <1>1 DEF Pend, Descriptors
<1>3. QED
  BY <1>2, SameFlags

LEMMA NotifyFits ==
    ASSUME ProcsFit, NEW p \in Procs, NEW s \in Procs, NEW d \in Procs, Notify(p, s, d)
    PROVE  ProcsFit'
<1> DEFINE R == [proc[p] EXCEPT !.rcode = "OK"]
           B == IF Waits(proc[d], s) THEN Notified(proc[d], s)
                ELSE Pend(proc[d], p)
           c == [op |-> "notify", peer |-> d, timeout |-> "none", both |-> FALSE]
<1>1. /\ p # d /\ proc[p] \in Descriptors /\ proc[d] \in Descriptors /\ proc[p].rts = {}
  BY PeerDiffers, RunningFits DEF Notify, EnterTo, Enter, Sleeping, ProcsFit
<1>2. R \in Descriptors /\ R.rts = {}
  BY <1>1 DEF Descriptors, Rcodes
<1>3. B \in Descriptors /\ Fits(B, pc[d], call[d].op)
  BY NotifiedFits, PendingFits DEF Waits, Messages
<1>4. c \in CallRecords /\ call' = [call EXCEPT ![p] = c]
  BY DEF Notify, Calling, CallRecords, Calls
<1>5. proc' = [proc EXCEPT ![p] = R, ![d] = B] /\ Finish(p, "OK")
  BY <1>1 DEF Notify
<1> HIDE DEF R, B, c
<1>6. QED
  BY <1>1, <1>2, <1>3, <1>4, <1>5, CallEndsWithPeer

\* A step outside the calls of d: its thread stays where it is.
LEMMA DescriptorFits ==
    ASSUME ProcsFit, NEW d \in Procs, NEW B \in Descriptors,
           Fits(B, pc[d], call[d].op),
           proc' = [proc EXCEPT ![d] = B], UNCHANGED <<pc, call>>
    PROVE  ProcsFit'
<1>1. ASSUME NEW q \in Procs PROVE Fits(proc'[q], pc'[q], call'[q].op)
  <2>1. CASE q = d
    BY <2>1 DEF ProcsFit
  <2>2. CASE q # d
    BY <2>2 DEF ProcsFit
  <2>3. QED
    BY <2>1, <2>2
<1>2. QED
  BY <1>1 DEF ProcsFit

LEMMA HdwNotifyFits ==
    ASSUME ProcsFit, NEW d \in Procs, HdwNotify(d)
    PROVE  ProcsFit'
<1> DEFINE B == IF Waits(proc[d], HARDWARE) THEN Notified(proc[d], HARDWARE)
                ELSE Pend(proc[d], d)
<1>1. B \in Descriptors /\ Fits(B, pc[d], call[d].op)
  BY NotifiedFits, PendingFits DEF Waits, Messages
<1>2. proc' = [proc EXCEPT ![d] = B] /\ UNCHANGED <<pc, call>>
  BY DEF HdwNotify
<1> HIDE DEF B
<1>3. QED
  BY <1>1, <1>2, DescriptorFits

LEMMA WakeUpFits ==
    ASSUME ProcsFit, NEW d \in Procs, WakeUp(d)
    PROVE  ProcsFit'
<1> DEFINE R == EndReceive(proc[d])
           W == IF R.rts = {} THEN Wake(R, "WOKENUP") ELSE Mark(R, "WOKENUP")
           X == Mark(proc[d], "WOKENUP")
           B == IF "RECEIVING" \in proc[d].rts /\ proc[d].getfrom = ANY THEN W ELSE X
<1>1. proc[d] \in Descriptors
  BY DEF ProcsFit
<1>2. "RECEIVING" \in proc[d].rts => W \in Descriptors /\ Fits(W, pc[d], call[d].op)
  <2> SUFFICES ASSUME "RECEIVING" \in proc[d].rts
               PROVE  W \in Descriptors /\ Fits(W, pc[d], call[d].op)
    OBVIOUS
  <2>1. Wake(R, "WOKENUP") \in Descriptors /\ Fits(Wake(R, "WOKENUP"), pc[d], call[d].op)
    BY <1>1, ReceiverWoken DEF Rcodes
  <2>2. R \in Descriptors
    BY <1>1, EndReceiveFacts
  <2> HIDE DEF R
  <2>3. CASE R.rts = {}
    BY <2>1, <2>3
  <2>4. CASE R.rts # {}
    <3>1. Fits(R, pc[d], call[d].op)
      BY <2>1, <2>4 DEF Wake
    <3>2. /\ Mark(R, "WOKENUP") \in Descriptors
          /\ Mark(R, "WOKENUP").rts = R.rts /\ Mark(R, "WOKENUP").sem = R.sem
      BY <2>2, MiscFacts DEF MiscFlags
    <3>3. Fits(Mark(R, "WOKENUP"), pc[d], call[d].op)
      BY <3>1, <3>2 DEF Fits
    <3>4. QED
      BY <2>4, <3>2, <3>3
  <2>5. QED
    BY <2>3, <2>4
<1>3. X \in Descriptors /\ Fits(X, pc[d], call[d].op)
  <2>1. X \in Descriptors /\ X.rts = proc[d].rts /\ X.sem = proc[d].sem
    BY <1>1, MiscFacts DEF MiscFlags
  <2> HIDE DEF X
  <2>2. QED
    BY <2>1, SameFlags
<1>4. proc' = [proc EXCEPT ![d] = B] /\ UNCHANGED <<pc, call>>
  BY DEF WakeUp
<1> HIDE DEF W, X
<1>5. B \in Descriptors /\ Fits(B, pc[d], call[d].op)
  BY <1>2, <1>3
<1> HIDE DEF B
<1>6. QED
  BY <1>4, <1>5, DescriptorFits

LEMMA TimerFits ==
    ASSUME ProcsFit, NEW p \in Procs, TimerExpires(p) \/ SignalArrives(p)
    PROVE  ProcsFit'
<1>1. PICK l \in {"expired", "signaled"} : pc' = [pc EXCEPT ![p] = l]
  BY DEF TimerExpires, SignalArrives, Goto
<1>2. /\ proc[p] \in Descriptors /\ call[p] \in CallRecords /\ l \in PcValues
      /\ proc' = [proc EXCEPT ![p] = proc[p]] /\ call' = [call EXCEPT ![p] = call[p]]
  BY DEF TimerExpires, SignalArrives, ProcsFit, PcValues
<1>3. Fits(proc[p], l, call[p].op)
  BY DEF TimerExpires, SignalArrives, ProcsFit, Fits, Sleeping, Receiving
<1>4. QED
  BY <1>1, <1>2, <1>3, OneProcess

LEMMA ReturnFits ==
    ASSUME ProcsFit, NEW p \in Procs, Return(p)
    PROVE  ProcsFit'
<1>1. /\ proc[p] \in Descriptors /\ proc[p].rts = {} /\ NoCall \in CallRecords
      /\ "user" \in PcValues
  BY RunningFits DEF Return, Sleeping, NoCall, CallRecords, PcValues
<1>2. /\ proc' = [proc EXCEPT ![p] = proc[p]] /\ call' = [call EXCEPT ![p] = NoCall]
      /\ pc' = [pc EXCEPT ![p] = "user"]
  BY DEF Return, Goto, ProcsFit
<1>3. Fits(proc[p], "user", NoCall.op)
  BY <1>1 DEF Fits, Sleeping, Receiving
<1>4. QED
  BY <1>1, <1>2, <1>3, OneProcess

LEMMA ProcsFitStep ==
    ASSUME ProcsFit, RestTyped, [Next]_vars
    PROVE  ProcsFit'
<1>1. ASSUME NEW p \in Procs, CallSend(p) PROVE ProcsFit'
  BY <1>1, SendDeliverFits, SendBlockFits, SendAgainFits DEF CallSend
<1>2. ASSUME NEW p \in Procs, CallReceive(p) PROVE ProcsFit'
  BY <1>2, ReceiveStartFits DEF CallReceive
<1>3. ASSUME NEW p \in Procs, CallSendrec(p) PROVE ProcsFit'
  BY <1>3, SendrecDeliverFits, SendrecFaultFits, SendrecTakeFits, SendrecBlockFits,
     SendrecAgainFits DEF CallSendrec
<1>4. ASSUME NEW p \in Procs, RcvrqstStart(p) PROVE ProcsFit'
  BY <1>4, RcvrqstStartFits
<1>5. ASSUME NEW p \in Procs, CallReply(p) PROVE ProcsFit'
  BY <1>5, ReplyFits DEF CallReply
<1>6. ASSUME NEW p \in Procs, CallNotify(p) PROVE ProcsFit'
  BY <1>6, NotifyFits DEF CallNotify
<1>7. ASSUME NEW p \in Procs,
             \/ NotifyNone(p) \/ NotifyLoad(p) \/ ReceiveLock(p)
             \/ ScanInvert(p) \/ ScanSkip(p) \/ ScanWild(p)
      PROVE  ProcsFit'
  <2>1. PICK l \in Receiving : pc' = [pc EXCEPT ![p] = l]
    BY <1>7 DEF NotifyNone, NotifyLoad, ReceiveLock, StartScan, ScanInvert, ScanSkip,
                ScanWild, Goto, Receiving
  <2>2. pc[p] \in Receiving /\ UNCHANGED <<proc, call>>
    BY <1>7 DEF NotifyNone, NotifyLoad, ReceiveLock, StartScan, ScanInvert, ScanSkip,
                ScanWild, Visits, Receiving
  <2>3. QED
    BY <2>1, <2>2, MovesOn
<1>8. ASSUME NEW p \in Procs, Continue(p) PROVE ProcsFit'
  BY <1>7, <1>8, NotifyStoreFits, ScanTakeFits, ScanRefuseFits, ReceiveBlockFits,
     ReceiveAgainFits, SendDoneFits, ReceiveDoneFits, RcvrqstDoneFits, SendrecDoneFits,
     ReturnFits DEF Continue
<1>9. CASE UNCHANGED vars
  BY <1>9 DEF vars, ProcsFit
<1>10. ASSUME NEW p \in Procs, Step(p) PROVE ProcsFit'
  BY <1>10, <1>1, <1>2, <1>3, <1>4, <1>5, <1>6, <1>8, TimerFits, HdwNotifyFits,
     WakeUpFits DEF Step
<1>11. QED
  BY <1>9, <1>10 DEF Next

-----------------------------------------------------------------------------
(* Every step keeps the types of the rest. *)

LEMMA WalkFacts ==
    ASSUME RestTyped, NEW p \in Procs
    PROVE  /\ FirstOf(lists, p) \in [xpp : Links, tmp : Links]
           /\ [xpp |-> ListHead(p), tmp |-> ListHead(p)] \in [xpp : Links, tmp : Links]
           /\ [xpp |-> walk[p].tmp, tmp |-> lists.next[walk[p].tmp]]
                 \in [xpp : Links, tmp : Links]
<1>1. ListHead(p) \in Links
  BY DEF ListHead, Links
<1>2. QED
  BY <1>1 DEF RestTyped, ListStructs, FirstOf

LEMMA CopyFacts ==
    ASSUME RestTyped, NEW s \in Procs, NEW d \in Procs, Copy(s, d)
    PROVE  copied' \in [Procs -> Nat] /\ got' \in [Procs -> Seq(Messages)]
<1>1. got[d] \in Seq(Messages) /\ s \in Messages
  BY DEF RestTyped, Messages
<1>2. Append(got[d], s) \in Seq(Messages)
  BY <1>1, AppendProperties
<1>3. QED
  BY <1>2 DEF Copy, RestTyped

LEMMA FinishFacts ==
    ASSUME RestTyped, NEW p, NEW rc \in Rcodes, Finish(p, rc)
    PROVE  ret' \in [Procs -> Rcodes]
BY DEF RestTyped, Finish

LEMMA RestTypedStep ==
    ASSUME ProcsFit, RestTyped, [Next]_vars
    PROVE  RestTyped'
<1>1. ASSUME NEW p \in Procs, NEW d \in Procs,
             SendDeliver(p, d) \/ Reply(p, d) \/ ReplyRefuse(p, d)
      PROVE  RestTyped'
  <2>1. UNCHANGED <<lists, walk, chunk>>
    BY <1>1 DEF SendDeliver, Reply, ReplyRefuse, local
  <2>2. ret' \in [Procs -> Rcodes]
    BY <1>1, FinishFacts DEF SendDeliver, Reply, ReplyRefuse, Rcodes
  <2>3. Copy(p, d) \/ UNCHANGED hist
    BY <1>1 DEF SendDeliver, Reply, ReplyRefuse
  <2>4. QED
    BY <2>1, <2>2, <2>3, CopyFacts DEF RestTyped, hist
<1>2. ASSUME NEW p \in Procs, NEW d \in Procs,
             SendBlock(p, d) \/ SendAgain(p, d) \/ SendrecBlock(p, d) \/ SendrecAgain(p, d)
      PROVE  RestTyped'
  <2>1. UNCHANGED <<walk, chunk, copied, got>>
    BY <1>2 DEF SendBlock, SendAgain, SendrecBlock, SendrecAgain, local, hist
  <2>2. ret' \in [Procs -> Rcodes]
    BY <1>2, FinishFacts
       DEF SendBlock, SendAgain, SendrecBlock, SendrecAgain, Rcodes, RestTyped
  <2>3. lists' \in ListStructs
    <3>1. Enqueue(lists, p, d) \in ListStructs
      BY ListFacts DEF RestTyped
    <3>2. ListDelInit(Enqueue(lists, p, d), ListNode(p)) \in ListStructs
      BY <3>1, ListFacts
    <3>3. QED
      BY <1>2, <3>1, <3>2 DEF SendBlock, SendAgain, SendrecBlock, SendrecAgain
  <2>4. QED
    BY <2>1, <2>2, <2>3 DEF RestTyped
<1>3. ASSUME NEW p \in Procs, NEW d \in Procs,
             SendrecDeliver(p, d) \/ SendrecFault(p, d) \/ SendrecTake(p, d)
      PROVE  RestTyped'
  <2>1. UNCHANGED <<lists, walk, chunk>>
    BY <1>3 DEF SendrecDeliver, SendrecFault, SendrecTake, local
  <2>2. ret' \in [Procs -> Rcodes]
    BY <1>3, FinishFacts DEF SendrecDeliver, SendrecFault, SendrecTake, Rcodes, RestTyped
  <2>3. Copy(p, d) \/ Copy(d, p) \/ UNCHANGED hist
    BY <1>3 DEF SendrecDeliver, SendrecFault, SendrecTake
  <2>4. QED
    BY <2>1, <2>2, <2>3, CopyFacts DEF RestTyped, hist
<1>4. ASSUME NEW p \in Procs,
             \/ \E s \in Procs \cup {ANY} : ReceiveStart(p, s)
             \/ NotifyNone(p) \/ NotifyLoad(p) \/ ReceiveLock(p) \/ RcvrqstStart(p)
             \/ ScanInvert(p) \/ ScanSkip(p) \/ ScanWild(p)
      PROVE  RestTyped'
  <2>1. UNCHANGED <<lists, copied, got>>
    BY <1>4 DEF ReceiveStart, NotifyNone, NotifyLoad, ReceiveLock, RcvrqstStart, ScanInvert,
                ScanSkip, ScanWild, local, hist
  <2>2. ret' \in [Procs -> Rcodes]
    BY <1>4, FinishFacts
       DEF ReceiveStart, NotifyNone, NotifyLoad, ReceiveLock, RcvrqstStart, ScanInvert,
           ScanSkip, ScanWild, Rcodes, RestTyped
  <2>3. walk' \in [Procs -> [xpp : Links, tmp : Links]]
    BY <1>4, WalkFacts
       DEF ReceiveStart, NotifyNone, NotifyLoad, ReceiveLock, RcvrqstStart, StartScan,
           ScanInvert, ScanSkip, ScanWild, local, RestTyped
  <2>4. chunk' \in [Procs -> SUBSET Procs]
    <3>1. proc[p].pending \in SUBSET Procs
      BY DEF ProcsFit, Descriptors
    <3>2. QED
      BY <1>4, <3>1 DEF ReceiveStart, NotifyNone, NotifyLoad, ReceiveLock, RcvrqstStart,
                        ScanInvert, ScanSkip, ScanWild, local, RestTyped
  <2>5. QED
    BY <2>1, <2>2, <2>3, <2>4 DEF RestTyped
<1>5. ASSUME NEW p \in Procs, NotifyStore(p)
      PROVE  RestTyped'
  <2>1. PICK m \in Messages : got' = [got EXCEPT ![p] = Append(@, m)]
    BY <1>5 DEF NotifyStore, RestTyped, Messages
  <2>2. Append(got[p], m) \in Seq(Messages)
    BY AppendProperties DEF RestTyped
  <2>3. QED
    BY <1>5, <2>1, <2>2, FinishFacts DEF NotifyStore, RestTyped, Rcodes
<1>6. ASSUME NEW p \in Procs, NEW x \in Procs, ScanTake(p, x) \/ ScanRefuse(p, x)
      PROVE  RestTyped'
  <2>1. walk' \in [Procs -> [xpp : Links, tmp : Links]] /\ UNCHANGED chunk
    BY <1>6, WalkFacts DEF ScanTake, ScanRefuse, NoWalk, RestTyped
  <2>2. ret' \in [Procs -> Rcodes]
    BY <1>6, FinishFacts DEF ScanTake, ScanRefuse, Rcodes
  <2>3. Copy(x, p) \/ UNCHANGED hist
    BY <1>6 DEF ScanTake, ScanRefuse
  <2>4. lists' \in ListStructs
    BY <1>6, ListFacts DEF ScanTake, ScanRefuse, RestTyped
  <2>5. QED
    BY <2>1, <2>2, <2>3, <2>4, CopyFacts DEF RestTyped, hist
<1>7. ASSUME NEW p \in Procs, ReceiveBlock(p) \/ ReceiveAgain(p)
      PROVE  RestTyped'
  <2>1. walk' \in [Procs -> [xpp : Links, tmp : Links]]
    BY <1>7, WalkFacts DEF ReceiveBlock, ReceiveAgain, NoWalk, RestTyped
  <2>2. ret' \in [Procs -> Rcodes]
    BY <1>7, FinishFacts DEF ReceiveBlock, ReceiveAgain, Rcodes, RestTyped
  <2>3. QED
    BY <1>7, <2>1, <2>2 DEF ReceiveBlock, ReceiveAgain, RestTyped, hist
<1>8. ASSUME NEW p \in Procs, SendDone(p) \/ SendrecDone(p) \/ RcvrqstDone(p)
      PROVE  RestTyped'
  <2>1. UNCHANGED <<walk, chunk, copied, got>>
    BY <1>8 DEF SendDone, SendrecDone, RcvrqstDone, local, hist
  <2>2. ret' \in [Procs -> Rcodes]
    BY <1>8, FinishFacts, SleepResultFacts DEF SendDone, SendrecDone, RcvrqstDone
  <2>3. lists' \in ListStructs
    BY <1>8, ListFacts DEF SendDone, SendrecDone, RcvrqstDone, RestTyped
  <2>4. QED
    BY <2>1, <2>2, <2>3 DEF RestTyped
<1>9. ASSUME NEW p \in Procs, ReceiveDone(p)
      PROVE  RestTyped'
  <2>1. proc[p].message \in Messages /\ got[p] \in Seq(Messages)
    BY DEF ProcsFit, Descriptors, Messages, RestTyped
  <2>2. Append(got[p], proc[p].message) \in Seq(Messages)
    BY <2>1, AppendProperties
  <2>3. got' \in [Procs -> Seq(Messages)]
    BY <1>9, <2>2 DEF ReceiveDone, RestTyped
  <2>4. ret' \in [Procs -> Rcodes]
    BY <1>9, FinishFacts, SleepResultFacts DEF ReceiveDone
  <2>5. QED
    BY <1>9, <2>3, <2>4 DEF ReceiveDone, RestTyped, local
<1>10. ASSUME NEW p \in Procs, Return(p)
       PROVE  RestTyped'
  <2>1. << >> \in Seq(Messages)
    BY EmptySeq
  <2>2. QED
    BY <1>10, <2>1 DEF Return, RestTyped, Rcodes, local
<1>11. ASSUME NEW p \in Procs, NEW s \in Procs, NEW d \in Procs, Notify(p, s, d)
       PROVE  RestTyped'
  BY <1>11, FinishFacts DEF Notify, RestTyped, Rcodes, local, hist
<1>12. ASSUME NEW p \in Procs,
              HdwNotify(p) \/ WakeUp(p) \/ TimerExpires(p) \/ SignalArrives(p)
       PROVE  RestTyped'
  BY <1>12 DEF HdwNotify, WakeUp, TimerExpires, SignalArrives, RestTyped, local, hist
<1>13. CASE UNCHANGED vars
  BY <1>13 DEF vars, RestTyped
<1>14. ASSUME NEW p \in Procs, Continue(p) PROVE RestTyped'
  BY <1>14, <1>4, <1>5, <1>6, <1>7, <1>8, <1>9, <1>10 DEF Continue
<1>15. ASSUME NEW p \in Procs, Step(p) PROVE RestTyped'
  BY <1>15, <1>1, <1>2, <1>3, <1>4, <1>11, <1>12, <1>14
     DEF Step, CallSend, CallReceive, CallSendrec, CallReply, CallNotify
<1>16. QED
  BY <1>13, <1>15 DEF Next

-----------------------------------------------------------------------------
(* The theorems *)

LEMMA InitIInv == Init => IInv
<1> SUFFICES ASSUME Init PROVE IInv
  OBVIOUS
<1>1. Running \in Descriptors /\ Running.rts = {}
  BY DEF Running, Descriptors, Rcodes
<1>2. NoCall \in CallRecords
  BY DEF NoCall, CallRecords
<1>3. ProcsFit
  BY <1>1, <1>2 DEF Init, ProcsFit, PcValues, Fits, Sleeping, Receiving
<1>4. \A p \in Procs : ListHead(p) \in Links
  BY DEF ListHead, Links
<1>5. << >> \in Seq(Messages)
  BY EmptySeq
<1>6. RestTyped
  BY <1>4, <1>5 DEF Init, RestTyped, ListStructs, Rcodes
<1>7. QED
  BY <1>3, <1>6 DEF IInv

LEMMA StepIInv == IInv /\ [Next]_vars => IInv'
BY ProcsFitStep, RestTypedStep DEF IInv

LEMMA Invariance == Spec => []IInv
BY InitIInv, StepIInv, PTL DEF Spec

\* Every state of every run is well typed: in particular no wakeup ever raises
\* a semaphore that is not down, which is why its value stays in {-1, 0}.
THEOREM TypeCorrect == Spec => []TypeOK
<1>1. IInv => TypeOK
  BY DEF IInv, ProcsFit, RestTyped, TypeOK, ListStructs, Messages
<1>2. QED
  BY <1>1, Invariance, PTL

\* However sends, receives, replies, notifications, wakeups, timeouts and
\* signals interleave, a process has a flag in p_rts_flags exactly while it
\* sleeps with its semaphore down: no wakeup is lost, early or doubled.
THEOREM WakeupsExact == Spec => []WakeProtocol
<1>1. IInv => WakeProtocol
  BY DEF IInv, ProcsFit, Fits, WakeProtocol, Unwoken, Asleep, Sleeping
<1>2. QED
  BY <1>1, Invariance, PTL
=============================================================================
