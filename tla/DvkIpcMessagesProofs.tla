------------------------ MODULE DvkIpcMessagesProofs ------------------------
(* What becomes of a message, of the call that carries it and of the queues  *)
(* it waits in: proofs about DvkIpc, for any processes and privileges.       *)
EXTENDS DvkIpcProofs

-----------------------------------------------------------------------------
(* What a step does to one process.  The invariants below speak of one       *)
(* process at a time: a lemma per action says which of these shapes its step *)
(* has for each process, a lemma per invariant that every shape keeps it.    *)

SameThread(q) == pc'[q] = pc[q] /\ call'[q] = call[q] /\ ret'[q] = ret[q]
SameHistory(q) == copied'[q] = copied[q] /\ got'[q] = got[q]
SameBit(q, b) == b \in proc'[q].misc <=> b \in proc[q].misc
SameBits(q) == SameBit(q, "NOTIFY") /\ SameBit(q, "WOKENUP")
SameFlow(q) ==
    /\ proc'[q].rts = proc[q].rts /\ proc'[q].rcode = proc[q].rcode
    /\ proc'[q].getfrom = proc[q].getfrom /\ proc'[q].sendto = proc[q].sendto

\* Whom a notification in the name of s may reach.
Notifies(s, q) ==
    \/ s = HARDWARE /\ q \in Interrupted
    \/ \E x \in Procs : "notify" \in DvkAllowed[x] /\ q \in IpcTo[x] /\ s \in NotifyAs[x]
Notifiable(q) == \E s \in Messages : Notifies(s, q)

\* A copy may find a bad user address.
MayFault == TRUE \in Faults

\* Others step, and q sees nothing of it.
Still(q) == SameThread(q) /\ SameHistory(q) /\ SameBits(q) /\ SameFlow(q)

\* new_wakeup for a q that is not in a receive from ANY, ...
Marked(q) ==
    /\ Unlocked(q) /\ ~("RECEIVING" \in proc[q].rts /\ proc[q].getfrom = ANY)
    /\ SameThread(q) /\ SameHistory(q) /\ SameBit(q, "NOTIFY") /\ SameFlow(q)

\* ... and for one that is.
Interrupts(q) ==
    /\ "RECEIVING" \in proc[q].rts /\ proc[q].getfrom = ANY
    /\ proc'[q].rts = proc[q].rts \ {"RECEIVING"} /\ proc'[q].sendto = proc[q].sendto
    /\ proc'[q].rts = {} => proc'[q].rcode = "WOKENUP"
    /\ proc'[q].rts # {} => proc'[q].rcode = proc[q].rcode
    /\ SameThread(q) /\ SameHistory(q) /\ SameBit(q, "NOTIFY")

\* q waits for a message of s, and is woken with the code rc.
Received(q, s, rc) ==
    /\ "RECEIVING" \in proc[q].rts /\ "SENDING" \notin proc[q].rts
    /\ proc[q].getfrom \in {ANY, s}
    /\ proc'[q].rts = {} /\ proc'[q].rcode = rc
    /\ SameThread(q) /\ copied'[q] = copied[q] /\ SameBit(q, "WOKENUP")
Filled(q, s) == Received(q, s, "OK") /\ SameBit(q, "NOTIFY") /\ got'[q] = Append(got[q], s)
Failed(q, s) == Received(q, s, "FAULT") /\ SameBit(q, "NOTIFY") /\ got'[q] = got[q]
Alerted(q, s) ==
    /\ Received(q, s, "OK") /\ "NOTIFY" \in proc'[q].misc /\ got'[q] = got[q]
    /\ Notifies(s, q)

\* r takes q, which is blocked sending to it, out of its send with the code rc,
\* having copied its message k times.
Taken(q, r, rc, k) ==
    /\ "SENDING" \in proc[q].rts /\ proc[q].sendto = r
    /\ proc'[q].rts = proc[q].rts \ {"SENDING"} /\ proc'[q].getfrom = proc[q].getfrom
    /\ proc'[q].rcode = IF proc'[q].rts = {} THEN rc ELSE proc[q].rcode
    /\ SameThread(q) /\ SameBits(q) /\ got'[q] = got[q] /\ copied'[q] = copied[q] + k
    /\ k = 1 => got'[r] = Append(got[r], q)
    /\ \/ rc = "OK" /\ k = 1
       \/ rc = "FAULT" /\ k = 0
       \/ rc \in {"OK", "GARBAGE"} /\ "sendrec" \in DvkAllowed[r] /\ q \in IpcTo[r]
    /\ k = 0 => MayFault

\* q calls op, for the peer d.
Enters(q, op, d) ==
    /\ pc[q] = "user" /\ op \in DvkAllowed[q]
    /\ call'[q].op = op /\ call'[q].peer = d
CopiesTo(q, d, k) ==
    copied'[q] = copied[q] + k /\ (k = 1 => d \in Procs /\ got'[d] = Append(got[d], q))

\* The call ends at once.
Ends(q, op, d, rc, k) ==
    /\ Enters(q, op, d) /\ CopiesTo(q, d, k) /\ got'[q] = got[q]
    /\ pc'[q] = "done" /\ proc'[q].rts = {} /\ ret'[q] = rc
    /\ rc = "OK" /\ op \in {"send", "reply"} => k = 1
    /\ rc \in {"EAGAIN", "PROCSTS", "FAULT"} /\ op \in {"send", "reply"} => k = 0
    /\ op \in {"receive", "rcvrqst"} => rc = "WOKENUP"
    /\ op = "sendrec" => rc # "OK"
    /\ op = "rcvrqst" => d = ANY
    /\ op = "receive" => d \in Sources[q]

\* It is a sendrec that takes a message of d for the reply.
EndsCrossed(q, d, k) ==
    /\ Enters(q, "sendrec", d) /\ copied'[q] = copied[q]
    /\ got'[q] = IF k = 1 THEN Append(got[q], d) ELSE got[q]
    /\ pc'[q] = "done" /\ proc'[q].rts = {}
    /\ d \in IpcTo[q] /\ "SENDING" \in proc[d].rts /\ proc[d].sendto = q

\* It puts q to sleep with these flags.
Stops(q, op, d, flags, k) ==
    /\ Enters(q, op, d) /\ CopiesTo(q, d, k) /\ got'[q] = got[q]
    /\ pc'[q] = "sleep" /\ proc'[q].rts = flags /\ proc'[q].rcode = "OK"
    /\ d \in IpcTo[q]
    /\ "SENDING" \in flags => proc'[q].sendto = d /\ k = 0
    /\ "RECEIVING" \in flags => proc'[q].getfrom = d
    /\ \/ op = "send" /\ flags = {"SENDING"}
       \/ op = "sendrec" /\ flags = RtsFlags
       \/ op = "sendrec" /\ flags = {"RECEIVING"} /\ k = 1

\* It begins to look for a message, ...
Begins(q, op, s) ==
    /\ Enters(q, op, s) /\ SameHistory(q) /\ SameFlow(q) /\ SameBits(q)
    /\ \/ op = "receive" /\ s \in Sources[q] /\ pc'[q] = "notify"
       \/ op = "rcvrqst" /\ s = ANY /\ pc'[q] = "scan" /\ "WOKENUP" \notin proc[q].misc

SameCall(q) == call'[q].op = call[q].op /\ call'[q].peer = call[q].peer

\* ... goes on looking, ...
Looks(q) ==
    /\ pc[q] \in Receiving /\ pc'[q] \in Receiving
    /\ SameCall(q) /\ SameHistory(q) /\ SameFlow(q) /\ SameBits(q)
    /\ pc'[q] \in {"notify", "store", "lock"} => pc[q] \in {"notify", "store", "lock"}
    /\ pc'[q] = "scan" => pc[q] = "lock" \/ call[q].peer # ANY

\* ... takes a pending notification or the message of a sender, finds that
\* there is none to be had, ...
Fetches(q) ==
    /\ pc[q] = "store" /\ chunk[q] # {} /\ SameCall(q) /\ SameFlow(q)
    /\ copied'[q] = copied[q] /\ \E s \in Messages : got'[q] = Append(got[q], s)
    /\ pc'[q] = "done" /\ ret'[q] = "OK"
Takes(q, x) ==
    /\ pc[q] \in {"scan", "window"} /\ SameCall(q) /\ SameFlow(q)
    /\ copied'[q] = copied[q] /\ call[q].peer \in {ANY, x} /\ got'[q] = Append(got[q], x)
    /\ pc'[q] = "done" /\ ret'[q] = "OK"
FindsNone(q) ==
    /\ pc[q] \in {"scan", "window"} /\ SameCall(q) /\ SameHistory(q)
    /\ proc'[q].rts = {} /\ pc'[q] = "done" /\ ret'[q] \in {"EAGAIN", "PROCSTS", "FAULT"}

\* ... or waits for one.
Awaits(q) ==
    /\ pc[q] = "scan" /\ pc'[q] = "sleep" /\ SameCall(q) /\ SameHistory(q)
    /\ proc'[q].rts = {"RECEIVING"} /\ proc'[q].getfrom = call[q].peer
    /\ proc'[q].rcode = "OK" /\ "NOTIFY" \notin proc'[q].misc /\ SameBit(q, "WOKENUP")

\* The sleep of q gives up, it ends, and the call returns.
GivesUp(q) ==
    /\ pc[q] = "sleep" /\ pc'[q] \in {"expired", "signaled"}
    /\ call'[q] = call[q] /\ SameHistory(q) /\ SameFlow(q) /\ SameBits(q)
EndsSleep(q) ==
    /\ pc[q] \in Sleeping /\ pc'[q] = "done" /\ call'[q] = call[q]
    /\ ret'[q] = SleepResult(q) /\ (ret'[q] = "OK" => proc[q].rts = {})
    /\ proc'[q].rts = {} /\ copied'[q] = copied[q]
    /\ got'[q] = IF call[q].op = "receive" /\ ret'[q] = "OK" /\ "NOTIFY" \in proc[q].misc
                 THEN Append(got[q], proc[q].message) ELSE got[q]
Returns(q) ==
    /\ pc'[q] = "user" /\ call'[q] = NoCall /\ copied'[q] = 0 /\ got'[q] = <<>>
    /\ proc'[q].rts = {}

Shaped(q) ==
    \/ Still(q) \/ Marked(q) \/ Interrupts(q)
    \/ \E s \in Messages : Filled(q, s) \/ Failed(q, s) \/ Alerted(q, s)
    \/ \E r \in Procs, rc \in Rcodes, k \in {0, 1} : Taken(q, r, rc, k)
    \/ \E op \in Calls, d \in Procs \cup {ANY}, rc \in Rcodes, k \in {0, 1} : Ends(q, op, d, rc, k)
    \/ \E d \in Procs, k \in {0, 1} : EndsCrossed(q, d, k)
    \/ \E op \in Calls, d \in Procs, flags \in SUBSET RtsFlags, k \in {0, 1} :
          Stops(q, op, d, flags, k)
    \/ \E op \in Calls, s \in Procs \cup {ANY} : Begins(q, op, s)
    \/ Looks(q) \/ Fetches(q) \/ FindsNone(q) \/ Awaits(q)
    \/ \E x \in Procs : Takes(q, x)
    \/ GivesUp(q) \/ EndsSleep(q) \/ Returns(q)

\* A notification pends only for those who may be notified.
Pends(q) ==
    proc'[q].pending \cup chunk'[q] # {} =>
        proc[q].pending \cup chunk[q] # {} \/ Notifiable(q)

AllSeen == \A q \in Procs : Shaped(q) /\ Pends(q)

-----------------------------------------------------------------------------
(* The invariants, each for one process *)

Carries(q) ==
    /\ copied[q] <= 1 /\ Len(got[q]) <= 1
    /\ pc[q] = "user" => copied[q] = 0 /\ got[q] = <<>>
    /\ "SENDING" \in proc[q].rts => copied[q] = 0 /\ proc[q].sendto = call[q].peer
    /\ "RECEIVING" \in proc[q].rts \/ pc[q] \in Receiving => got[q] = <<>>
    /\ call[q].op = "receive" /\ pc[q] \in Sleeping /\ "NOTIFY" \in proc[q].misc =>
          "RECEIVING" \notin proc[q].rts /\ got[q] = <<>>

Heeds(q) == call[q].op = "rcvrqst" =>
    /\ call[q].peer = ANY
    /\ pc[q] \notin {"notify", "store", "lock"}
    /\ "RECEIVING" \in proc[q].rts => proc[q].getfrom = ANY
    /\ "RECEIVING" \in proc[q].rts \/ pc[q] = "scan" => "WOKENUP" \notin proc[q].misc

Entitled(q) ==
    /\ pc[q] # "user" => call[q].op \in DvkAllowed[q]
    /\ call[q].op = "receive" => call[q].peer \in Sources[q]
    /\ call[q].op = "rcvrqst" => call[q].peer = ANY
    /\ call[q].op \in {"send", "sendrec"} /\ pc[q] \in Sleeping => call[q].peer \in IpcTo[q]
    /\ proc[q].pending \cup chunk[q] # {} => Notifiable(q)

SendKept(q) ==
    /\ call[q].op = "reply" => pc[q] \notin Sleeping
    /\ call[q].op = "send" /\ pc[q] \in Sleeping =>
          \/ proc[q].rts # {} /\ proc[q].rcode = "OK"
          \/ proc[q].rts = {} /\ proc[q].rcode = "OK" /\ copied[q] = 1
          \/ proc[q].rts = {} /\ proc[q].rcode = "FAULT" /\ copied[q] = 0
          \/ proc[q].rts = {} /\ proc[q].rcode = "GARBAGE"
    /\ call[q].op \in {"send", "reply"} /\ pc[q] = "done" =>
          /\ ret[q] = "OK" => copied[q] = 1
          /\ ret[q] \in {"EAGAIN", "PROCSTS", "FAULT"} => copied[q] = 0

Brought(q) ==
    IF call[q].op = "receive" /\ "NOTIFY" \in proc[q].misc
    THEN got[q] = <<>> /\ call[q].peer = ANY
    ELSE Len(got[q]) = 1 /\ call[q].peer \in {ANY, got[q][1]}

ReceiveKept(q) == call[q].op \in {"receive", "rcvrqst"} =>
    /\ pc[q] \in Sleeping /\ proc[q].rts # {} =>
          proc[q].rcode = "OK" /\ proc[q].getfrom = call[q].peer /\ "NOTIFY" \notin proc[q].misc
    /\ pc[q] \in Sleeping /\ proc[q].rts = {} =>
          IF proc[q].rcode = "OK" THEN Brought(q) ELSE got[q] = <<>>
    /\ pc[q] = "done" =>
          /\ ret[q] = "OK" => Len(got[q]) = 1 /\ call[q].peer \in {ANY, got[q][1]}
          /\ ret[q] \in {"EAGAIN", "PROCSTS", "FAULT", "WOKENUP"} => got[q] = <<>>

SendrecKept(q) == call[q].op = "sendrec" =>
    /\ pc[q] \in Sleeping =>
          /\ "SENDING" \in proc[q].rts => proc[q].rts = RtsFlags
          /\ proc[q].rts # {} => proc[q].getfrom = call[q].peer /\ got[q] = <<>>
          /\ proc[q].rts = {"RECEIVING"} => copied[q] = 1
          /\ proc[q].rts = {} /\ proc[q].rcode = "OK" =>
                copied[q] = 1 /\ got[q] = <<call[q].peer>>
    /\ pc[q] = "done" /\ ret[q] = "OK" => copied[q] = 1 /\ got[q] = <<call[q].peer>>
    /\ got[q] # <<>> => copied[q] = 1

\* No two processes send to each other while one of them expects a reply.
NoCrossing ==
    \A p, d \in Procs : "sendrec" \in DvkAllowed[p] /\ d \in IpcTo[p] /\ p \in IpcTo[d] =>
        DvkAllowed[d] \cap {"send", "sendrec"} = {}

NoticesFit ==
    \A p \in Procs : Notifiable(p) =>
        Sources[p] \subseteq {ANY} /\ "rcvrqst" \notin DvkAllowed[p]

NoImpostors ==
    \A p, d \in Procs : "sendrec" \in DvkAllowed[p] /\ d \in IpcTo[p] => ~Notifies(d, p)

-----------------------------------------------------------------------------
(* What the operations on a descriptor do to the other fields. *)

LEMMA EndSendFields ==
    ASSUME NEW d \in Descriptors
    PROVE  /\ EndSend(d).misc = d.misc /\ EndSend(d).getfrom = d.getfrom
           /\ EndSend(d).rcode = d.rcode /\ EndSend(d).pending = d.pending
           /\ EndSend(d).sendto = NONE
BY DEF EndSend, Descriptors

LEMMA EndReceiveFields ==
    ASSUME NEW d \in Descriptors
    PROVE  /\ EndReceive(d).misc = d.misc /\ EndReceive(d).sendto = d.sendto
           /\ EndReceive(d).rcode = d.rcode /\ EndReceive(d).pending = d.pending
BY DEF EndReceive, Descriptors

LEMMA MiscFields ==
    ASSUME NEW d \in Descriptors, NEW bit \in MiscFlags
    PROVE  /\ Clear(d, bit).misc = d.misc \ {bit} /\ Mark(d, bit).misc = d.misc \cup {bit}
           /\ Clear(d, bit).getfrom = d.getfrom /\ Mark(d, bit).getfrom = d.getfrom
           /\ Clear(d, bit).sendto = d.sendto /\ Mark(d, bit).sendto = d.sendto
           /\ Clear(d, bit).rcode = d.rcode /\ Mark(d, bit).rcode = d.rcode
           /\ Clear(d, bit).pending = d.pending /\ Mark(d, bit).pending = d.pending
BY DEF Clear, Mark, Descriptors

LEMMA WakeFields ==
    ASSUME NEW d \in Descriptors, NEW rc \in Rcodes
    PROVE  /\ Wake(d, rc).rts = d.rts /\ Wake(d, rc).misc = d.misc
           /\ Wake(d, rc).getfrom = d.getfrom /\ Wake(d, rc).sendto = d.sendto
           /\ Wake(d, rc).rcode = IF d.rts = {} THEN rc ELSE d.rcode
           /\ Wake(d, rc).pending = d.pending
BY DEF Wake, Descriptors

\* A peer taken out of its receive, and one taken out of its send.
LEMMA ReceiverFields ==
    ASSUME NEW d \in Descriptors, NEW rc \in Rcodes
    PROVE  LET B == Wake(EndReceive(d), rc)
           IN  /\ B.rts = d.rts \ {"RECEIVING"} /\ B.misc = d.misc
               /\ B.sendto = d.sendto /\ B.pending = d.pending
               /\ B.rcode = IF B.rts = {} THEN rc ELSE d.rcode
<1>1. EndReceive(d) \in Descriptors /\ EndReceive(d).rts = d.rts \ {"RECEIVING"}
  BY EndReceiveFacts
<1>2. QED
  BY <1>1, EndReceiveFields, WakeFields

LEMMA SenderFields ==
    ASSUME NEW d \in Descriptors, NEW rc \in Rcodes
    PROVE  LET B == Wake(EndSend(d), rc)
           IN  /\ B.rts = d.rts \ {"SENDING"} /\ B.misc = d.misc
               /\ B.getfrom = d.getfrom /\ B.pending = d.pending
               /\ B.rcode = IF B.rts = {} THEN rc ELSE d.rcode
<1>1. EndSend(d) \in Descriptors /\ EndSend(d).rts = d.rts \ {"SENDING"}
  BY EndSendFacts
<1>2. QED
  BY <1>1, EndSendFields, WakeFields

-----------------------------------------------------------------------------
(* What every step looks like to every process. *)

LEMMA OthersStill ==
    ASSUME NEW q, proc'[q] = proc[q], pc'[q] = pc[q], call'[q] = call[q], ret'[q] = ret[q],
           chunk'[q] = chunk[q], copied'[q] = copied[q], got'[q] = got[q]
    PROVE  Still(q) /\ Pends(q)
BY DEF Still, Pends, SameThread, SameHistory, SameBits, SameBit, SameFlow

LEMMA SendDeliverSeen ==
    ASSUME ProcsFit, RestTyped, NEW p \in Procs, NEW d \in Procs, SendDeliver(p, d)
    PROVE  AllSeen
<1> DEFINE X == Clear(proc[d], "ATOMIC")
           B == Wake(EndReceive(X), "OK")
           R == [proc[p] EXCEPT !.rcode = "OK"]
           A == IF "ATOMIC" \in proc[d].misc THEN Clear(R, "NOMIGRATE") ELSE R
<1>1. /\ p # d /\ d \in IpcTo[p] /\ proc[p] \in Descriptors /\ proc[d] \in Descriptors
      /\ proc[p].rts = {} /\ pc[p] = "user" /\ "send" \in DvkAllowed[p]
      /\ Waits(proc[d], p)
  BY PeerDiffers, RunningFits DEF SendDeliver, EnterTo, Enter, Sleeping, ProcsFit
<1>2. /\ call' = [call EXCEPT ![p] = [op |-> "send", peer |-> d, timeout |-> "none", both |-> FALSE]]
      /\ UNCHANGED chunk
  BY DEF SendDeliver, Calling, local
<1>3. R \in Descriptors /\ R.rts = {} /\ R.pending = proc[p].pending
  BY <1>1 DEF Descriptors, Rcodes
<1>4. A.rts = {} /\ A.pending = proc[p].pending
  <2> HIDE DEF R
  <2>1. QED
    BY <1>3, MiscFacts, MiscFields DEF MiscFlags
<1>5. X \in Descriptors /\ X.rts = proc[d].rts /\ X.misc = proc[d].misc \ {"ATOMIC"}
      /\ X.pending = proc[d].pending
  BY <1>1, MiscFacts, MiscFields DEF MiscFlags
<1>6. /\ B.rts = {} /\ B.rcode = "OK" /\ B.misc = proc[d].misc \ {"ATOMIC"}
      /\ B.pending = proc[d].pending
  <2> HIDE DEF X
  <2>1. B.rts = proc[d].rts \ {"RECEIVING"}
    BY <1>5, ReceiverFields DEF Rcodes
  <2>2. B.rts = {}
    BY <1>1, <2>1 DEF Waits, Descriptors, RtsFlags
  <2>3. QED
    BY <1>5, <2>2, ReceiverFields DEF Rcodes
<1> HIDE DEF A, B, R, X
<1>7. CASE Finish(p, "FAULT") /\ proc' = [proc EXCEPT ![p] = R] /\ UNCHANGED hist
  <2>1. ASSUME NEW q \in Procs, q # p PROVE Still(q) /\ Pends(q)
    BY <1>2, <1>7, <2>1, OthersStill DEF Finish, Goto, hist, ProcsFit, RestTyped
  <2>2. Ends(p, "send", d, "FAULT", 0) /\ Pends(p)
    BY <1>1, <1>2, <1>3, <1>7 DEF Ends, Enters, CopiesTo, Pends, Finish, Goto, hist, ProcsFit, RestTyped
  <2>3. QED
    BY <2>1, <2>2 DEF AllSeen, Shaped, Calls, Rcodes
<1>8. CASE Finish(p, "OK") /\ proc' = [proc EXCEPT ![p] = A, ![d] = B] /\ Copy(p, d)
  <2>1. ASSUME NEW q \in Procs, q # p, q # d PROVE Still(q) /\ Pends(q)
    BY <1>2, <1>8, <2>1, OthersStill DEF Finish, Goto, Copy, ProcsFit, RestTyped
  <2>2. Ends(p, "send", d, "OK", 1) /\ Pends(p)
    BY <1>1, <1>2, <1>4, <1>8 DEF Ends, Enters, CopiesTo, Pends, Finish, Goto, Copy, ProcsFit, RestTyped
  <2>3. Filled(d, p) /\ Pends(d)
    BY <1>1, <1>2, <1>6, <1>8 DEF Filled, Received, Waits, Pends, SameThread, SameBit, Finish, Goto, Copy, ProcsFit, RestTyped
  <2>4. QED
    BY <2>1, <2>2, <2>3 DEF AllSeen, Shaped, Calls, Rcodes, Messages
<1>9. QED
  BY <1>1, <1>7, <1>8 DEF SendDeliver, A, B, R, X

LEMMA SendBlockSeen ==
    ASSUME ProcsFit, RestTyped, NEW p \in Procs, NEW d \in Procs, SendBlock(p, d)
    PROVE  AllSeen
<1> DEFINE S == [Set(proc[p], "SENDING") EXCEPT !.sendto = d]
<1>1. /\ d \in IpcTo[p] /\ pc[p] = "user" /\ "send" \in DvkAllowed[p]
      /\ proc[p] \in Descriptors /\ proc[p].rts = {}
  BY RunningFits DEF SendBlock, EnterTo, Enter, Sleeping
<1>2. PICK t : call' = [call EXCEPT ![p] = [op |-> "send", peer |-> d, timeout |-> t, both |-> TRUE]]
  BY DEF SendBlock, Calling
<1>3. S \in Descriptors /\ S.rts = {"SENDING"} /\ S.sendto = d /\ S.pending = proc[p].pending
  BY <1>1 DEF Set, Descriptors, RtsFlags
<1>4. /\ Down(S).rts = {"SENDING"} /\ Down(S).sendto = d /\ Down(S).rcode = "OK"
      /\ Down(S).pending = proc[p].pending
  <2> HIDE DEF S
  <2>1. QED
    BY <1>3 DEF Down, Descriptors
<1>5. /\ proc' = [proc EXCEPT ![p] = Down(S)] /\ pc' = [pc EXCEPT ![p] = "sleep"]
      /\ UNCHANGED <<chunk, ret, copied, got>>
  BY DEF SendBlock, Goto, local, hist
<1> HIDE DEF S
<1>6. ASSUME NEW q \in Procs, q # p PROVE Still(q) /\ Pends(q)
  BY <1>2, <1>5, <1>6, OthersStill DEF ProcsFit, RestTyped
<1>7. Stops(p, "send", d, {"SENDING"}, 0) /\ Pends(p)
  BY <1>1, <1>2, <1>4, <1>5 DEF Stops, Enters, CopiesTo, Pends, ProcsFit, RestTyped
<1>8. QED
  BY <1>6, <1>7 DEF AllSeen, Shaped, Calls, RtsFlags

LEMMA SendAgainSeen ==
    ASSUME ProcsFit, RestTyped, NEW p \in Procs, NEW d \in Procs, SendAgain(p, d)
    PROVE  AllSeen
<1> DEFINE R == [proc[p] EXCEPT !.rcode = "EAGAIN"]
<1>1. /\ pc[p] = "user" /\ "send" \in DvkAllowed[p]
      /\ proc[p] \in Descriptors /\ proc[p].rts = {}
  BY RunningFits DEF SendAgain, EnterTo, Enter, Sleeping
<1>2. R \in Descriptors /\ R.rts = {} /\ R.pending = proc[p].pending
  BY <1>1 DEF Descriptors, Rcodes
<1>3. EndSend(R).rts = {} /\ EndSend(R).pending = proc[p].pending
  BY <1>2, EndSendFacts, EndSendFields
<1>4. /\ proc' = [proc EXCEPT ![p] = EndSend(R)] /\ Calling(p, "send", d, "none", FALSE)
      /\ Finish(p, "EAGAIN") /\ UNCHANGED <<chunk, copied, got>>
  BY DEF SendAgain, local, hist
<1> HIDE DEF R
<1>5. ASSUME NEW q \in Procs, q # p PROVE Still(q) /\ Pends(q)
  BY <1>4, <1>5, OthersStill DEF Calling, Finish, Goto, ProcsFit, RestTyped
<1>6. Ends(p, "send", d, "EAGAIN", 0) /\ Pends(p)
  BY <1>1, <1>3, <1>4
     DEF Calling, Ends, Enters, CopiesTo, Pends, Finish, Goto, ProcsFit, RestTyped
<1>7. QED
  BY <1>5, <1>6 DEF AllSeen, Shaped, Calls, Rcodes

\* A call that slept ends, with A for its descriptor.
LEMMA SleepEnds ==
    ASSUME ProcsFit, RestTyped, NEW p \in Procs, NEW A, A.rts = {},
           A.pending = proc[p].pending,
           NEW op, Leaves(p, op), SleepResult(p) = "OK" => proc[p].rts = {},
           proc' = [proc EXCEPT ![p] = A], Finish(p, SleepResult(p)),
           UNCHANGED <<call, chunk, copied>>,
           got' = IF op = "receive" /\ SleepResult(p) = "OK" /\ "NOTIFY" \in proc[p].misc
                  THEN [got EXCEPT ![p] = Append(@, proc[p].message)] ELSE got
    PROVE  AllSeen
<1>1. ASSUME NEW q \in Procs, q # p PROVE Still(q) /\ Pends(q)
  BY <1>1, OthersStill DEF Finish, Goto, ProcsFit, RestTyped
<1>2. EndsSleep(p) /\ Pends(p)
  BY DEF EndsSleep, Pends, Leaves, Sleeping, Finish, Goto, ProcsFit, RestTyped
<1>3. QED
  BY <1>1, <1>2 DEF AllSeen, Shaped

LEMMA UpFields ==
    ASSUME NEW d \in Descriptors, NEW rc \in Rcodes
    PROVE  Up(d, rc).pending = d.pending
BY DEF Up, Descriptors

LEMMA SendDoneSeen ==
    ASSUME ProcsFit, RestTyped, NEW p \in Procs, SendDone(p)
    PROVE  AllSeen
<1> DEFINE rc == SleepResult(p)
           D == Up(proc[p], rc)
           A == IF rc # "OK" THEN EndSend(D) ELSE D
<1>1. /\ proc[p] \in Descriptors /\ call[p].op = "send"
      /\ rc = "OK" => proc[p].rts = {}
      /\ proc[p].rts \ {"SENDING"} = {}
  BY LeavesFits DEF SendDone, RtsFlags
<1>2. D \in Descriptors /\ D.rts = proc[p].rts /\ D.pending = proc[p].pending
  BY <1>1, UpFacts, UpFields, SleepResultFacts
<1>3. A.rts = {} /\ A.pending = proc[p].pending
  BY <1>1, <1>2, EndSendFacts, EndSendFields
<1>4. proc' = [proc EXCEPT ![p] = A] /\ Finish(p, rc) /\ UNCHANGED <<call, chunk, copied, got>>
  BY DEF SendDone, local, hist
<1>5. Leaves(p, "send")
  BY DEF SendDone
<1> HIDE DEF A, rc
<1>6. QED
  BY <1>1, <1>3, <1>4, <1>5, SleepEnds DEF rc

LEMMA ReceiveStartSeen ==
    ASSUME ProcsFit, RestTyped, NEW p \in Procs, NEW s \in Procs \cup {ANY}, ReceiveStart(p, s)
    PROVE  AllSeen
<1>1. /\ pc[p] = "user" /\ "receive" \in DvkAllowed[p] /\ s \in Sources[p]
      /\ proc[p] \in Descriptors /\ proc[p].rts = {}
  BY RunningFits DEF ReceiveStart, Enter, Sleeping
<1>2. CASE proc' = [proc EXCEPT ![p] = Clear(@, "WOKENUP")] /\ Finish(p, "WOKENUP")
  <2>1. Clear(proc[p], "WOKENUP").rts = {} /\ Clear(proc[p], "WOKENUP").pending = proc[p].pending
    BY <1>1, MiscFacts, MiscFields DEF MiscFlags
  <2>2. ASSUME NEW q \in Procs, q # p PROVE Still(q) /\ Pends(q)
    BY <1>2, <2>2, OthersStill
       DEF ReceiveStart, Calling, Finish, Goto, local, hist, ProcsFit, RestTyped
  <2>3. Ends(p, "receive", s, "WOKENUP", 0) /\ Pends(p)
    BY <1>1, <1>2, <2>1
       DEF ReceiveStart, Calling, Ends, Enters, CopiesTo, Pends, Finish, Goto, local, hist,
           ProcsFit, RestTyped
  <2>4. QED
    BY <2>2, <2>3 DEF AllSeen, Shaped, Calls, Rcodes
<1>3. CASE UNCHANGED <<proc, ret>> /\ Goto(p, "notify")
  <2>1. ASSUME NEW q \in Procs, q # p PROVE Still(q) /\ Pends(q)
    BY <1>3, <2>1, OthersStill DEF ReceiveStart, Calling, Goto, local, hist, ProcsFit, RestTyped
  <2>2. Begins(p, "receive", s) /\ Pends(p)
    BY <1>1, <1>3
       DEF ReceiveStart, Calling, Begins, Enters, SameHistory, SameFlow, SameBits, SameBit,
           Pends, Goto, local, hist, ProcsFit, RestTyped
  <2>3. QED
    BY <2>1, <2>2 DEF AllSeen, Shaped, Calls
<1>4. QED
  BY <1>2, <1>3 DEF ReceiveStart

LEMMA RcvrqstStartSeen ==
    ASSUME ProcsFit, RestTyped, NEW p \in Procs, RcvrqstStart(p)
    PROVE  AllSeen
<1>1. /\ pc[p] = "user" /\ "rcvrqst" \in DvkAllowed[p]
      /\ proc[p] \in Descriptors /\ proc[p].rts = {}
  BY RunningFits DEF RcvrqstStart, Enter, Sleeping
<1>2. CASE proc' = [proc EXCEPT ![p] = Clear(@, "WOKENUP")] /\ Finish(p, "WOKENUP")
  <2>1. Clear(proc[p], "WOKENUP").rts = {} /\ Clear(proc[p], "WOKENUP").pending = proc[p].pending
    BY <1>1, MiscFacts, MiscFields DEF MiscFlags
  <2>2. ASSUME NEW q \in Procs, q # p PROVE Still(q) /\ Pends(q)
    BY <1>2, <2>2, OthersStill
       DEF RcvrqstStart, Calling, Finish, Goto, hist, ProcsFit, RestTyped
  <2>3. Ends(p, "rcvrqst", ANY, "WOKENUP", 0) /\ Pends(p)
    BY <1>1, <1>2, <2>1
       DEF RcvrqstStart, Calling, Ends, Enters, CopiesTo, Pends, Finish, Goto, hist,
           ProcsFit, RestTyped
  <2>4. QED
    BY <2>2, <2>3 DEF AllSeen, Shaped, Calls, Rcodes
<1>3. CASE "WOKENUP" \notin proc[p].misc /\ UNCHANGED <<proc, ret>> /\ Goto(p, "scan")
  <2>1. ASSUME NEW q \in Procs, q # p PROVE Still(q) /\ Pends(q)
    BY <1>3, <2>1, OthersStill DEF RcvrqstStart, Calling, Goto, hist, ProcsFit, RestTyped
  <2>2. Begins(p, "rcvrqst", ANY) /\ Pends(p)
    BY <1>1, <1>3
       DEF RcvrqstStart, Calling, Begins, Enters, SameHistory, SameFlow, SameBits, SameBit,
           Pends, Goto, hist, ProcsFit, RestTyped
  <2>3. QED
    BY <2>1, <2>2 DEF AllSeen, Shaped, Calls
<1>4. QED
  BY <1>2, <1>3 DEF RcvrqstStart, StartScan

\* A receiver moves on without touching a descriptor.
LEMMA LooksSeen ==
    ASSUME ProcsFit, RestTyped, NEW p \in Procs,
           \/ NotifyNone(p) \/ NotifyLoad(p) \/ ReceiveLock(p)
           \/ ScanInvert(p) \/ ScanSkip(p) \/ ScanWild(p)
    PROVE  AllSeen
<1>1. PICK l \in Receiving :
         /\ pc' = [pc EXCEPT ![p] = l] /\ pc[p] \in Receiving
         /\ l \in {"notify", "store", "lock"} => pc[p] \in {"notify", "store", "lock"}
         /\ l = "scan" => pc[p] = "lock" \/ call[p].peer # ANY
  BY DEF NotifyNone, NotifyLoad, ReceiveLock, StartScan, ScanInvert, ScanSkip, ScanWild,
         Visits, Goto, Receiving
<1>2. UNCHANGED <<proc, call, ret, copied, got>>
  BY DEF NotifyNone, NotifyLoad, ReceiveLock, StartScan, ScanInvert, ScanSkip, ScanWild,
         local, hist
<1>3. chunk' = chunk \/ chunk' = [chunk EXCEPT ![p] = proc[p].pending]
  BY DEF NotifyNone, NotifyLoad, ReceiveLock, StartScan, ScanInvert, ScanSkip, ScanWild, local
<1>4. ASSUME NEW q \in Procs, q # p PROVE Still(q) /\ Pends(q)
  BY <1>1, <1>2, <1>3, <1>4, OthersStill DEF ProcsFit, RestTyped
<1>5. Looks(p) /\ Pends(p)
  BY <1>1, <1>2, <1>3
     DEF Looks, Pends, SameCall, SameHistory, SameFlow, SameBits, SameBit, ProcsFit, RestTyped
<1>6. QED
  BY <1>4, <1>5 DEF AllSeen, Shaped

LEMMA NotifyStoreSeen ==
    ASSUME ProcsFit, RestTyped, NEW p \in Procs, NotifyStore(p)
    PROVE  AllSeen
<1>1. proc[p] \in Descriptors /\ pc[p] = "store"
  BY DEF NotifyStore, ProcsFit
<1>2. PICK i \in chunk[p] :
         /\ proc' = [proc EXCEPT ![p].pending = chunk[p] \ {i},
                                ![p].message = IF i = p THEN HARDWARE ELSE i]
         /\ got' = [got EXCEPT ![p] = Append(@, IF i = p THEN HARDWARE ELSE i)]
  BY DEF NotifyStore
<1> DEFINE m == IF i = p THEN HARDWARE ELSE i
           A == [proc[p] EXCEPT !.pending = chunk[p] \ {i}, !.message = m]
<1>3. m \in Messages
  BY DEF RestTyped, Messages
<1>4. proc' = [proc EXCEPT ![p] = A] /\ got' = [got EXCEPT ![p] = Append(@, m)]
  BY <1>2 DEF ProcsFit
<1>5. /\ A.rts = proc[p].rts /\ A.misc = proc[p].misc /\ A.getfrom = proc[p].getfrom
      /\ A.sendto = proc[p].sendto /\ A.rcode = proc[p].rcode
  BY <1>1 DEF Descriptors
<1> HIDE DEF A, m
<1>6. ASSUME NEW q \in Procs, q # p PROVE Still(q) /\ Pends(q)
  BY <1>4, <1>6, OthersStill DEF NotifyStore, Finish, Goto, ProcsFit, RestTyped
<1>7. Fetches(p) /\ Pends(p)
  BY <1>1, <1>2, <1>3, <1>4, <1>5
     DEF NotifyStore, Fetches, SameCall, SameFlow, Pends, Finish, Goto, ProcsFit, RestTyped
<1>8. QED
  BY <1>6, <1>7 DEF AllSeen, Shaped

LEMMA ScanRefuseSeen ==
    ASSUME ProcsFit, RestTyped, NEW p \in Procs, NEW x \in Procs, ScanRefuse(p, x)
    PROVE  AllSeen
<1>1. /\ pc[p] \in {"scan", "window"} /\ UNCHANGED <<proc, call, chunk, copied, got>>
      /\ Finish(p, "PROCSTS")
  BY DEF ScanRefuse, Visits, hist
<1>2. proc[p].rts = {}
  BY <1>1, RunningFits DEF Sleeping
<1>3. ASSUME NEW q \in Procs, q # p PROVE Still(q) /\ Pends(q)
  BY <1>1, <1>3, OthersStill DEF Finish, Goto, ProcsFit, RestTyped
<1>4. FindsNone(p) /\ Pends(p)
  BY <1>1, <1>2
     DEF FindsNone, SameCall, SameHistory, Pends, Finish, Goto, ProcsFit, RestTyped
<1>5. QED
  BY <1>3, <1>4 DEF AllSeen, Shaped

LEMMA ScanTakeSeen ==
    ASSUME ProcsFit, RestTyped, NEW p \in Procs, NEW x \in Procs, ScanTake(p, x)
    PROVE  AllSeen
<1> DEFINE A == IF call[p].op = "receive" /\ "ATOMIC" \in proc[x].misc
                THEN Mark(proc[p], "NOMIGRATE") ELSE proc[p]
<1>1. /\ pc[p] \in {"scan", "window"} /\ call[p].peer \in {ANY, x}
      /\ "SENDING" \in proc[x].rts /\ proc[x].sendto = p
      /\ UNCHANGED <<call, chunk>> /\ proc[p] \in Descriptors /\ proc[x] \in Descriptors
  BY DEF ScanTake, Visits, SendsTo, ProcsFit
<1>2. proc[p].rts = {} /\ p # x
  BY <1>1, RunningFits DEF Sleeping
<1>3. PICK rc \in {"OK", "FAULT"} :
         /\ rc = "FAULT" => TRUE \in Faults
         /\ IF rc = "OK" THEN Copy(x, p) ELSE UNCHANGED hist
         /\ proc' = [proc EXCEPT
                ![x] = Wake(EndSend(@), rc),
                ![p] = IF call[p].op = "receive" /\ "ATOMIC" \in proc[x].misc
                       THEN Mark(@, "NOMIGRATE") ELSE @]
         /\ Finish(p, rc)
  BY DEF ScanTake
<1> DEFINE B == Wake(EndSend(proc[x]), rc)
<1>4. proc' = [proc EXCEPT ![p] = A, ![x] = B]
  BY <1>2, <1>3 DEF ProcsFit
<1>5. /\ A.rts = proc[p].rts /\ A.getfrom = proc[p].getfrom /\ A.sendto = proc[p].sendto
      /\ A.rcode = proc[p].rcode /\ A.pending = proc[p].pending
  BY <1>1, MiscFacts, MiscFields DEF MiscFlags
<1>6. /\ B.rts = proc[x].rts \ {"SENDING"} /\ B.misc = proc[x].misc
      /\ B.getfrom = proc[x].getfrom /\ B.pending = proc[x].pending
      /\ B.rcode = IF B.rts = {} THEN rc ELSE proc[x].rcode
  BY <1>1, SenderFields DEF Rcodes
<1> HIDE DEF A, B
<1>7. ASSUME NEW q \in Procs, q # p, q # x PROVE Still(q) /\ Pends(q)
  <2>1. copied'[q] = copied[q] /\ got'[q] = got[q]
    BY <1>3, <1>7 DEF Copy, hist, RestTyped
  <2>2. QED
    BY <1>1, <1>3, <1>4, <1>7, <2>1, OthersStill DEF Finish, Goto, ProcsFit, RestTyped
<1>8. Shaped(p) /\ Pends(p)
  <2>1. Pends(p)
    BY <1>1, <1>2, <1>4, <1>5 DEF Pends, ProcsFit
  <2>2. CASE rc = "OK"
    <3>1. Takes(p, x)
      BY <1>1, <1>2, <1>3, <1>4, <1>5, <2>2
         DEF Takes, SameCall, SameFlow, Finish, Goto, Copy, ProcsFit, RestTyped
    <3>2. QED
      BY <2>1, <3>1 DEF Shaped
  <2>3. CASE rc = "FAULT"
    <3>1. FindsNone(p)
      BY <1>1, <1>2, <1>3, <1>4, <1>5, <2>3
         DEF FindsNone, SameCall, SameHistory, Finish, Goto, hist, ProcsFit, RestTyped
    <3>2. QED
      BY <2>1, <3>1 DEF Shaped
  <2>4. QED
    BY <2>2, <2>3
<1>9. Shaped(x) /\ Pends(x)
  <2>1. proc'[x] = B /\ SameThread(x) /\ chunk'[x] = chunk[x]
    BY <1>1, <1>2, <1>3, <1>4 DEF SameThread, Finish, Goto, ProcsFit, RestTyped
  <2>2. SameBits(x) /\ Pends(x)
    BY <1>6, <2>1 DEF SameBits, SameBit, Pends
  <2>3. CASE rc = "OK"
    <3>1. copied'[x] = copied[x] + 1 /\ got'[x] = got[x] /\ got'[p] = Append(got[p], x)
      BY <1>2, <1>3, <2>3 DEF Copy, RestTyped
    <3>2. Taken(x, p, "OK", 1)
      BY <1>1, <1>6, <2>1, <2>2, <2>3, <3>1 DEF Taken
    <3>3. QED
      BY <2>2, <3>2 DEF Shaped, Rcodes
  <2>4. CASE rc = "FAULT"
    <3>1. copied'[x] = copied[x] + 0 /\ got'[x] = got[x]
      BY <1>3, <2>4 DEF hist, RestTyped
    <3>2. MayFault
      BY <1>3, <2>4 DEF MayFault
    <3>3. Taken(x, p, "FAULT", 0)
      BY <1>1, <1>6, <2>1, <2>2, <2>4, <3>1, <3>2 DEF Taken
    <3>4. QED
      BY <2>2, <3>3 DEF Shaped, Rcodes
  <2>5. QED
    BY <2>3, <2>4
<1>10. QED
  <2>1. ASSUME NEW q \in Procs, q # p, q # x PROVE Shaped(q) /\ Pends(q)
    BY <1>7, <2>1 DEF Shaped
  <2>2. QED
    BY <1>8, <1>9, <2>1 DEF AllSeen

LEMMA ReceiveBlockSeen ==
    ASSUME ProcsFit, RestTyped, NEW p \in Procs, ReceiveBlock(p)
    PROVE  AllSeen
<1> DEFINE N == Clear(proc[p], "NOTIFY")
           S == [Set(N, "RECEIVING") EXCEPT !.getfrom = call[p].peer]
<1>1. /\ proc[p] \in Descriptors /\ proc[p].rts = {} /\ call[p] \in CallRecords
      /\ pc[p] = "scan"
  BY RunningFits DEF ReceiveBlock, AtEnd, Sleeping, ProcsFit
<1>2. PICK t : call' = [call EXCEPT ![p] =
                           [op |-> call[p].op, peer |-> call[p].peer, timeout |-> t, both |-> FALSE]]
  BY DEF ReceiveBlock, Calling
<1>3. /\ N \in Descriptors /\ N.rts = {} /\ N.misc = proc[p].misc \ {"NOTIFY"}
      /\ N.pending = proc[p].pending
  BY <1>1, MiscFacts, MiscFields DEF MiscFlags
<1>4. /\ S \in Descriptors /\ S.rts = {"RECEIVING"} /\ S.getfrom = call[p].peer
      /\ S.misc = proc[p].misc \ {"NOTIFY"} /\ S.pending = proc[p].pending
  <2>1. call[p].peer \in Procs \cup {ANY, NONE}
    BY <1>1 DEF CallRecords
  <2> HIDE DEF N
  <2>2. QED
    BY <1>3, <2>1 DEF Set, Descriptors, RtsFlags
<1>5. /\ Down(S).rts = {"RECEIVING"} /\ Down(S).getfrom = call[p].peer
      /\ Down(S).rcode = "OK" /\ Down(S).misc = proc[p].misc \ {"NOTIFY"}
      /\ Down(S).pending = proc[p].pending
  <2> HIDE DEF S
  <2>1. QED
    BY <1>4 DEF Down, Descriptors
<1>6. /\ proc' = [proc EXCEPT ![p] = Down(S)] /\ pc' = [pc EXCEPT ![p] = "sleep"]
      /\ UNCHANGED <<chunk, ret, copied, got>>
  BY DEF ReceiveBlock, Goto, hist
<1> HIDE DEF S
<1>7. ASSUME NEW q \in Procs, q # p PROVE Still(q) /\ Pends(q)
  BY <1>2, <1>6, <1>7, OthersStill DEF ProcsFit, RestTyped
<1>8. Awaits(p) /\ Pends(p)
  BY <1>1, <1>2, <1>5, <1>6
     DEF Awaits, SameCall, SameHistory, SameBit, Pends, ProcsFit, RestTyped
<1>9. QED
  BY <1>7, <1>8 DEF AllSeen, Shaped

LEMMA ReceiveAgainSeen ==
    ASSUME ProcsFit, RestTyped, NEW p \in Procs, ReceiveAgain(p)
    PROVE  AllSeen
<1> DEFINE N == Clear(proc[p], "NOTIFY")
           R == [N EXCEPT !.rcode = "EAGAIN"]
<1>1. proc[p] \in Descriptors /\ proc[p].rts = {} /\ pc[p] = "scan"
  BY RunningFits DEF ReceiveAgain, AtEnd, Sleeping, ProcsFit
<1>2. N \in Descriptors /\ N.rts = {} /\ N.pending = proc[p].pending
  BY <1>1, MiscFacts, MiscFields DEF MiscFlags
<1>3. R \in Descriptors /\ R.rts = {} /\ R.pending = proc[p].pending
  <2> HIDE DEF N
  <2>1. QED
    BY <1>2 DEF Descriptors, Rcodes
<1>4. EndReceive(R).rts = {} /\ EndReceive(R).pending = proc[p].pending
  <2> HIDE DEF R
  <2>1. QED
    BY <1>3, EndReceiveFacts, EndReceiveFields
<1>5. /\ proc' = [proc EXCEPT ![p] = EndReceive(R)] /\ Finish(p, "EAGAIN")
      /\ UNCHANGED <<call, chunk, copied, got>>
  BY DEF ReceiveAgain, hist
<1> HIDE DEF R
<1>6. ASSUME NEW q \in Procs, q # p PROVE Still(q) /\ Pends(q)
  BY <1>5, <1>6, OthersStill DEF Finish, Goto, ProcsFit, RestTyped
<1>7. FindsNone(p) /\ Pends(p)
  BY <1>1, <1>4, <1>5
     DEF FindsNone, SameCall, SameHistory, Pends, Finish, Goto, ProcsFit, RestTyped
<1>8. QED
  BY <1>6, <1>7 DEF AllSeen, Shaped

LEMMA ReceiveDoneSeen ==
    ASSUME ProcsFit, RestTyped, NEW p \in Procs, ReceiveDone(p)
    PROVE  AllSeen
<1> DEFINE rc == SleepResult(p)
           U == Up(proc[p], rc)
           D == Clear(U, "NOTIFY")
           A == IF rc = "OK" THEN D ELSE EndReceive(D)
<1>1. /\ proc[p] \in Descriptors
      /\ rc = "OK" => proc[p].rts = {}
      /\ proc[p].rts \ {"RECEIVING"} = {}
  BY LeavesFits DEF ReceiveDone, RtsFlags
<1>2. U \in Descriptors /\ U.rts = proc[p].rts /\ U.pending = proc[p].pending
  BY <1>1, UpFacts, UpFields, SleepResultFacts
<1>3. D \in Descriptors /\ D.rts = proc[p].rts /\ D.pending = proc[p].pending
  <2> HIDE DEF U
  <2>1. QED
    BY <1>2, MiscFacts, MiscFields DEF MiscFlags
<1>4. A.rts = {} /\ A.pending = proc[p].pending
  <2> HIDE DEF D
  <2>1. QED
    BY <1>1, <1>3, EndReceiveFacts, EndReceiveFields
<1>5. /\ proc' = [proc EXCEPT ![p] = A] /\ Finish(p, rc) /\ UNCHANGED <<call, chunk, copied>>
      /\ Leaves(p, "receive")
      /\ got' = IF rc = "OK" /\ "NOTIFY" \in proc[p].misc
                THEN [got EXCEPT ![p] = Append(@, proc[p].message)] ELSE got
  BY DEF ReceiveDone, local
<1> HIDE DEF A, rc
<1>6. QED
  BY <1>1, <1>4, <1>5, SleepEnds DEF rc

LEMMA RcvrqstDoneSeen ==
    ASSUME ProcsFit, RestTyped, NEW p \in Procs, RcvrqstDone(p)
    PROVE  AllSeen
<1> DEFINE rc == SleepResult(p)
           U == Up(proc[p], rc)
           A == EndReceive(U)
<1>1. /\ proc[p] \in Descriptors
      /\ rc = "OK" => proc[p].rts = {}
      /\ proc[p].rts \ {"RECEIVING"} = {}
  BY LeavesFits DEF RcvrqstDone, RtsFlags
<1>2. U \in Descriptors /\ U.rts = proc[p].rts /\ U.pending = proc[p].pending
  BY <1>1, UpFacts, UpFields, SleepResultFacts
<1>3. A.rts = {} /\ A.pending = proc[p].pending
  <2> HIDE DEF U
  <2>1. QED
    BY <1>1, <1>2, EndReceiveFacts, EndReceiveFields
<1>4. /\ proc' = [proc EXCEPT ![p] = A] /\ Finish(p, rc) /\ UNCHANGED <<call, chunk, copied, got>>
      /\ Leaves(p, "rcvrqst")
  BY DEF RcvrqstDone, local, hist
<1> HIDE DEF A, rc
<1>5. QED
  BY <1>1, <1>3, <1>4, SleepEnds DEF rc

LEMMA SendrecDoneSeen ==
    ASSUME ProcsFit, RestTyped, NEW p \in Procs, SendrecDone(p)
    PROVE  AllSeen
<1> DEFINE rc == SleepResult(p)
           U == Up(proc[p], rc)
           D == Clear(U, "ATOMIC")
           E == EndReceive(D)
           A == IF rc = "OK" THEN D ELSE EndSend(E)
<1>1. /\ proc[p] \in Descriptors
      /\ rc = "OK" => proc[p].rts = {}
      /\ proc[p].rts \subseteq RtsFlags
  BY LeavesFits DEF SendrecDone
<1>2. U \in Descriptors /\ U.rts = proc[p].rts /\ U.pending = proc[p].pending
  BY <1>1, UpFacts, UpFields, SleepResultFacts
<1>3. D \in Descriptors /\ D.rts = proc[p].rts /\ D.pending = proc[p].pending
  <2> HIDE DEF U
  <2>1. QED
    BY <1>2, MiscFacts, MiscFields DEF MiscFlags
<1>4. /\ E \in Descriptors /\ E.rts = proc[p].rts \ {"RECEIVING"}
      /\ E.pending = proc[p].pending
  <2> HIDE DEF D
  <2>1. QED
    BY <1>3, EndReceiveFacts, EndReceiveFields
<1>5. A.rts = {} /\ A.pending = proc[p].pending
  <2> HIDE DEF D, E
  <2>1. QED
    BY <1>1, <1>3, <1>4, EndSendFacts, EndSendFields DEF RtsFlags
<1>6. /\ proc' = [proc EXCEPT ![p] = A] /\ Finish(p, rc) /\ UNCHANGED <<call, chunk, copied, got>>
      /\ Leaves(p, "sendrec")
  BY DEF SendrecDone, local, hist
<1> HIDE DEF A, rc
<1>7. QED
  BY <1>1, <1>5, <1>6, SleepEnds DEF rc

LEMMA SendrecDeliverSeen ==
    ASSUME ProcsFit, RestTyped, NEW p \in Procs, NEW d \in Procs, SendrecDeliver(p, d)
    PROVE  AllSeen
<1> DEFINE X == Mark(proc[d], "NOMIGRATE")
           B == Wake(EndReceive(X), "OK")
           M == Mark(proc[p], "ATOMIC")
           S == [Set(M, "RECEIVING") EXCEPT !.getfrom = d]
           R == [proc[p] EXCEPT !.rcode = "EAGAIN"]
           N == Clear(R, "ATOMIC")
           A == EndSend(EndReceive(N))
           Ends1 == proc' = [proc EXCEPT ![p] = A, ![d] = B] /\ Finish(p, "EAGAIN")
           Stops1 == proc' = [proc EXCEPT ![p] = Down(S), ![d] = B] /\ Goto(p, "sleep")
                     /\ UNCHANGED ret
<1>1. /\ p # d /\ d \in IpcTo[p] /\ proc[p] \in Descriptors /\ proc[d] \in Descriptors
      /\ proc[p].rts = {} /\ pc[p] = "user" /\ "sendrec" \in DvkAllowed[p]
      /\ Waits(proc[d], p) /\ Copy(p, d) /\ UNCHANGED chunk
  BY PeerDiffers, RunningFits DEF SendrecDeliver, EnterTo, Enter, Sleeping, ProcsFit, local
<1>2. PICK t : call' = [call EXCEPT ![p] =
                           [op |-> "sendrec", peer |-> d, timeout |-> t, both |-> FALSE]]
  BY DEF SendrecDeliver, Calling
<1>3. /\ X \in Descriptors /\ X.rts = proc[d].rts /\ X.misc = proc[d].misc \cup {"NOMIGRATE"}
      /\ X.pending = proc[d].pending
  BY <1>1, MiscFacts, MiscFields DEF MiscFlags
<1>4. /\ B.rts = {} /\ B.rcode = "OK" /\ B.misc = proc[d].misc \cup {"NOMIGRATE"}
      /\ B.pending = proc[d].pending
  <2> HIDE DEF X
  <2>1. B.rts = proc[d].rts \ {"RECEIVING"}
    BY <1>3, ReceiverFields DEF Rcodes
  <2>2. B.rts = {}
    BY <1>1, <2>1 DEF Waits, Descriptors, RtsFlags
  <2>3. QED
    BY <1>3, <2>2, ReceiverFields DEF Rcodes
<1>5. M \in Descriptors /\ M.rts = {} /\ M.pending = proc[p].pending
  BY <1>1, MiscFacts, MiscFields DEF MiscFlags
<1>6. S \in Descriptors /\ S.rts = {"RECEIVING"} /\ S.getfrom = d /\ S.pending = proc[p].pending
  <2> HIDE DEF M
  <2>1. QED
    BY <1>5 DEF Set, Descriptors, RtsFlags
<1>7. /\ Down(S).rts = {"RECEIVING"} /\ Down(S).getfrom = d /\ Down(S).rcode = "OK"
      /\ Down(S).pending = proc[p].pending
  <2> HIDE DEF S
  <2>1. QED
    BY <1>6 DEF Down, Descriptors
<1>8. R \in Descriptors /\ R.rts = {} /\ R.pending = proc[p].pending
  BY <1>1 DEF Descriptors, Rcodes
<1>9. A.rts = {} /\ A.pending = proc[p].pending
  <2> HIDE DEF R
  <2>1. N \in Descriptors /\ N.rts = {} /\ N.pending = proc[p].pending
    BY <1>8, MiscFacts, MiscFields DEF MiscFlags
  <2> HIDE DEF N
  <2>2. /\ EndReceive(N) \in Descriptors /\ EndReceive(N).rts = {}
        /\ EndReceive(N).pending = proc[p].pending
    BY <2>1, EndReceiveFacts, EndReceiveFields
  <2>3. QED
    BY <2>2, EndSendFacts, EndSendFields
<1>10. Ends1 \/ Stops1
  BY <1>1 DEF SendrecDeliver
<1> HIDE DEF A, B, S
<1>11. ASSUME NEW q \in Procs, q # p, q # d PROVE Still(q) /\ Pends(q)
  BY <1>1, <1>2, <1>10, <1>11, OthersStill DEF Finish, Goto, Copy, ProcsFit, RestTyped
<1>12. Filled(d, p) /\ Pends(d)
  BY <1>1, <1>2, <1>4, <1>10
     DEF Filled, Received, Waits, Pends, SameThread, SameBit, Finish, Goto, Copy,
         ProcsFit, RestTyped
<1>13. Shaped(p) /\ Pends(p)
  <2>1. CASE Ends1
    <3>1. Ends(p, "sendrec", d, "EAGAIN", 1) /\ Pends(p)
      BY <1>1, <1>2, <1>9, <2>1
         DEF Ends, Enters, CopiesTo, Pends, Finish, Goto, Copy, ProcsFit, RestTyped
    <3>2. QED
      BY <3>1 DEF Shaped, Calls, Rcodes
  <2>2. CASE Stops1
    <3>1. Stops(p, "sendrec", d, {"RECEIVING"}, 1) /\ Pends(p)
      BY <1>1, <1>2, <1>7, <2>2
         DEF Stops, Enters, CopiesTo, Pends, Goto, Copy, ProcsFit, RestTyped
    <3>2. QED
      BY <3>1 DEF Shaped, Calls, RtsFlags
  <2>3. QED
    BY <1>10, <2>1, <2>2
<1>14. QED
  BY <1>11, <1>12, <1>13 DEF AllSeen, Shaped, Messages

LEMMA SendrecFaultSeen ==
    ASSUME ProcsFit, RestTyped, NEW p \in Procs, NEW d \in Procs, SendrecFault(p, d)
    PROVE  AllSeen
<1> DEFINE R == [proc[p] EXCEPT !.rcode = "OK"]
           N == Clear(R, "ATOMIC")
           A == EndSend(EndReceive(N))
           W == Wake(EndReceive(proc[d]), "FAULT")
           B == Clear(W, "NOMIGRATE")
<1>1. /\ p # d /\ d \in IpcTo[p] /\ proc[p] \in Descriptors /\ proc[d] \in Descriptors
      /\ proc[p].rts = {} /\ pc[p] = "user" /\ "sendrec" \in DvkAllowed[p]
      /\ Waits(proc[d], p) /\ UNCHANGED <<chunk, copied, got>>
      /\ Calling(p, "sendrec", d, "none", FALSE) /\ Finish(p, "FAULT")
  BY PeerDiffers, RunningFits DEF SendrecFault, EnterTo, Enter, Sleeping, ProcsFit, local, hist
<1>2. /\ W \in Descriptors /\ W.rts = {} /\ W.rcode = "FAULT" /\ W.misc = proc[d].misc
      /\ W.pending = proc[d].pending
  <2>1. W.rts = proc[d].rts \ {"RECEIVING"}
    BY <1>1, ReceiverFields DEF Rcodes
  <2>2. W.rts = {}
    BY <1>1, <2>1 DEF Waits, Descriptors, RtsFlags
  <2>3. W \in Descriptors
    BY <1>1, ReceiverWoken DEF Waits, Rcodes
  <2>4. QED
    BY <1>1, <2>2, <2>3, ReceiverFields DEF Rcodes
<1>3. /\ B.rts = {} /\ B.rcode = "FAULT" /\ B.misc = proc[d].misc \ {"NOMIGRATE"}
      /\ B.pending = proc[d].pending
  <2> HIDE DEF W
  <2>1. QED
    BY <1>2, MiscFacts, MiscFields DEF MiscFlags
<1>4. R \in Descriptors /\ R.rts = {} /\ R.pending = proc[p].pending
  BY <1>1 DEF Descriptors, Rcodes
<1>5. A.rts = {} /\ A.pending = proc[p].pending
  <2> HIDE DEF R
  <2>1. N \in Descriptors /\ N.rts = {} /\ N.pending = proc[p].pending
    BY <1>4, MiscFacts, MiscFields DEF MiscFlags
  <2> HIDE DEF N
  <2>2. /\ EndReceive(N) \in Descriptors /\ EndReceive(N).rts = {}
        /\ EndReceive(N).pending = proc[p].pending
    BY <2>1, EndReceiveFacts, EndReceiveFields
  <2>3. QED
    BY <2>2, EndSendFacts, EndSendFields
<1>6. proc' = [proc EXCEPT ![p] = A, ![d] = B]
  BY <1>1 DEF SendrecFault
<1> HIDE DEF A, B
<1>7. ASSUME NEW q \in Procs, q # p, q # d PROVE Still(q) /\ Pends(q)
  BY <1>1, <1>6, <1>7, OthersStill DEF Calling, Finish, Goto, ProcsFit, RestTyped
<1>8. Failed(d, p) /\ Pends(d)
  BY <1>1, <1>3, <1>6
     DEF Failed, Received, Waits, Pends, SameThread, SameBit, Calling, Finish, Goto,
         ProcsFit, RestTyped
<1>9. Ends(p, "sendrec", d, "FAULT", 0) /\ Pends(p)
  BY <1>1, <1>5, <1>6
     DEF Ends, Enters, CopiesTo, Pends, Calling, Finish, Goto, ProcsFit, RestTyped
<1>10. QED
  BY <1>7, <1>8, <1>9 DEF AllSeen, Shaped, Messages, Calls, Rcodes

LEMMA SendrecTakeSeen ==
    ASSUME ProcsFit, RestTyped, NEW p \in Procs, NEW d \in Procs, SendrecTake(p, d)
    PROVE  AllSeen
<1> DEFINE X == Clear(proc[d], "NOMIGRATE")
           F0 == [proc[p] EXCEPT !.rcode = "OK", !.getfrom = NONE]
           F1 == Mark(F0, "ATOMIC")
           G0 == [proc[p] EXCEPT !.rcode = "OK", !.getfrom = d]
<1>1. /\ p # d /\ d \in IpcTo[p] /\ proc[p] \in Descriptors /\ proc[d] \in Descriptors
      /\ proc[p].rts = {} /\ pc[p] = "user" /\ "sendrec" \in DvkAllowed[p]
      /\ "SENDING" \in proc[d].rts /\ proc[d].sendto = p
      /\ Calling(p, "sendrec", d, "none", FALSE) /\ UNCHANGED chunk
  BY PeerDiffers, RunningFits
     DEF SendrecTake, EnterTo, Enter, Sleeping, SendsTo, ProcsFit, local
<1>2. /\ X \in Descriptors /\ X.rts = proc[d].rts /\ X.misc = proc[d].misc \ {"NOMIGRATE"}
      /\ X.getfrom = proc[d].getfrom /\ X.rcode = proc[d].rcode /\ X.pending = proc[d].pending
  BY <1>1, MiscFacts, MiscFields DEF MiscFlags
<1>3. /\ F0 \in Descriptors /\ F0.rts = {} /\ F0.pending = proc[p].pending
      /\ G0 \in Descriptors /\ G0.rts = {} /\ G0.pending = proc[p].pending
  BY <1>1 DEF Descriptors, Rcodes
<1>4. /\ F1 \in Descriptors /\ F1.rts = {} /\ F1.pending = proc[p].pending
      /\ Clear(G0, "ATOMIC").rts = {} /\ Clear(G0, "ATOMIC").pending = proc[p].pending
  <2> HIDE DEF F0, G0
  <2>1. QED
    BY <1>3, MiscFacts, MiscFields DEF MiscFlags
<1>5. EndSend(F1).rts = {} /\ EndSend(F1).pending = proc[p].pending
  <2> HIDE DEF F1
  <2>1. QED
    BY <1>4, EndSendFacts, EndSendFields
<1>6. ASSUME NEW A, A.rts = {}, A.pending = proc[p].pending,
             NEW ret1 \in {"OK", "GARBAGE"}, NEW rc,
             proc' = [proc EXCEPT ![p] = A, ![d] = Wake(EndSend(X), ret1)], Finish(p, rc),
             (MayFault /\ UNCHANGED hist) \/ Copy(d, p)
      PROVE  AllSeen
  <2> DEFINE B == Wake(EndSend(X), ret1)
  <2>1. /\ B.rts = proc[d].rts \ {"SENDING"} /\ B.misc = proc[d].misc \ {"NOMIGRATE"}
        /\ B.getfrom = proc[d].getfrom /\ B.pending = proc[d].pending
        /\ B.rcode = IF B.rts = {} THEN ret1 ELSE proc[d].rcode
    <3> HIDE DEF X
    <3>1. QED
      BY <1>2, SenderFields DEF Rcodes
  <2>2. proc' = [proc EXCEPT ![p] = A, ![d] = B]
    BY <1>6
  <2> HIDE DEF B
  <2>3. ASSUME NEW q \in Procs, q # p, q # d PROVE Still(q) /\ Pends(q)
    BY <1>1, <1>6, <2>2, <2>3, OthersStill
       DEF Calling, Finish, Goto, Copy, hist, ProcsFit, RestTyped
  <2>4. PICK k \in {0, 1} :
           /\ copied'[p] = copied[p] /\ got'[p] = IF k = 1 THEN Append(got[p], d) ELSE got[p]
           /\ copied'[d] = copied[d] + k /\ got'[d] = got[d]
           /\ k = 0 => MayFault
    <3>1. CASE MayFault /\ UNCHANGED hist
      <4> WITNESS 0 \in {0, 1}
      <4>1. copied[d] + 0 = copied[d]
        BY DEF RestTyped
      <4>2. QED
        BY <3>1, <4>1 DEF hist
    <3>2. CASE Copy(d, p)
      <4> WITNESS 1 \in {0, 1}
      <4>1. QED
        BY <1>1, <3>2 DEF Copy, RestTyped
    <3>3. QED
      BY <1>6, <3>1, <3>2
  <2>5. EndsCrossed(p, d, k) /\ Pends(p)
    BY <1>1, <1>6, <2>2, <2>4
       DEF EndsCrossed, Enters, Pends, Calling, Finish, Goto, ProcsFit, RestTyped
  <2>6. proc'[d] = B /\ SameThread(d) /\ chunk'[d] = chunk[d]
    BY <1>1, <1>6, <2>2 DEF SameThread, Calling, Finish, Goto, ProcsFit, RestTyped
  <2>7. SameBits(d) /\ Pends(d)
    BY <2>1, <2>6 DEF SameBits, SameBit, Pends
  <2>8. Taken(d, p, ret1, k)
    BY <1>1, <1>6, <2>1, <2>4, <2>6, <2>7 DEF Taken
  <2>9. QED
    BY <2>3, <2>5, <2>7, <2>8 DEF AllSeen, Shaped, Rcodes
<1>7. PICK ret1 \in {"OK", "GARBAGE"}, fault \in Faults :
         /\ proc' = [proc EXCEPT
                ![d] = Wake(EndSend(Clear(@, "NOMIGRATE")), ret1),
                ![p] = IF fault
                       THEN EndSend(Mark([@ EXCEPT !.rcode = "OK", !.getfrom = NONE], "ATOMIC"))
                       ELSE Clear([@ EXCEPT !.rcode = "OK", !.getfrom = d], "ATOMIC")]
         /\ IF fault THEN UNCHANGED hist /\ Finish(p, "FAULT")
                     ELSE Copy(d, p) /\ Finish(p, "OK")
  BY DEF SendrecTake
<1>8. fault = TRUE \/ fault = FALSE
  BY EnvAssumption
<1>9. CASE fault = TRUE
  <2>1. /\ proc' = [proc EXCEPT ![p] = EndSend(F1), ![d] = Wake(EndSend(X), ret1)]
        /\ UNCHANGED hist /\ Finish(p, "FAULT") /\ MayFault
    BY <1>1, <1>7, <1>9 DEF ProcsFit, MayFault
  <2> HIDE DEF F1, X
  <2>2. QED
    BY <1>5, <1>6, <2>1
<1>10. CASE fault = FALSE
  <2>1. /\ proc' = [proc EXCEPT ![p] = Clear(G0, "ATOMIC"), ![d] = Wake(EndSend(X), ret1)]
        /\ Copy(d, p) /\ Finish(p, "OK")
    BY <1>1, <1>7, <1>10 DEF ProcsFit
  <2> HIDE DEF G0, X
  <2>2. QED
    BY <1>4, <1>6, <2>1
<1>11. QED
  BY <1>8, <1>9, <1>10

\* q loses the NOMIGRATE flag, which no shape speaks of.
LEMMA UnpinnedStill ==
    ASSUME ProcsFit, NEW q \in Procs, proc'[q] = Clear(proc[q], "NOMIGRATE"),
           pc'[q] = pc[q], call'[q] = call[q], ret'[q] = ret[q],
           chunk'[q] = chunk[q], copied'[q] = copied[q], got'[q] = got[q]
    PROVE  Still(q) /\ Pends(q)
<1> DEFINE B == Clear(proc[q], "NOMIGRATE")
<1>1. /\ B.rts = proc[q].rts /\ B.misc = proc[q].misc \ {"NOMIGRATE"}
      /\ B.getfrom = proc[q].getfrom /\ B.sendto = proc[q].sendto
      /\ B.rcode = proc[q].rcode /\ B.pending = proc[q].pending
  BY MiscFacts, MiscFields DEF MiscFlags, ProcsFit
<1>2. proc'[q] = B
  OBVIOUS
<1> HIDE DEF B
<1>3. QED
  BY <1>1, <1>2 DEF Still, Pends, SameThread, SameHistory, SameBits, SameBit, SameFlow

LEMMA SendrecBlockSeen ==
    ASSUME ProcsFit, RestTyped, NEW p \in Procs, NEW d \in Procs, SendrecBlock(p, d)
    PROVE  AllSeen
<1> DEFINE M == Mark(proc[p], "ATOMIC")
           S == [M EXCEPT !.rts = RtsFlags, !.getfrom = d, !.sendto = d]
           B == Clear(proc[d], "NOMIGRATE")
<1>1. /\ p # d /\ d \in IpcTo[p] /\ proc[p] \in Descriptors /\ proc[p].rts = {}
      /\ pc[p] = "user" /\ "sendrec" \in DvkAllowed[p]
  BY PeerDiffers, RunningFits DEF SendrecBlock, QueuesRequest, EnterTo, Enter, Sleeping
<1>2. PICK t : call' = [call EXCEPT ![p] =
                           [op |-> "sendrec", peer |-> d, timeout |-> t, both |-> TRUE]]
  BY DEF SendrecBlock, Calling
<1>3. M \in Descriptors /\ M.pending = proc[p].pending
  BY <1>1, MiscFacts, MiscFields DEF MiscFlags
<1>4. /\ S \in Descriptors /\ S.rts = RtsFlags /\ S.getfrom = d /\ S.sendto = d
      /\ S.pending = proc[p].pending
  <2> HIDE DEF M
  <2>1. QED
    BY <1>3 DEF Descriptors
<1>5. /\ Down(S).rts = RtsFlags /\ Down(S).getfrom = d /\ Down(S).sendto = d
      /\ Down(S).rcode = "OK" /\ Down(S).pending = proc[p].pending
  <2> HIDE DEF S
  <2>1. QED
    BY <1>4 DEF Down, Descriptors
<1>6. /\ proc' = [proc EXCEPT ![p] = Down(S), ![d] = B] /\ pc' = [pc EXCEPT ![p] = "sleep"]
      /\ UNCHANGED <<chunk, ret, copied, got>>
  BY <1>1 DEF SendrecBlock, Goto, local, hist
<1> HIDE DEF S, B
<1>7. ASSUME NEW q \in Procs, q # p, q # d PROVE Still(q) /\ Pends(q)
  BY <1>2, <1>6, <1>7, OthersStill DEF ProcsFit, RestTyped
<1>8. Still(d) /\ Pends(d)
  <2>1. proc'[d] = B /\ pc'[d] = pc[d] /\ call'[d] = call[d]
    BY <1>1, <1>2, <1>6 DEF ProcsFit
  <2>2. QED
    BY <1>6, <2>1, UnpinnedStill DEF B
<1>9. Stops(p, "sendrec", d, RtsFlags, 0) /\ Pends(p)
  BY <1>1, <1>2, <1>5, <1>6 DEF Stops, Enters, CopiesTo, Pends, ProcsFit, RestTyped
<1>10. QED
  BY <1>7, <1>8, <1>9 DEF AllSeen, Shaped, Calls, RtsFlags

LEMMA SendrecAgainSeen ==
    ASSUME ProcsFit, RestTyped, NEW p \in Procs, NEW d \in Procs, SendrecAgain(p, d)
    PROVE  AllSeen
<1> DEFINE R == [proc[p] EXCEPT !.rcode = "EAGAIN"]
           N == Clear(R, "ATOMIC")
           A == EndSend(EndReceive(N))
           B == Clear(proc[d], "NOMIGRATE")
<1>1. /\ p # d /\ d \in IpcTo[p] /\ proc[p] \in Descriptors /\ proc[p].rts = {}
      /\ pc[p] = "user" /\ "sendrec" \in DvkAllowed[p]
      /\ Calling(p, "sendrec", d, "none", FALSE) /\ Finish(p, "EAGAIN")
      /\ UNCHANGED <<chunk, copied, got>>
  BY PeerDiffers, RunningFits
     DEF SendrecAgain, QueuesRequest, EnterTo, Enter, Sleeping, local, hist
<1>2. R \in Descriptors /\ R.rts = {} /\ R.pending = proc[p].pending
  BY <1>1 DEF Descriptors, Rcodes
<1>3. A.rts = {} /\ A.pending = proc[p].pending
  <2> HIDE DEF R
  <2>1. N \in Descriptors /\ N.rts = {} /\ N.pending = proc[p].pending
    BY <1>2, MiscFacts, MiscFields DEF MiscFlags
  <2> HIDE DEF N
  <2>2. /\ EndReceive(N) \in Descriptors /\ EndReceive(N).rts = {}
        /\ EndReceive(N).pending = proc[p].pending
    BY <2>1, EndReceiveFacts, EndReceiveFields
  <2>3. QED
    BY <2>2, EndSendFacts, EndSendFields
<1>4. proc' = [proc EXCEPT ![p] = A, ![d] = B]
  BY <1>1 DEF SendrecAgain
<1> HIDE DEF A, B
<1>5. ASSUME NEW q \in Procs, q # p, q # d PROVE Still(q) /\ Pends(q)
  BY <1>1, <1>4, <1>5, OthersStill DEF Calling, Finish, Goto, ProcsFit, RestTyped
<1>6. Still(d) /\ Pends(d)
  <2>1. proc'[d] = B /\ pc'[d] = pc[d] /\ call'[d] = call[d] /\ ret'[d] = ret[d]
    BY <1>1, <1>4 DEF Calling, Finish, Goto, ProcsFit, RestTyped
  <2>2. QED
    BY <1>1, <2>1, UnpinnedStill DEF B
<1>7. Ends(p, "sendrec", d, "EAGAIN", 0) /\ Pends(p)
  BY <1>1, <1>3, <1>4
     DEF Ends, Enters, CopiesTo, Pends, Calling, Finish, Goto, ProcsFit, RestTyped
<1>8. QED
  BY <1>5, <1>6, <1>7 DEF AllSeen, Shaped, Calls, Rcodes

LEMMA ReplySeen ==
    ASSUME ProcsFit, RestTyped, NEW p \in Procs, NEW d \in Procs, Reply(p, d)
    PROVE  AllSeen
<1> DEFINE R == [proc[p] EXCEPT !.rcode = "OK"]
           B == Wake(EndReceive(proc[d]), "OK")
           Fails == /\ proc' = [proc EXCEPT ![p] = R] /\ Finish(p, "FAULT")
                    /\ UNCHANGED hist
           Copies == /\ proc' = [proc EXCEPT ![p] = R, ![d] = B] /\ Finish(p, "OK")
                     /\ Copy(p, d)
<1>1. /\ p # d /\ proc[p] \in Descriptors /\ proc[d] \in Descriptors /\ proc[p].rts = {}
      /\ pc[p] = "user" /\ "reply" \in DvkAllowed[p] /\ Waits(proc[d], p)
      /\ Calling(p, "reply", d, "none", FALSE) /\ UNCHANGED chunk
  BY PeerDiffers, RunningFits
     DEF Reply, AwaitsReply, EnterTo, Enter, Sleeping, ProcsFit, local
<1>2. R.rts = {} /\ R.pending = proc[p].pending
  BY <1>1 DEF Descriptors
<1>3. /\ B.rts = {} /\ B.rcode = "OK" /\ B.misc = proc[d].misc
      /\ B.pending = proc[d].pending
  <2>1. B.rts = proc[d].rts \ {"RECEIVING"}
    BY <1>1, ReceiverFields DEF Rcodes
  <2>2. B.rts = {}
    BY <1>1, <2>1 DEF Waits, Descriptors, RtsFlags
  <2>3. QED
    BY <1>1, <2>2, ReceiverFields DEF Rcodes
<1>4. Fails \/ Copies
  BY <1>1 DEF Reply
<1> HIDE DEF R, B
<1>5. CASE Fails
  <2>1. ASSUME NEW q \in Procs, q # p PROVE Still(q) /\ Pends(q)
    BY <1>1, <1>5, <2>1, OthersStill DEF Calling, Finish, Goto, hist, ProcsFit, RestTyped
  <2>2. Ends(p, "reply", d, "FAULT", 0) /\ Pends(p)
    BY <1>1, <1>2, <1>5
       DEF Ends, Enters, CopiesTo, Pends, Calling, Finish, Goto, hist, ProcsFit, RestTyped
  <2>3. QED
    BY <2>1, <2>2 DEF AllSeen, Shaped, Calls, Rcodes
<1>6. CASE Copies
  <2>1. ASSUME NEW q \in Procs, q # p, q # d PROVE Still(q) /\ Pends(q)
    BY <1>1, <1>6, <2>1, OthersStill DEF Calling, Finish, Goto, Copy, ProcsFit, RestTyped
  <2>2. Ends(p, "reply", d, "OK", 1) /\ Pends(p)
    BY <1>1, <1>2, <1>6
       DEF Ends, Enters, CopiesTo, Pends, Calling, Finish, Goto, Copy, ProcsFit, RestTyped
  <2>3. Filled(d, p) /\ Pends(d)
    BY <1>1, <1>3, <1>6
       DEF Filled, Received, Waits, Pends, SameThread, SameBit, Calling, Finish, Goto, Copy,
           ProcsFit, RestTyped
  <2>4. QED
    BY <2>1, <2>2, <2>3 DEF AllSeen, Shaped, Calls, Rcodes, Messages
<1>7. QED
  BY <1>4, <1>5, <1>6

LEMMA ReplyRefuseSeen ==
    ASSUME ProcsFit, RestTyped, NEW p \in Procs, NEW d \in Procs, ReplyRefuse(p, d)
    PROVE  AllSeen
<1> DEFINE R == [proc[p] EXCEPT !.rcode = "OK"]
<1>1. /\ proc[p] \in Descriptors /\ proc[p].rts = {} /\ pc[p] = "user"
      /\ "reply" \in DvkAllowed[p] /\ Calling(p, "reply", d, "none", FALSE)
      /\ proc' = [proc EXCEPT ![p] = R] /\ Finish(p, "PROCSTS")
      /\ UNCHANGED <<chunk, copied, got>>
  BY RunningFits DEF ReplyRefuse, EnterTo, Enter, Sleeping, local, hist
<1>2. R.rts = {} /\ R.pending = proc[p].pending
  BY <1>1 DEF Descriptors
<1> HIDE DEF R
<1>3. ASSUME NEW q \in Procs, q # p PROVE Still(q) /\ Pends(q)
  BY <1>1, <1>3, OthersStill DEF Calling, Finish, Goto, ProcsFit, RestTyped
<1>4. Ends(p, "reply", d, "PROCSTS", 0) /\ Pends(p)
  BY <1>1, <1>2
     DEF Ends, Enters, CopiesTo, Pends, Calling, Finish, Goto, ProcsFit, RestTyped
<1>5. QED
  BY <1>3, <1>4 DEF AllSeen, Shaped, Calls, Rcodes

\* A notification in the name of s, which the bit of i stands for.
LEMMA NotifiedSeen ==
    ASSUME ProcsFit, NEW d \in Procs, NEW s \in Messages, NEW i \in Procs, Notifies(s, d),
           proc'[d] = IF Waits(proc[d], s) THEN Notified(proc[d], s) ELSE Pend(proc[d], i),
           pc'[d] = pc[d], call'[d] = call[d], ret'[d] = ret[d],
           chunk'[d] = chunk[d], copied'[d] = copied[d], got'[d] = got[d]
    PROVE  Shaped(d) /\ Pends(d)
<1>1. Notifiable(d) /\ proc[d] \in Descriptors
  BY DEF Notifiable, ProcsFit
<1>2. CASE Waits(proc[d], s)
  <2> DEFINE X == [proc[d] EXCEPT !.message = s]
             Y == Mark(X, "NOTIFY")
             B == Wake(EndReceive(Y), "OK")
  <2>1. X \in Descriptors /\ X.rts = proc[d].rts /\ X.misc = proc[d].misc
    BY <1>1 DEF Descriptors, Messages
  <2>2. /\ Y \in Descriptors /\ Y.rts = proc[d].rts
        /\ Y.misc = proc[d].misc \cup {"NOTIFY"}
    <3> HIDE DEF X
    <3>1. QED
      BY <2>1, MiscFacts, MiscFields DEF MiscFlags
  <2>3. B.rts = {} /\ B.rcode = "OK" /\ B.misc = proc[d].misc \cup {"NOTIFY"}
    <3> HIDE DEF Y
    <3>1. B.rts = proc[d].rts \ {"RECEIVING"}
      BY <2>2, ReceiverFields DEF Rcodes
    <3>2. B.rts = {}
      BY <1>1, <1>2, <3>1 DEF Waits, Descriptors, RtsFlags
    <3>3. QED
      BY <2>2, <3>2, ReceiverFields DEF Rcodes
  <2>4. proc'[d] = B
    BY <1>2 DEF Notified
  <2> HIDE DEF B
  <2>5. Alerted(d, s)
    BY <1>2, <2>3, <2>4 DEF Alerted, Received, Waits, SameThread, SameBit
  <2>6. QED
    BY <1>1, <2>5 DEF Shaped, Pends
<1>3. CASE ~Waits(proc[d], s)
  <2> DEFINE B == Pend(proc[d], i)
  <2>1. /\ B.rts = proc[d].rts /\ B.misc = proc[d].misc /\ B.getfrom = proc[d].getfrom
        /\ B.sendto = proc[d].sendto /\ B.rcode = proc[d].rcode
    BY <1>1 DEF Pend, Descriptors
  <2>2. proc'[d] = B
    BY <1>3
  <2> HIDE DEF B
  <2>3. Still(d)
    BY <2>1, <2>2 DEF Still, SameThread, SameHistory, SameBits, SameBit, SameFlow
  <2>4. QED
    BY <1>1, <2>3 DEF Shaped, Pends
<1>4. QED
  BY <1>2, <1>3

LEMMA NotifySeen ==
    ASSUME ProcsFit, RestTyped, NEW p \in Procs, NEW s \in Procs, NEW d \in Procs, Notify(p, s, d)
    PROVE  AllSeen
<1> DEFINE R == [proc[p] EXCEPT !.rcode = "OK"]
           B == IF Waits(proc[d], s) THEN Notified(proc[d], s) ELSE Pend(proc[d], p)
<1>1. /\ p # d /\ d \in IpcTo[p] /\ proc[p] \in Descriptors /\ proc[p].rts = {}
      /\ pc[p] = "user" /\ "notify" \in DvkAllowed[p] /\ s \in NotifyAs[p]
      /\ Calling(p, "notify", d, "none", FALSE) /\ Finish(p, "OK")
      /\ UNCHANGED <<chunk, copied, got>>
  BY PeerDiffers, RunningFits DEF Notify, EnterTo, Enter, Sleeping, local, hist
<1>2. R.rts = {} /\ R.pending = proc[p].pending
  BY <1>1 DEF Descriptors
<1>3. proc' = [proc EXCEPT ![p] = R, ![d] = B]
  BY <1>1 DEF Notify
<1> HIDE DEF R, B
<1>4. ASSUME NEW q \in Procs, q # p, q # d PROVE Still(q) /\ Pends(q)
  BY <1>1, <1>3, <1>4, OthersStill DEF Calling, Finish, Goto, ProcsFit, RestTyped
<1>5. Ends(p, "notify", d, "OK", 0) /\ Pends(p)
  BY <1>1, <1>2, <1>3
     DEF Ends, Enters, CopiesTo, Pends, Calling, Finish, Goto, ProcsFit, RestTyped
<1>6. Shaped(d) /\ Pends(d)
  <2>1. /\ proc'[d] = B /\ pc'[d] = pc[d] /\ call'[d] = call[d] /\ ret'[d] = ret[d]
        /\ chunk'[d] = chunk[d] /\ copied'[d] = copied[d] /\ got'[d] = got[d]
    BY <1>1, <1>3 DEF Calling, Finish, Goto, ProcsFit, RestTyped
  <2>2. Notifies(s, d) /\ s \in Messages
    BY <1>1 DEF Notifies, Messages
  <2>3. QED
    BY <2>1, <2>2, NotifiedSeen DEF B
<1>7. Shaped(p) /\ Pends(p)
  BY <1>5 DEF Shaped, Calls, Rcodes
<1>8. QED
  BY <1>4, <1>6, <1>7 DEF AllSeen, Shaped

LEMMA HdwNotifySeen ==
    ASSUME ProcsFit, RestTyped, NEW d \in Procs, HdwNotify(d)
    PROVE  AllSeen
<1> DEFINE B == IF Waits(proc[d], HARDWARE) THEN Notified(proc[d], HARDWARE)
                ELSE Pend(proc[d], d)
<1>1. /\ proc' = [proc EXCEPT ![d] = B] /\ UNCHANGED <<pc, call, ret, chunk, copied, got>>
      /\ d \in Interrupted
  BY DEF HdwNotify, local, hist
<1> HIDE DEF B
<1>2. ASSUME NEW q \in Procs, q # d PROVE Still(q) /\ Pends(q)
  BY <1>1, <1>2, OthersStill DEF ProcsFit
<1>3. Shaped(d) /\ Pends(d)
  <2>1. proc'[d] = B
    BY <1>1 DEF ProcsFit
  <2>2. Notifies(HARDWARE, d) /\ HARDWARE \in Messages
    BY <1>1 DEF Notifies, Messages
  <2>3. QED
    BY <1>1, <2>1, <2>2, NotifiedSeen DEF B
<1>4. QED
  BY <1>2, <1>3 DEF AllSeen, Shaped

LEMMA WakeUpSeen ==
    ASSUME ProcsFit, RestTyped, NEW d \in Procs, WakeUp(d)
    PROVE  AllSeen
<1> DEFINE R == EndReceive(proc[d])
           W == IF R.rts = {} THEN Wake(R, "WOKENUP") ELSE Mark(R, "WOKENUP")
           X == Mark(proc[d], "WOKENUP")
           Waiting == "RECEIVING" \in proc[d].rts /\ proc[d].getfrom = ANY
           B == IF Waiting THEN W ELSE X
<1>1. /\ proc' = [proc EXCEPT ![d] = B] /\ UNCHANGED <<pc, call, ret, chunk, copied, got>>
      /\ Unlocked(d) /\ proc[d] \in Descriptors
  BY DEF WakeUp, local, hist, ProcsFit
<1>2. /\ R \in Descriptors /\ R.rts = proc[d].rts \ {"RECEIVING"} /\ R.misc = proc[d].misc
      /\ R.sendto = proc[d].sendto /\ R.rcode = proc[d].rcode /\ R.pending = proc[d].pending
  BY <1>1, EndReceiveFacts, EndReceiveFields
<1>3. /\ W.rts = proc[d].rts \ {"RECEIVING"} /\ W.misc \ {"WOKENUP"} = proc[d].misc \ {"WOKENUP"}
      /\ W.sendto = proc[d].sendto /\ W.pending = proc[d].pending
      /\ W.rcode = IF W.rts = {} THEN "WOKENUP" ELSE proc[d].rcode
  <2> HIDE DEF R
  <2>1. CASE R.rts = {}
    <3>1. /\ Wake(R, "WOKENUP").rts = R.rts /\ Wake(R, "WOKENUP").misc = R.misc
          /\ Wake(R, "WOKENUP").sendto = R.sendto /\ Wake(R, "WOKENUP").rcode = "WOKENUP"
          /\ Wake(R, "WOKENUP").pending = R.pending
      BY <1>2, <2>1, WakeFields DEF Rcodes
    <3>2. W = Wake(R, "WOKENUP")
      BY <2>1
    <3> HIDE DEF W
    <3>3. QED
      BY <1>2, <2>1, <3>1, <3>2
  <2>2. CASE R.rts # {}
    <3>1. /\ Mark(R, "WOKENUP").rts = R.rts /\ Mark(R, "WOKENUP").misc = R.misc \cup {"WOKENUP"}
          /\ Mark(R, "WOKENUP").sendto = R.sendto /\ Mark(R, "WOKENUP").rcode = R.rcode
          /\ Mark(R, "WOKENUP").pending = R.pending
      BY <1>2, MiscFacts, MiscFields DEF MiscFlags
    <3>2. W = Mark(R, "WOKENUP")
      BY <2>2
    <3> HIDE DEF W
    <3>3. QED
      BY <1>2, <2>2, <3>1, <3>2
  <2>3. QED
    BY <2>1, <2>2
<1>4. /\ X.rts = proc[d].rts /\ X.misc = proc[d].misc \cup {"WOKENUP"}
      /\ X.getfrom = proc[d].getfrom /\ X.sendto = proc[d].sendto
      /\ X.rcode = proc[d].rcode /\ X.pending = proc[d].pending
  BY <1>1, MiscFacts, MiscFields DEF MiscFlags
<1>5. (Waiting => B = W) /\ (~Waiting => B = X)
  OBVIOUS
<1> HIDE DEF B, W, X
<1>6. ASSUME NEW q \in Procs, q # d PROVE Still(q) /\ Pends(q)
  BY <1>1, <1>6, OthersStill DEF ProcsFit
<1>7. proc'[d] = B
  BY <1>1 DEF ProcsFit
<1>8. CASE Waiting
  <2>1. SameBit(d, "NOTIFY")
    BY <1>3, <1>5, <1>7, <1>8 DEF SameBit
  <2>2. Interrupts(d) /\ Pends(d)
    BY <1>1, <1>3, <1>5, <1>7, <1>8, <2>1 DEF Interrupts, Pends, SameThread, SameHistory
  <2>3. QED
    BY <1>6, <2>2 DEF AllSeen, Shaped
<1>9. CASE ~Waiting
  <2>1. Marked(d) /\ Pends(d)
    BY <1>1, <1>4, <1>5, <1>7, <1>9 DEF Marked, Pends, SameThread, SameHistory, SameBit, SameFlow
  <2>2. QED
    BY <1>6, <2>1 DEF AllSeen, Shaped
<1>10. QED
  BY <1>8, <1>9

LEMMA TimerSeen ==
    ASSUME ProcsFit, RestTyped, NEW p \in Procs, TimerExpires(p) \/ SignalArrives(p)
    PROVE  AllSeen
<1>1. PICK l \in {"expired", "signaled"} : pc' = [pc EXCEPT ![p] = l]
  BY DEF TimerExpires, SignalArrives, Goto
<1>2. pc[p] = "sleep" /\ UNCHANGED <<proc, call, ret, chunk, copied, got>>
  BY DEF TimerExpires, SignalArrives, local, hist
<1>3. ASSUME NEW q \in Procs, q # p PROVE Still(q) /\ Pends(q)
  BY <1>1, <1>2, <1>3, OthersStill DEF ProcsFit
<1>4. GivesUp(p) /\ Pends(p)
  BY <1>1, <1>2 DEF GivesUp, Pends, SameHistory, SameFlow, SameBits, SameBit, ProcsFit
<1>5. QED
  BY <1>3, <1>4 DEF AllSeen, Shaped

LEMMA ReturnSeen ==
    ASSUME ProcsFit, RestTyped, NEW p \in Procs, Return(p)
    PROVE  AllSeen
<1>1. proc[p].rts = {} /\ UNCHANGED <<proc, chunk>>
  BY RunningFits DEF Return, Sleeping, local
<1>2. ASSUME NEW q \in Procs, q # p PROVE Still(q) /\ Pends(q)
  BY <1>1, <1>2, OthersStill DEF Return, Goto, ProcsFit, RestTyped
<1>3. Returns(p) /\ Pends(p)
  BY <1>1 DEF Return, Returns, Pends, Goto, ProcsFit, RestTyped
<1>4. QED
  BY <1>2, <1>3 DEF AllSeen, Shaped

LEMMA StepSeen ==
    ASSUME IInv, [Next]_vars
    PROVE  AllSeen
<1>1. ProcsFit /\ RestTyped
  BY DEF IInv
<1>2. ASSUME NEW p \in Procs, CallSend(p) PROVE AllSeen
  BY <1>1, <1>2, SendDeliverSeen, SendBlockSeen, SendAgainSeen DEF CallSend
<1>3. ASSUME NEW p \in Procs, CallReceive(p) PROVE AllSeen
  BY <1>1, <1>3, ReceiveStartSeen DEF CallReceive
<1>4. ASSUME NEW p \in Procs, CallSendrec(p) PROVE AllSeen
  BY <1>1, <1>4, SendrecDeliverSeen, SendrecFaultSeen, SendrecTakeSeen, SendrecBlockSeen,
     SendrecAgainSeen DEF CallSendrec
<1>5. ASSUME NEW p \in Procs, CallReply(p) PROVE AllSeen
  BY <1>1, <1>5, ReplySeen, ReplyRefuseSeen DEF CallReply
<1>6. ASSUME NEW p \in Procs, CallNotify(p) PROVE AllSeen
  BY <1>1, <1>6, NotifySeen DEF CallNotify
<1>7. ASSUME NEW p \in Procs, Continue(p) PROVE AllSeen
  BY <1>1, <1>7, LooksSeen, NotifyStoreSeen, ScanTakeSeen, ScanRefuseSeen, ReceiveBlockSeen,
     ReceiveAgainSeen, SendDoneSeen, ReceiveDoneSeen, RcvrqstDoneSeen, SendrecDoneSeen,
     ReturnSeen DEF Continue
<1>8. ASSUME NEW p \in Procs, Step(p) PROVE AllSeen
  BY <1>1, <1>2, <1>3, <1>4, <1>5, <1>6, <1>7, <1>8, RcvrqstStartSeen, TimerSeen,
     HdwNotifySeen, WakeUpSeen DEF Step
<1>9. CASE UNCHANGED vars
  <2>1. ASSUME NEW q \in Procs PROVE Still(q) /\ Pends(q)
    BY <1>9, OthersStill DEF vars
  <2>2. QED
    BY <2>1 DEF AllSeen, Shaped
<1>10. QED
  BY <1>8, <1>9 DEF Next

-----------------------------------------------------------------------------
(* The invariants are kept by every shape. *)

\* What the inductive invariant of DvkIpcProofs says of q.
Known(q) ==
    /\ proc[q] \in Descriptors /\ Fits(proc[q], pc[q], call[q].op)
    /\ got[q] \in Seq(Messages) /\ copied[q] \in Nat

LEMMA KnownFacts ==
    ASSUME IInv, NEW q \in Procs
    PROVE  Known(q)
BY DEF IInv, ProcsFit, RestTyped, Known

LEMMA AppendFacts ==
    ASSUME NEW g \in Seq(Messages), g = <<>>, NEW s \in Messages
    PROVE  Append(g, s) = <<s>> /\ Len(Append(g, s)) = 1 /\ Append(g, s)[1] = s
           /\ Append(g, s) # <<>>
OBVIOUS

LEMMA CarriesKept ==
    ASSUME NEW q \in Procs, Known(q), Known(q)', Carries(q), Shaped(q)
    PROVE  Carries(q)'
<1> USE DEF Carries, Known, Fits, SameThread, SameHistory, SameBits, SameBit, SameFlow, SameCall,
        Sleeping, Receiving
<1>1. CASE Still(q) \/ Marked(q) \/ Interrupts(q)
  BY <1>1 DEF Still, Marked, Interrupts
<1>2. ASSUME NEW s \in Messages, Filled(q, s) \/ Failed(q, s) \/ Alerted(q, s)
      PROVE  Carries(q)'
  <2>1. CASE Filled(q, s)
    BY <2>1, AppendFacts DEF Filled, Received
  <2>2. CASE Failed(q, s)
    BY <2>2 DEF Failed, Received
  <2>3. CASE Alerted(q, s)
    BY <2>3, AppendFacts DEF Alerted, Received
  <2>4. QED
    BY <1>2, <2>1, <2>2, <2>3
<1>3. ASSUME NEW r \in Procs, NEW rc \in Rcodes, NEW k \in {0, 1}, Taken(q, r, rc, k)
      PROVE  Carries(q)'
  BY <1>3 DEF Taken
<1>4. ASSUME NEW op \in Calls, NEW d \in Procs \cup {ANY}, NEW rc \in Rcodes, NEW k \in {0, 1},
             Ends(q, op, d, rc, k)
      PROVE  Carries(q)'
  BY <1>4 DEF Ends, Enters, CopiesTo
<1>5. ASSUME NEW d \in Procs, NEW k \in {0, 1}, EndsCrossed(q, d, k)
      PROVE  Carries(q)'
  BY <1>5, AppendFacts DEF EndsCrossed, Enters, Messages
<1>6. ASSUME NEW op \in Calls, NEW d \in Procs, NEW flags \in SUBSET RtsFlags, NEW k \in {0, 1},
             Stops(q, op, d, flags, k)
      PROVE  Carries(q)'
  BY <1>6 DEF Stops, Enters, CopiesTo
<1>7. ASSUME NEW op \in Calls, NEW s \in Procs \cup {ANY}, Begins(q, op, s)
      PROVE  Carries(q)'
  BY <1>7 DEF Begins, Enters
<1>8. CASE Looks(q) \/ FindsNone(q) \/ Awaits(q)
  BY <1>8 DEF Looks, FindsNone, Awaits
<1>9. CASE Fetches(q)
  BY <1>9, AppendFacts DEF Fetches
<1>10. ASSUME NEW x \in Procs, Takes(q, x)
       PROVE  Carries(q)'
  BY <1>10, AppendFacts DEF Takes, Messages
<1>11. CASE GivesUp(q)
  BY <1>11 DEF GivesUp
<1>12. CASE EndsSleep(q)
  BY <1>12, AppendFacts DEF EndsSleep, Descriptors, Messages
<1>13. CASE Returns(q)
  BY <1>13 DEF Returns
<1>14. QED
  BY <1>1, <1>2, <1>3, <1>4, <1>5, <1>6, <1>7, <1>8, <1>9, <1>10, <1>11, <1>12, <1>13,
     ZenonT(30) DEF Shaped

LEMMA HeedsKept ==
    ASSUME NEW q \in Procs, Known(q), Known(q)', Heeds(q), Shaped(q)
    PROVE  Heeds(q)'
<1> USE DEF Heeds, Known, Fits, SameThread, SameBits, SameBit, SameFlow, SameCall,
        Sleeping, Receiving, Unlocked
<1>1. CASE Still(q) \/ Marked(q) \/ Interrupts(q)
  BY <1>1 DEF Still, Marked, Interrupts
<1>2. ASSUME NEW s \in Messages, Filled(q, s) \/ Failed(q, s) \/ Alerted(q, s)
      PROVE  Heeds(q)'
  BY <1>2 DEF Filled, Failed, Alerted, Received
<1>3. ASSUME NEW r \in Procs, NEW rc \in Rcodes, NEW k \in {0, 1}, Taken(q, r, rc, k)
      PROVE  Heeds(q)'
  BY <1>3 DEF Taken
<1>4. ASSUME NEW op \in Calls, NEW d \in Procs \cup {ANY}, NEW rc \in Rcodes, NEW k \in {0, 1},
             Ends(q, op, d, rc, k)
      PROVE  Heeds(q)'
  BY <1>4 DEF Ends, Enters
<1>5. ASSUME NEW d \in Procs, NEW k \in {0, 1}, EndsCrossed(q, d, k)
      PROVE  Heeds(q)'
  BY <1>5 DEF EndsCrossed, Enters
<1>6. ASSUME NEW op \in Calls, NEW d \in Procs, NEW flags \in SUBSET RtsFlags, NEW k \in {0, 1},
             Stops(q, op, d, flags, k)
      PROVE  Heeds(q)'
  BY <1>6 DEF Stops, Enters
<1>7. ASSUME NEW op \in Calls, NEW s \in Procs \cup {ANY}, Begins(q, op, s)
      PROVE  Heeds(q)'
  BY <1>7 DEF Begins, Enters
<1>8. CASE Looks(q) \/ FindsNone(q) \/ Awaits(q) \/ Fetches(q) \/ \E x \in Procs : Takes(q, x)
  BY <1>8 DEF Looks, FindsNone, Awaits, Fetches, Takes
<1>9. CASE GivesUp(q) \/ EndsSleep(q) \/ Returns(q)
  BY <1>9 DEF GivesUp, EndsSleep, Returns, NoCall
<1> HIDE DEF Heeds, Known, Fits, SameThread, SameBits, SameBit, SameFlow, SameCall
<1>10. QED
  BY <1>1, <1>2, <1>3, <1>4, <1>5, <1>6, <1>7, <1>8, <1>9 DEF Shaped

LEMMA EntitledKept ==
    ASSUME NEW q \in Procs, Known(q), Known(q)', Entitled(q), Shaped(q), Pends(q)
    PROVE  Entitled(q)'
<1> DEFINE Allowed ==
              /\ pc'[q] # "user" => call'[q].op \in DvkAllowed[q]
              /\ call'[q].op = "receive" => call'[q].peer \in Sources[q]
              /\ call'[q].op = "rcvrqst" => call'[q].peer = ANY
              /\ call'[q].op \in {"send", "sendrec"} /\ pc'[q] \in Sleeping =>
                    call'[q].peer \in IpcTo[q]
<1> USE DEF Entitled, Known, Fits, SameThread, SameCall, Sleeping, Receiving
<1>1. ASSUME Still(q) \/ Marked(q) \/ Interrupts(q)
      PROVE  Allowed
  BY <1>1 DEF Still, Marked, Interrupts
<1>2. ASSUME \E s \in Messages : Filled(q, s) \/ Failed(q, s) \/ Alerted(q, s)
      PROVE  Allowed
  BY <1>2 DEF Filled, Failed, Alerted, Received
<1>3. ASSUME \E r \in Procs, rc \in Rcodes, k \in {0, 1} : Taken(q, r, rc, k)
      PROVE  Allowed
  BY <1>3 DEF Taken
<1>4. ASSUME NEW op \in Calls, NEW d \in Procs \cup {ANY}, NEW rc \in Rcodes, NEW k \in {0, 1},
             Ends(q, op, d, rc, k)
      PROVE  Allowed
  BY <1>4 DEF Ends, Enters
<1>5. ASSUME NEW d \in Procs, NEW k \in {0, 1}, EndsCrossed(q, d, k)
      PROVE  Allowed
  BY <1>5 DEF EndsCrossed, Enters
<1>6. ASSUME NEW op \in Calls, NEW d \in Procs, NEW flags \in SUBSET RtsFlags, NEW k \in {0, 1},
             Stops(q, op, d, flags, k)
      PROVE  Allowed
  BY <1>6 DEF Stops, Enters
<1>7. ASSUME NEW op \in Calls, NEW s \in Procs \cup {ANY}, Begins(q, op, s)
      PROVE  Allowed
  BY <1>7 DEF Begins, Enters
<1>8. ASSUME Looks(q) \/ FindsNone(q) \/ Awaits(q) \/ Fetches(q) \/ \E x \in Procs : Takes(q, x)
      PROVE  Allowed
  BY <1>8 DEF Looks, FindsNone, Awaits, Fetches, Takes
<1>9. ASSUME GivesUp(q) \/ EndsSleep(q) \/ Returns(q)
      PROVE  Allowed
  BY <1>9 DEF GivesUp, EndsSleep, Returns, NoCall
<1> HIDE DEF Allowed, Entitled, Known, Fits, SameThread, SameCall
<1>10. Allowed
  BY <1>1, <1>2, <1>3, <1>4, <1>5, <1>6, <1>7, <1>8, <1>9 DEF Shaped
<1>11. proc'[q].pending \cup chunk'[q] # {} => Notifiable(q)
  BY DEF Pends, Entitled
<1>12. QED
  BY <1>10, <1>11 DEF Allowed, Entitled, Notifiable, Notifies

\* Where nobody sends to a process that asks it for a reply, no sendrec takes a
\* message for the reply.
LEMMA NotCrossed ==
    ASSUME NoCrossing, NEW q \in Procs, Known(q), Carries(q), Entitled(q),
           "SENDING" \in proc[q].rts, NEW r \in Procs, proc[q].sendto = r,
           "sendrec" \in DvkAllowed[r], q \in IpcTo[r]
    PROVE  FALSE
<1>1. call[q].op \in {"send", "sendrec"} /\ pc[q] \in Sleeping /\ call[q].peer = r
  BY DEF Known, Fits, Carries
<1>2. call[q].op \in DvkAllowed[q] /\ r \in IpcTo[q]
  BY <1>1 DEF Entitled, Sleeping
<1>3. QED
  BY <1>1, <1>2 DEF NoCrossing

LEMMA SendStaysKept ==
    ASSUME NEW q \in Procs, Known(q), Known(q)', Carries(q), Entitled(q), SendKept(q), Shaped(q),
           ~MayFault \/ NoCrossing
    PROVE  SendKept(q)'
<1> USE DEF SendKept, Known, Fits, SameThread, SameHistory, SameFlow, SameCall, Sleeping, Receiving
<1>1. ASSUME Still(q) \/ Marked(q) \/ Interrupts(q)
      PROVE  SendKept(q)'
  BY <1>1 DEF Still, Marked, Interrupts
<1>2. ASSUME NEW s \in Messages, Filled(q, s) \/ Failed(q, s) \/ Alerted(q, s)
      PROVE  SendKept(q)'
  BY <1>2 DEF Filled, Failed, Alerted, Received
<1>3. ASSUME NEW r \in Procs, NEW rc \in Rcodes, NEW k \in {0, 1}, Taken(q, r, rc, k)
      PROVE  SendKept(q)'
  <2>1. \/ rc = "OK" /\ k = 1
        \/ rc = "FAULT" /\ k = 0
        \/ rc \in {"OK", "GARBAGE"} /\ k = 1
    BY <1>3, NotCrossed DEF Taken
  <2>2. copied[q] = 0
    BY <1>3 DEF Taken, Carries
  <2>3. QED
    BY <1>3, <2>1, <2>2 DEF Taken
<1>4. ASSUME NEW op \in Calls, NEW d \in Procs \cup {ANY}, NEW rc \in Rcodes, NEW k \in {0, 1},
             Ends(q, op, d, rc, k)
      PROVE  SendKept(q)'
  BY <1>4 DEF Ends, Enters, CopiesTo, Carries
<1>5. ASSUME NEW d \in Procs, NEW k \in {0, 1}, EndsCrossed(q, d, k)
      PROVE  SendKept(q)'
  BY <1>5 DEF EndsCrossed, Enters
<1>6. ASSUME NEW op \in Calls, NEW d \in Procs, NEW flags \in SUBSET RtsFlags, NEW k \in {0, 1},
             Stops(q, op, d, flags, k)
      PROVE  SendKept(q)'
  BY <1>6 DEF Stops, Enters
<1>7. ASSUME NEW op \in Calls, NEW s \in Procs \cup {ANY}, Begins(q, op, s)
      PROVE  SendKept(q)'
  BY <1>7 DEF Begins, Enters
<1>8. ASSUME Looks(q) \/ FindsNone(q) \/ Awaits(q) \/ Fetches(q) \/ \E x \in Procs : Takes(q, x)
      PROVE  SendKept(q)'
  BY <1>8 DEF Looks, FindsNone, Awaits, Fetches, Takes
<1>9. ASSUME GivesUp(q) \/ Returns(q)
      PROVE  SendKept(q)'
  BY <1>9 DEF GivesUp, Returns, NoCall
<1>10. ASSUME EndsSleep(q)
       PROVE  SendKept(q)'
  BY <1>10 DEF EndsSleep, SleepResult
<1> HIDE DEF SendKept, Known, Fits, SameThread, SameHistory, SameFlow, SameCall
<1>11. QED
  BY <1>1, <1>2, <1>3, <1>4, <1>5, <1>6, <1>7, <1>8, <1>9, <1>10 DEF Shaped

\* Where only processes that take every message with receive may be notified, a
\* receive that returns OK has brought what it asked for.
LEMMA ReceiveStaysKept ==
    ASSUME NEW q \in Procs, Known(q), Known(q)', Carries(q), Entitled(q), ReceiveKept(q),
           Shaped(q), NoticesFit
    PROVE  ReceiveKept(q)'
<1> USE DEF ReceiveKept, Known, Fits, SameThread, SameHistory, SameFlow, SameCall, SameBits, SameBit,
        Sleeping, Receiving, Brought
<1>1. ASSUME Still(q) \/ Marked(q)
      PROVE  ReceiveKept(q)'
  BY <1>1 DEF Still, Marked
<1>2. ASSUME Interrupts(q)
      PROVE  ReceiveKept(q)'
  BY <1>2 DEF Interrupts, Carries, Descriptors, RtsFlags
<1>3. ASSUME NEW s \in Messages, Filled(q, s)
      PROVE  ReceiveKept(q)'
  BY <1>3, AppendFacts DEF Filled, Received, Carries
<1>4. ASSUME NEW s \in Messages, Failed(q, s)
      PROVE  ReceiveKept(q)'
  BY <1>4 DEF Failed, Received, Carries
<1>5. ASSUME NEW s \in Messages, Alerted(q, s)
      PROVE  ReceiveKept(q)'
  <2>1. Notifiable(q)
    BY <1>5 DEF Alerted, Notifiable
  <2>2. call[q].op = "receive" => call[q].peer = ANY
    BY <2>1 DEF Entitled, NoticesFit
  <2>3. call[q].op # "rcvrqst"
    BY <1>5, <2>1 DEF Entitled, NoticesFit, Alerted, Received
  <2>4. QED
    BY <1>5, <2>2, <2>3 DEF Alerted, Received, Carries
<1>6. ASSUME NEW r \in Procs, NEW rc \in Rcodes, NEW k \in {0, 1}, Taken(q, r, rc, k)
      PROVE  ReceiveKept(q)'
  BY <1>6 DEF Taken
<1>7. ASSUME NEW op \in Calls, NEW d \in Procs \cup {ANY}, NEW rc \in Rcodes, NEW k \in {0, 1},
             Ends(q, op, d, rc, k)
      PROVE  ReceiveKept(q)'
  BY <1>7 DEF Ends, Enters, Carries
<1>8. ASSUME NEW d \in Procs, NEW k \in {0, 1}, EndsCrossed(q, d, k)
      PROVE  ReceiveKept(q)'
  BY <1>8 DEF EndsCrossed, Enters
<1>9. ASSUME NEW op \in Calls, NEW d \in Procs, NEW flags \in SUBSET RtsFlags, NEW k \in {0, 1},
             Stops(q, op, d, flags, k)
      PROVE  ReceiveKept(q)'
  BY <1>9 DEF Stops, Enters
<1>10. ASSUME NEW op \in Calls, NEW s \in Procs \cup {ANY}, Begins(q, op, s)
       PROVE  ReceiveKept(q)'
  BY <1>10 DEF Begins, Enters
<1>11. ASSUME Looks(q) \/ FindsNone(q) \/ Awaits(q)
       PROVE  ReceiveKept(q)'
  BY <1>11 DEF Looks, FindsNone, Awaits, Carries
<1>12. ASSUME NEW x \in Procs, Takes(q, x)
       PROVE  ReceiveKept(q)'
  BY <1>12, AppendFacts DEF Takes, Carries, Messages
<1>13. ASSUME Fetches(q)
       PROVE  ReceiveKept(q)'
  <2>1. Notifiable(q) /\ got[q] = <<>>
    BY <1>13 DEF Fetches, Entitled, Carries
  <2>2. call[q].op = "receive" => call[q].peer = ANY
    BY <2>1 DEF Entitled, NoticesFit
  <2>3. call[q].op # "rcvrqst"
    BY <1>13, <2>1 DEF Entitled, NoticesFit, Fetches
  <2>4. QED
    BY <1>13, <2>1, <2>2, <2>3, AppendFacts DEF Fetches
<1>14. ASSUME GivesUp(q) \/ Returns(q)
       PROVE  ReceiveKept(q)'
  BY <1>14 DEF GivesUp, Returns, NoCall
<1>15. ASSUME EndsSleep(q)
       PROVE  ReceiveKept(q)'
  <2>1. proc[q].message \in Messages
    BY DEF Descriptors, Messages
  <2>2. QED
    BY <1>15, <2>1, AppendFacts DEF EndsSleep, SleepResult, Carries
<1> HIDE DEF ReceiveKept, Known, Fits, SameThread, SameHistory, SameFlow, SameCall, SameBits, SameBit
<1>16. QED
  BY <1>1, <1>2, <1>3, <1>4, <1>5, <1>6, <1>7, <1>8, <1>9, <1>10, <1>11, <1>12, <1>13, <1>14,
     <1>15 DEF Shaped

\* Without bad addresses, and where nobody speaks in the name of the process
\* that is asked, a sendrec keeps to its two halves: the request, the reply.
LEMMA SendrecStaysKept ==
    ASSUME NEW q \in Procs, Known(q), Known(q)', Carries(q), Carries(q)', Entitled(q),
           SendrecKept(q), Shaped(q), ~MayFault, NoImpostors,
           \A d \in Procs, k \in {0, 1} : ~EndsCrossed(q, d, k)
    PROVE  SendrecKept(q)'
<1> USE DEF SendrecKept, Known, Fits, SameThread, SameHistory, SameFlow, SameCall,
        Sleeping, Receiving
<1>1. ASSUME Still(q) \/ Marked(q)
      PROVE  SendrecKept(q)'
  BY <1>1 DEF Still, Marked
<1>2. \A r \in Procs : call[q].op = "sendrec" /\ proc[q].rts # {} => call[q].peer # ANY
  BY NamesAssumption, PrivAssumption DEF Entitled
<1>3. ASSUME Interrupts(q)
      PROVE  SendrecKept(q)'
  <2>1. call[q].op # "sendrec"
    BY <1>2, <1>3 DEF Interrupts
  <2>2. QED
    BY <1>3, <2>1 DEF Interrupts
<1>4. ASSUME NEW s \in Messages, Filled(q, s)
      PROVE  SendrecKept(q)'
  <2>1. SUFFICES ASSUME call[q].op = "sendrec" PROVE SendrecKept(q)'
    BY <1>4 DEF Filled, Received
  <2>2. proc[q].rts = {"RECEIVING"} /\ call[q].peer = s /\ got[q] = <<>> /\ copied[q] = 1
    BY <1>2, <1>4, <2>1 DEF Filled, Received, Descriptors, RtsFlags
  <2>3. got'[q] = <<s>>
    BY <1>4, <2>2, AppendFacts DEF Filled
  <2>4. QED
    BY <1>4, <2>1, <2>2, <2>3 DEF Filled, Received
<1>5. ASSUME NEW s \in Messages, Failed(q, s)
      PROVE  SendrecKept(q)'
  BY <1>5 DEF Failed, Received
<1>6. ASSUME NEW s \in Messages, Alerted(q, s)
      PROVE  SendrecKept(q)'
  <2>1. call[q].op # "sendrec"
    <3>1. SUFFICES ASSUME call[q].op = "sendrec" PROVE FALSE
      OBVIOUS
    <3>2. call[q].peer = s /\ s \in IpcTo[q] /\ "sendrec" \in DvkAllowed[q]
      BY <1>2, <1>6, <3>1 DEF Alerted, Received, Entitled
    <3>3. s \in Procs /\ Notifies(s, q)
      BY <1>6, <3>2, PrivAssumption DEF Alerted
    <3>4. QED
      BY <3>2, <3>3 DEF NoImpostors
  <2>2. QED
    BY <1>6, <2>1 DEF Alerted, Received
<1>7. ASSUME NEW r \in Procs, NEW rc \in Rcodes, NEW k \in {0, 1}, Taken(q, r, rc, k)
      PROVE  SendrecKept(q)'
  <2>1. k = 1 /\ copied[q] = 0
    BY <1>7 DEF Taken, Carries
  <2>2. SUFFICES ASSUME call[q].op = "sendrec" PROVE SendrecKept(q)'
    BY <1>7 DEF Taken
  <2>3. proc'[q].rts = {"RECEIVING"} /\ copied'[q] = 1 /\ got'[q] = <<>>
    BY <1>7, <2>1, <2>2 DEF Taken, RtsFlags
  <2>4. pc'[q] \in Sleeping /\ call'[q] = call[q] /\ proc'[q].getfrom = call[q].peer
    BY <1>7, <2>2 DEF Taken
  <2>5. QED
    BY <2>2, <2>3, <2>4
<1>8. ASSUME NEW op \in Calls, NEW d \in Procs \cup {ANY}, NEW rc \in Rcodes, NEW k \in {0, 1},
             Ends(q, op, d, rc, k)
      PROVE  SendrecKept(q)'
  BY <1>8 DEF Ends, Enters, Carries
<1>9. ASSUME NEW op \in Calls, NEW d \in Procs, NEW flags \in SUBSET RtsFlags, NEW k \in {0, 1},
             Stops(q, op, d, flags, k)
      PROVE  SendrecKept(q)'
  <2>1. got'[q] = <<>> /\ copied'[q] = k /\ pc'[q] = "sleep"
    BY <1>9 DEF Stops, Enters, CopiesTo, Carries
  <2>2. CASE op = "send"
    BY <1>9, <2>2 DEF Stops, Enters
  <2>3. CASE op = "sendrec" /\ flags = RtsFlags
    BY <1>9, <2>1, <2>3 DEF Stops, Enters, RtsFlags
  <2>4. CASE op = "sendrec" /\ flags = {"RECEIVING"} /\ k = 1
    BY <1>9, <2>1, <2>4 DEF Stops, Enters
  <2>5. QED
    BY <1>9, <2>2, <2>3, <2>4 DEF Stops
<1>10. ASSUME NEW op \in Calls, NEW s \in Procs \cup {ANY}, Begins(q, op, s)
       PROVE  SendrecKept(q)'
  BY <1>10 DEF Begins, Enters
<1>11. ASSUME Looks(q) \/ FindsNone(q) \/ Awaits(q) \/ Fetches(q) \/ \E x \in Procs : Takes(q, x)
       PROVE  SendrecKept(q)'
  BY <1>11 DEF Looks, FindsNone, Awaits, Fetches, Takes
<1>12. ASSUME GivesUp(q) \/ Returns(q)
       PROVE  SendrecKept(q)'
  BY <1>12 DEF GivesUp, Returns, NoCall
<1>13. ASSUME EndsSleep(q)
       PROVE  SendrecKept(q)'
  BY <1>13 DEF EndsSleep, SleepResult
<1> HIDE DEF SendrecKept, Known, Fits, SameThread, SameHistory, SameFlow, SameCall
<1>14. QED
  BY <1>1, <1>3, <1>4, <1>5, <1>6, <1>7, <1>8, <1>9, <1>10, <1>11, <1>12, <1>13 DEF Shaped

-----------------------------------------------------------------------------
(* The theorems *)

\* What holds of every process, whoever may call what.
MsgInv == \A q \in Procs : Carries(q) /\ Heeds(q) /\ Entitled(q)

LEMMA InitMsgInv == Init => MsgInv
BY DEF Init, MsgInv, Carries, Heeds, Entitled, Running, NoCall, Receiving, Sleeping

LEMMA StepMsgInv == IInv /\ IInv' /\ MsgInv /\ [Next]_vars => MsgInv'
<1> SUFFICES ASSUME IInv, IInv', MsgInv, [Next]_vars, NEW q \in Procs
             PROVE  (Carries(q) /\ Heeds(q) /\ Entitled(q))'
  BY DEF MsgInv
<1>1. Known(q) /\ Known(q)'
  BY KnownFacts, PTL
<1>2. Shaped(q) /\ Pends(q)
  BY StepSeen DEF AllSeen
<1>3. Carries(q) /\ Heeds(q) /\ Entitled(q)
  BY DEF MsgInv
<1>4. QED
  BY <1>1, <1>2, <1>3, CarriesKept, HeedsKept, EntitledKept

LEMMA MsgInvariance == Spec => []MsgInv
BY Invariance, InitMsgInv, StepMsgInv, PTL DEF Spec

\* A message in the buffer of a blocked process has not been copied, and none is
\* copied twice: whoever sends, receives, times out or is interrupted, at any
\* moment of the walk of a receiver that has released its mutex.
THEOREM CopiedOnce == Spec => []CopiedAtMostOnce
<1>1. MsgInv => CopiedAtMostOnce
  BY DEF MsgInv, Carries, CopiedAtMostOnce
<1>2. QED
  BY <1>1, MsgInvariance, PTL

\* No call takes in two messages, and none is written into the buffer of a
\* process that is not in a call.
THEOREM FilledOnce == Spec => []FilledAtMostOnce
<1>1. MsgInv /\ IInv => FilledAtMostOnce
  <2> SUFFICES ASSUME MsgInv, IInv, NEW p \in Procs
               PROVE  Len(got[p]) <= (IF pc[p] = "user" THEN 0 ELSE 1)
    BY DEF FilledAtMostOnce
  <2>1. Len(got[p]) <= 1 /\ (pc[p] = "user" => Len(got[p]) = 0)
    BY EmptySeq DEF MsgInv, Carries
  <2>2. QED
    BY <2>1
<1>2. QED
  BY <1>1, Invariance, MsgInvariance, PTL

\* Every copy out of a buffer arrives at the process the call is for: also when
\* the receiver finds the sender in its queue only after the sender has given
\* up, and called for another process.
THEOREM ArrivesWhereSent == Spec => Addressed
<1>1. ASSUME IInv, IInv', MsgInv, [Next]_vars,
             NEW x \in Procs, copied'[x] > copied[x]
      PROVE  call'[x].peer \in Procs /\ got'[call'[x].peer] = Append(got[call'[x].peer], x)
  <2> DEFINE Arrives == call'[x].peer \in Procs
                        /\ got'[call'[x].peer] = Append(got[call'[x].peer], x)
  <2>1. Known(x) /\ Carries(x) /\ Shaped(x) /\ copied[x] \in Nat /\ copied'[x] # copied[x]
        /\ copied'[x] # 0
    BY <1>1, KnownFacts, StepSeen DEF AllSeen, MsgInv, Known
  <2>2. ASSUME NEW r \in Procs, NEW rc \in Rcodes, NEW k \in {0, 1}, Taken(x, r, rc, k)
        PROVE  Arrives
    <3>1. k = 1
      BY <2>1, <2>2 DEF Taken
    <3>2. call'[x] = call[x] /\ call[x].peer = r
      BY <2>1, <2>2 DEF Taken, SameThread, Carries
    <3>3. QED
      BY <2>2, <3>1, <3>2 DEF Taken
  <2>3. ASSUME NEW op \in Calls, NEW d \in Procs \cup {ANY}, NEW rc \in Rcodes, NEW k \in {0, 1},
               Ends(x, op, d, rc, k)
        PROVE  Arrives
    <3>1. k = 1
      BY <2>1, <2>3 DEF Ends, CopiesTo
    <3>2. QED
      BY <2>3, <3>1 DEF Ends, Enters, CopiesTo
  <2>4. ASSUME NEW op \in Calls, NEW d \in Procs, NEW flags \in SUBSET RtsFlags, NEW k \in {0, 1},
               Stops(x, op, d, flags, k)
        PROVE  Arrives
    <3>1. k = 1
      BY <2>1, <2>4 DEF Stops, CopiesTo
    <3>2. QED
      BY <2>4, <3>1 DEF Stops, Enters, CopiesTo
  <2>5. ASSUME \/ Still(x) \/ Marked(x) \/ Interrupts(x)
               \/ \E s \in Messages : Filled(x, s) \/ Failed(x, s) \/ Alerted(x, s)
               \/ \E d \in Procs, k \in {0, 1} : EndsCrossed(x, d, k)
               \/ \E op \in Calls, s \in Procs \cup {ANY} : Begins(x, op, s)
               \/ Looks(x) \/ Fetches(x) \/ FindsNone(x) \/ Awaits(x)
               \/ \E y \in Procs : Takes(x, y)
               \/ GivesUp(x) \/ EndsSleep(x) \/ Returns(x)
        PROVE  FALSE
    BY <2>1, <2>5
       DEF Still, Marked, Interrupts, Filled, Failed, Alerted, Received, EndsCrossed, Begins,
           Looks, Fetches, FindsNone, Awaits, Takes, GivesUp, EndsSleep, Returns, SameHistory
  <2>6. QED
    BY <2>1, <2>2, <2>3, <2>4, <2>5 DEF Shaped
<1>2. IInv /\ IInv' /\ MsgInv /\ [Next]_vars =>
         [\A x \in Procs : copied'[x] > copied[x] =>
             LET d == call'[x].peer
             IN  d \in Procs /\ got'[d] = Append(got[d], x)]_vars
  BY <1>1
<1>3. QED
  BY <1>2, Invariance, MsgInvariance, PTL DEF Spec, Addressed

\* A server never sleeps in rcvrqst over a new_wakeup that came before.
THEOREM WakeupsHeeded == Spec => []RcvrqstHeedsWakeup
<1>1. IInv /\ MsgInv => RcvrqstHeedsWakeup
  <2> SUFFICES ASSUME IInv, MsgInv, NEW p \in Procs, call[p].op = "rcvrqst", Unwoken(p)
               PROVE  "WOKENUP" \notin proc[p].misc
    BY DEF RcvrqstHeedsWakeup
  <2>1. Known(p) /\ Heeds(p)
    BY KnownFacts DEF MsgInv
  <2>2. "RECEIVING" \in proc[p].rts
    BY <2>1 DEF Known, Fits, Unwoken, Asleep, Sleeping, Descriptors, RtsFlags
  <2>3. QED
    BY <2>1, <2>2 DEF Heeds
<1>2. QED
  BY <1>1, Invariance, MsgInvariance, PTL

\* What a send, a reply or a receive returns is what happened to the message.
\* Two things of the code are kept out.  A sendrec that takes a message of the
\* process it asks wakes it with an uninitialized code, OK also when the copy
\* failed: no copy fails, or no two processes send to each other so.  And a
\* notification comes from whom it likes, and is nothing to a rcvrqst: those
\* who may be notified receive from ANY only.
THEOREM ResultsTrue ==
    ASSUME NoticesFit, ~MayFault \/ NoCrossing
    PROVE  Spec => []CallsReport
<1> DEFINE Kept == \A q \in Procs : SendKept(q) /\ ReceiveKept(q)
<1>1. Init => Kept
  BY DEF Init, SendKept, ReceiveKept, NoCall, Sleeping
<1>2. IInv /\ IInv' /\ MsgInv /\ Kept /\ [Next]_vars => Kept'
  <2> SUFFICES ASSUME IInv, IInv', MsgInv, Kept, [Next]_vars, NEW q \in Procs
               PROVE  (SendKept(q) /\ ReceiveKept(q))'
    OBVIOUS
  <2>1. Known(q) /\ Known(q)'
    BY KnownFacts, PTL
  <2>2. Shaped(q) /\ Carries(q) /\ Entitled(q)
    BY StepSeen DEF AllSeen, MsgInv
  <2>3. QED
    BY <2>1, <2>2, SendStaysKept, ReceiveStaysKept
<1>3. Kept => CallsReport
  BY DEF SendKept, ReceiveKept, CallsReport, SendReports, ReceiveReports
<1>4. QED
  BY <1>1, <1>2, <1>3, Invariance, MsgInvariance, PTL DEF Spec

\* A sendrec that returns OK has delivered its request once and brings the reply
\* of the process it asked, which comes after the request: where no copy fails,
\* nobody sends to a process that asks it for a reply, and nobody notifies in
\* the name of the process that is asked.
THEOREM SendrecsTrue ==
    ASSUME ~MayFault, NoCrossing, NoImpostors
    PROVE  Spec => []SendrecReports
<1> DEFINE Kept == \A q \in Procs : SendrecKept(q)
<1>1. Init => Kept
  BY DEF Init, SendrecKept, NoCall
<1>2. IInv /\ IInv' /\ MsgInv /\ MsgInv' /\ Kept /\ [Next]_vars => Kept'
  <2> SUFFICES ASSUME IInv, IInv', MsgInv, MsgInv', Kept, [Next]_vars, NEW q \in Procs
               PROVE  SendrecKept(q)'
    OBVIOUS
  <2>1. Known(q) /\ Known(q)'
    BY KnownFacts, PTL
  <2>2. Shaped(q) /\ Carries(q) /\ Entitled(q) /\ Carries(q)'
    BY StepSeen DEF AllSeen, MsgInv
  <2>3. ASSUME NEW d \in Procs, NEW k \in {0, 1}, EndsCrossed(q, d, k)
        PROVE  FALSE
    <3>1. Known(d) /\ Carries(d) /\ Entitled(d)
      BY KnownFacts DEF MsgInv
    <3>2. "sendrec" \in DvkAllowed[q] /\ d \in IpcTo[q] /\ "SENDING" \in proc[d].rts
          /\ proc[d].sendto = q
      BY <2>3 DEF EndsCrossed, Enters
    <3>3. QED
      BY <3>1, <3>2, NotCrossed
  <2>4. QED
    BY <2>1, <2>2, <2>3, SendrecStaysKept
<1>3. Kept => SendrecReports
  BY DEF SendrecKept, SendrecReports
<1>4. QED
  BY <1>1, <1>2, <1>3, Invariance, MsgInvariance, PTL DEF Spec

-----------------------------------------------------------------------------
(* The queues of senders: what the operations on a doubly linked list do.    *)

\* In every ring, the links back undo the links forward.
Circular(l) == \A e \in Links : l.prev[l.next[e]] = e /\ l.next[l.prev[e]] = e

LEMMA LinkFacts ==
    /\ \A p \in Procs : ListHead(p) \in Links /\ ListNode(p) \in Links
    /\ \A p, q \in Procs : ListHead(p) # ListNode(q)
    /\ \A p, q \in Procs : (ListNode(p) = ListNode(q) => p = q) /\ (ListHead(p) = ListHead(q) => p = q)
    /\ \A e \in Links : \E p \in Procs : e = ListHead(p) \/ e = ListNode(p)
    /\ \A p \in Procs : QueueOf(ListHead(p)) = p /\ QueueOf(ListNode(p)) = proc[p].sendto
<1>1. \A p \in Procs : ListHead(p) = <<"p_list", p>> /\ ListNode(p) = <<"p_link", p>>
  BY DEF ListHead, ListNode
<1>2. \A e \in Links : \E p \in Procs : e = <<"p_list", p>> \/ e = <<"p_link", p>>
  BY DEF Links
<1>3. QED
  BY <1>1, <1>2 DEF Links, QueueOf

\* list_del_init takes a node out of the ring it is in, and closes the ring.
LEMMA UnlinkFacts ==
    ASSUME NEW l \in ListStructs, Circular(l), NEW n \in Links, NEW m, m = ListDelInit(l, n)
    PROVE  /\ m \in ListStructs /\ Circular(m) /\ m.next[n] = n
           /\ \A e \in Links \ {n} :
                 m.next[e] = IF l.next[e] = n THEN l.next[n] ELSE l.next[e]
<1> PICK a : a = l.next[n]
  OBVIOUS
<1> PICK b : b = l.prev[n]
  OBVIOUS
<1>1. a \in Links /\ b \in Links /\ l.next[b] = n /\ l.prev[a] = n
      /\ l.next \in [Links -> Links] /\ l.prev \in [Links -> Links]
  BY DEF ListStructs, Circular
<1>2. m = [next |-> [l.next EXCEPT ![b] = a, ![n] = n],
           prev |-> [l.prev EXCEPT ![a] = b, ![n] = n]]
  BY DEF ListDelInit
<1>3. /\ m \in ListStructs
      /\ \A e \in Links : m.next[e] = IF e = n THEN n ELSE IF e = b THEN a ELSE l.next[e]
      /\ \A e \in Links : m.prev[e] = IF e = n THEN n ELSE IF e = a THEN b ELSE l.prev[e]
  BY <1>1, <1>2 DEF ListStructs
<1>4. \A e \in Links : l.next[e] = n => e = b
  BY DEF Circular
<1>5. \A e \in Links : l.prev[e] = n => e = a
  BY DEF Circular
<1>6. Circular(m)
  <2> SUFFICES ASSUME NEW e \in Links PROVE m.prev[m.next[e]] = e /\ m.next[m.prev[e]] = e
    BY DEF Circular
  <2>1. l.next[e] \in Links /\ l.prev[e] \in Links
    BY <1>1
  <2>2. l.prev[l.next[e]] = e /\ l.next[l.prev[e]] = e
    BY DEF Circular
  <2>3. QED
    BY <1>1, <1>3, <1>4, <1>5, <2>1, <2>2
<1>7. QED
  BY <1>1, <1>3, <1>4, <1>6

\* A node that is in no ring is appended at the end of the ring of a head.
LEMMA AppendedFacts ==
    ASSUME NEW l \in ListStructs, Circular(l), NEW p \in Procs, NEW d \in Procs,
           l.next[ListNode(p)] = ListNode(p), NEW m, m = Enqueue(l, p, d)
    PROVE  /\ m \in ListStructs /\ Circular(m) /\ m.next[ListNode(p)] = ListHead(d)
           /\ \A e \in Links \ {ListNode(p)} :
                 m.next[e] = IF l.next[e] = ListHead(d) THEN ListNode(p) ELSE l.next[e]
<1> PICK n : n = ListNode(p)
  OBVIOUS
<1> PICK h : h = ListHead(d)
  OBVIOUS
<1> PICK t : t = l.prev[h]
  OBVIOUS
<1>1. n \in Links /\ h \in Links /\ n # h
  BY LinkFacts
<1>2. /\ t \in Links /\ l.next[t] = h /\ l.next[n] = n /\ l.prev[n] = n /\ t # n
      /\ l.next \in [Links -> Links] /\ l.prev \in [Links -> Links]
  BY <1>1 DEF ListStructs, Circular
<1>3. InitListHead(l, n) = l
  BY <1>1, <1>2 DEF InitListHead, ListStructs
<1>4. m = [next |-> [l.next EXCEPT ![n] = h, ![t] = n],
           prev |-> [l.prev EXCEPT ![h] = n, ![n] = t]]
  BY <1>3 DEF Enqueue, ListAddTail
<1>5. /\ m \in ListStructs
      /\ \A e \in Links : m.next[e] = IF e = t THEN n ELSE IF e = n THEN h ELSE l.next[e]
      /\ \A e \in Links : m.prev[e] = IF e = n THEN t ELSE IF e = h THEN n ELSE l.prev[e]
  BY <1>1, <1>2, <1>4 DEF ListStructs
<1>6. \A e \in Links : (l.next[e] = h => e = t) /\ (l.next[e] = n => e = n)
  BY <1>2 DEF Circular
<1>7. \A e \in Links : (l.prev[e] = t => e = h) /\ (l.prev[e] = n => e = n)
  BY <1>2 DEF Circular
<1>8. Circular(m)
  <2> SUFFICES ASSUME NEW e \in Links PROVE m.prev[m.next[e]] = e /\ m.next[m.prev[e]] = e
    BY DEF Circular
  <2>1. l.next[e] \in Links /\ l.prev[e] \in Links
    BY <1>2
  <2>2. l.prev[l.next[e]] = e /\ l.next[l.prev[e]] = e
    BY DEF Circular
  <2>3. QED
    BY <1>1, <1>2, <1>5, <1>6, <1>7, <2>1, <2>2
<1>9. QED
  BY <1>1, <1>2, <1>5, <1>6, <1>8

\* A call that may not wait appends its node and takes it out again.
LEMMA PassesFacts ==
    ASSUME NEW l \in ListStructs, Circular(l), NEW p \in Procs, NEW d \in Procs,
           l.next[ListNode(p)] = ListNode(p)
    PROVE  LET m == ListDelInit(Enqueue(l, p, d), ListNode(p))
           IN  Circular(m) /\ \A e \in Links : m.next[e] = l.next[e]
<1> PICK n : n = ListNode(p)
  OBVIOUS
<1> PICK k : k = Enqueue(l, p, d)
  OBVIOUS
<1> PICK m : m = ListDelInit(k, n)
  OBVIOUS
<1>1. n \in Links /\ n # ListHead(d)
  BY LinkFacts
<1>2. /\ k \in ListStructs /\ Circular(k) /\ k.next[n] = ListHead(d)
      /\ \A e \in Links \ {n} : k.next[e] = IF l.next[e] = ListHead(d) THEN n ELSE l.next[e]
  BY AppendedFacts
<1>3. /\ Circular(m) /\ m.next[n] = n
      /\ \A e \in Links \ {n} : m.next[e] = IF k.next[e] = n THEN k.next[n] ELSE k.next[e]
  <2>1. k \in ListStructs /\ Circular(k)
    BY <1>2
  <2>2. QED
    BY <1>1, <2>1, UnlinkFacts
<1>4. \A e \in Links : l.next[e] = n => e = n
  BY <1>1 DEF Circular
<1>5. QED
  BY <1>1, <1>2, <1>3, <1>4

-----------------------------------------------------------------------------
(* What a step does to the queues. *)

Sending(q) == "SENDING" \in proc[q].rts
SameSend(q) ==
    /\ Sending(q)' <=> Sending(q)
    /\ Sending(q) => proc'[q].sendto = proc[q].sendto /\ call'[q] = call[q]
OthersSend(p) == \A q \in Procs \ {p} : SameSend(q)

\* Nobody begins or ends a send, ...
Quiet == lists' = lists /\ \A q \in Procs : SameSend(q)

\* ... p blocks in a send to d, or begins one that may not block, ...
Joins(p, d) ==
    /\ lists' = Enqueue(lists, p, d) /\ Unlocked(d) /\ p # d /\ OthersSend(p)
    /\ ~Sending(p) /\ Sending(p)' /\ proc'[p].sendto = d /\ call'[p].both
PassesBy(p, d) ==
    /\ lists' = ListDelInit(Enqueue(lists, p, d), ListNode(p)) /\ OthersSend(p)
    /\ ~Sending(p) /\ ~Sending(p)'

\* ... x ends one, while nobody but itself walks the queue of r, ...
Quits(x, r) ==
    /\ lists' = ListDelInit(lists, ListNode(x)) /\ OthersSend(x)
    /\ Sending(x) /\ ~Sending(x)' /\ proc[x].sendto = r
    /\ pc[r] # "scan" \/ pc'[r] # "scan"

\* ... or p unlinks an x that it finds not to send to it.
Refuses(p, x) ==
    /\ lists' = ListDelInit(lists, ListNode(x)) /\ \A q \in Procs : SameSend(q)
    /\ Visits(p, x) /\ ~SendsTo(proc[x], p)

QueueStep ==
    \/ Quiet
    \/ \E p, d \in Procs : Joins(p, d) \/ PassesBy(p, d) \/ Quits(p, d) \/ Refuses(p, d)

\* A process that blocks in a send holds the mutex of its peer to leave it.
HoldsBoth == \A q \in Procs : Sending(q) => call[q].both

LEMMA OtherSends ==
    ASSUME NEW q, proc'[q] = proc[q], call'[q] = call[q]
    PROVE  SameSend(q)
BY DEF SameSend, Sending

LEMMA PeerSends ==
    ASSUME NEW q, call'[q] = call[q], proc'[q].sendto = proc[q].sendto,
           \/ proc'[q].rts = proc[q].rts
           \/ proc'[q].rts = proc[q].rts \ {"RECEIVING"}
    PROVE  SameSend(q)
BY DEF SameSend, Sending

LEMMA AwakeSends ==
    ASSUME ProcsFit, NEW p \in Procs, pc[p] \notin Sleeping
    PROVE  ~Sending(p)
BY RunningFits DEF Sending

LEMMA AwakeSendsNext ==
    ASSUME ProcsFit', NEW p \in Procs, pc'[p] \notin Sleeping
    PROVE  ~Sending(p)'
BY DEF Sending, ProcsFit, Fits

LEMMA DoneSends ==
    ASSUME ProcsFit, ProcsFit', NEW p \in Procs, NEW rc, Finish(p, rc)
    PROVE  ~Sending(p)'
<1>1. pc'[p] = "done"
  BY DEF Finish, Goto, ProcsFit
<1>2. QED
  BY <1>1, AwakeSendsNext DEF Sleeping

\* Only p moves, and neither before nor after it is sending.
LEMMA OneQuiet ==
    ASSUME NEW p \in Procs, lists' = lists, ~Sending(p), ~Sending(p)',
           \A q \in Procs \ {p} : proc'[q] = proc[q] /\ call'[q] = call[q]
    PROVE  Quiet
<1>1. SameSend(p)
  BY DEF SameSend
<1>2. \A q \in Procs \ {p} : SameSend(q)
  BY OtherSends
<1>3. QED
  BY <1>1, <1>2 DEF Quiet

\* Only p and a peer d move.
LEMMA PeerQuiet ==
    ASSUME ProcsFit, NEW p \in Procs, NEW d \in Procs, p # d, ~Sending(p),
           NEW A, NEW B, proc' = [proc EXCEPT ![p] = A, ![d] = B],
           NEW c, call' = [call EXCEPT ![p] = c],
           B.sendto = proc[d].sendto,
           B.rts = proc[d].rts \/ B.rts = proc[d].rts \ {"RECEIVING"}
    PROVE  OthersSend(p) /\ (~Sending(p)' => \A q \in Procs : SameSend(q))
<1>1. ASSUME NEW q \in Procs, q # p, q # d PROVE SameSend(q)
  <2>1. proc'[q] = proc[q] /\ call'[q] = call[q]
    BY <1>1 DEF ProcsFit
  <2>2. QED
    BY <2>1, OtherSends
<1>2. SameSend(d)
  <2>1. proc'[d] = B /\ call'[d] = call[d]
    BY DEF ProcsFit
  <2>2. QED
    BY <2>1, PeerSends
<1>3. ~Sending(p)' => SameSend(p)
  BY DEF SameSend
<1>4. QED
  BY <1>1, <1>2, <1>3 DEF OthersSend

LEMMA SendDeliverQueues ==
    ASSUME ProcsFit, ProcsFit', NEW p \in Procs, NEW d \in Procs, SendDeliver(p, d)
    PROVE  Quiet
<1>1. /\ p # d /\ proc[d] \in Descriptors /\ ~Sending(p) /\ lists' = lists
      /\ Calling(p, "send", d, "none", FALSE)
  BY PeerDiffers, AwakeSends DEF SendDeliver, EnterTo, Enter, Sleeping, ProcsFit
<1>2. CASE Finish(p, "FAULT") /\ proc' = [proc EXCEPT ![p].rcode = "OK"]
  BY <1>1, <1>2, DoneSends, OneQuiet DEF Calling, ProcsFit
<1>3. CASE /\ Finish(p, "OK")
           /\ proc' = [proc EXCEPT
                ![p] = IF "ATOMIC" \in proc[d].misc
                       THEN Clear([@ EXCEPT !.rcode = "OK"], "NOMIGRATE")
                       ELSE [@ EXCEPT !.rcode = "OK"],
                ![d] = Wake(EndReceive(Clear(@, "ATOMIC")), "OK")]
  <2> DEFINE X == Clear(proc[d], "ATOMIC")
             B == Wake(EndReceive(X), "OK")
  <2>1. X \in Descriptors /\ X.rts = proc[d].rts /\ X.sendto = proc[d].sendto
    BY <1>1, MiscFacts, MiscFields DEF MiscFlags
  <2>2. B.rts = proc[d].rts \ {"RECEIVING"} /\ B.sendto = proc[d].sendto
    <3> HIDE DEF X
    <3>1. QED
      BY <2>1, ReceiverFields DEF Rcodes
  <2>3. \E A : proc' = [proc EXCEPT ![p] = A, ![d] = B]
    BY <1>1, <1>3 DEF ProcsFit
  <2> HIDE DEF B
  <2>4. ~Sending(p)'
    BY <1>3, DoneSends
  <2>5. QED
    BY <1>1, <2>2, <2>3, <2>4, PeerQuiet DEF Quiet, Calling
<1>4. QED
  BY <1>2, <1>3 DEF SendDeliver

LEMMA SendBlockQueues ==
    ASSUME ProcsFit, NEW p \in Procs, NEW d \in Procs, SendBlock(p, d)
    PROVE  Joins(p, d)
<1> DEFINE S == [Set(proc[p], "SENDING") EXCEPT !.sendto = d]
<1>1. /\ p # d /\ proc[p] \in Descriptors /\ ~Sending(p) /\ Unlocked(d)
      /\ lists' = Enqueue(lists, p, d) /\ proc' = [proc EXCEPT ![p] = Down(S)]
  BY PeerDiffers, AwakeSends DEF SendBlock, EnterTo, Enter, Sleeping, ProcsFit
<1>2. PICK t : call' = [call EXCEPT ![p] = [op |-> "send", peer |-> d, timeout |-> t, both |-> TRUE]]
  BY DEF SendBlock, Calling
<1>3. S \in Descriptors /\ S.rts = proc[p].rts \cup {"SENDING"} /\ S.sendto = d
  BY <1>1 DEF Set, Descriptors, RtsFlags
<1>4. Down(S).rts = proc[p].rts \cup {"SENDING"} /\ Down(S).sendto = d
  <2> HIDE DEF S
  <2>1. QED
    BY <1>3 DEF Down, Descriptors
<1> HIDE DEF S
<1>5. proc'[p] = Down(S) /\ call'[p].both
  BY <1>1, <1>2 DEF ProcsFit
<1>6. Sending(p)' /\ proc'[p].sendto = d
  BY <1>4, <1>5 DEF Sending
<1>7. OthersSend(p)
  <2>1. \A q \in Procs \ {p} : proc'[q] = proc[q] /\ call'[q] = call[q]
    BY <1>1, <1>2 DEF ProcsFit
  <2>2. QED
    BY <2>1, OtherSends DEF OthersSend
<1>8. QED
  BY <1>1, <1>5, <1>6, <1>7 DEF Joins

LEMMA SendAgainQueues ==
    ASSUME ProcsFit, ProcsFit', NEW p \in Procs, NEW d \in Procs, SendAgain(p, d)
    PROVE  PassesBy(p, d)
<1>1. ~Sending(p) /\ ~Sending(p)'
  BY AwakeSends, DoneSends DEF SendAgain, EnterTo, Enter, Sleeping
<1>2. \A q \in Procs \ {p} : proc'[q] = proc[q] /\ call'[q] = call[q]
  BY DEF SendAgain, Calling, ProcsFit
<1>3. QED
  BY <1>1, <1>2, OtherSends DEF PassesBy, OthersSend, SendAgain

\* A sender leaves wait_event_* with its flag still set, ...
LEMMA QuitsQueue ==
    ASSUME ProcsFit, ProcsFit', HoldsBoth, NEW p \in Procs, Carries(p), Entitled(p),
           NEW op, Leaves(p, op), Sending(p), NEW rc, Finish(p, rc),
           lists' = ListDelInit(lists, ListNode(p)), call' = call,
           \A q \in Procs \ {p} : proc'[q] = proc[q]
    PROVE  \E d \in Procs : Quits(p, d)
<1>1. /\ ~Sending(p)' /\ proc[p].sendto = call[p].peer /\ Unlocked(call[p].peer)
      /\ call[p].op \in {"send", "sendrec"} /\ pc[p] \in Sleeping
  BY DoneSends DEF HoldsBoth, Leaves, Carries, Sending, ProcsFit, Fits
<1>2. call[p].peer \in IpcTo[p] /\ pc[call[p].peer] # "scan"
  BY <1>1 DEF Entitled, Unlocked
<1>3. call[p].peer \in Procs
  BY <1>2, PeerDiffers
<1>4. OthersSend(p)
  BY OtherSends DEF OthersSend
<1>5. Quits(p, call[p].peer)
  BY <1>1, <1>2, <1>4 DEF Quits
<1>6. QED
  BY <1>3, <1>5

\* ... or after a receiver took it.
LEMMA LeavesQuietly ==
    ASSUME ProcsFit, ProcsFit', NEW p \in Procs, ~Sending(p), NEW rc, Finish(p, rc),
           lists' = lists, call' = call, \A q \in Procs \ {p} : proc'[q] = proc[q]
    PROVE  Quiet
BY DoneSends, OneQuiet

LEMMA SendDoneQueues ==
    ASSUME ProcsFit, ProcsFit', HoldsBoth, NEW p \in Procs, Carries(p), Entitled(p), SendDone(p)
    PROVE  QueueStep
<1>1. /\ Leaves(p, "send") /\ Finish(p, SleepResult(p)) /\ call' = call
      /\ \A q \in Procs \ {p} : proc'[q] = proc[q]
      /\ lists' = IF SleepResult(p) # "OK" /\ Sending(p)
                  THEN ListDelInit(lists, ListNode(p)) ELSE lists
  BY DEF SendDone, Sending, ProcsFit
<1>2. SleepResult(p) = "OK" => ~Sending(p)
  BY <1>1, LeavesFits DEF Sending
<1>3. QED
  BY <1>1, <1>2, QuitsQueue, LeavesQuietly DEF QueueStep

LEMMA SendrecDoneQueues ==
    ASSUME ProcsFit, ProcsFit', HoldsBoth, NEW p \in Procs, Carries(p), Entitled(p), SendrecDone(p)
    PROVE  QueueStep
<1>1. /\ Leaves(p, "sendrec") /\ Finish(p, SleepResult(p)) /\ call' = call
      /\ \A q \in Procs \ {p} : proc'[q] = proc[q]
      /\ lists' = IF SleepResult(p) # "OK" /\ call[p].both /\ Sending(p)
                  THEN ListDelInit(lists, ListNode(p)) ELSE lists
  BY DEF SendrecDone, Sending, ProcsFit
<1>2. (SleepResult(p) = "OK" => ~Sending(p)) /\ (Sending(p) => call[p].both)
  BY <1>1, LeavesFits DEF Sending, HoldsBoth
<1>3. QED
  BY <1>1, <1>2, QuitsQueue, LeavesQuietly DEF QueueStep

\* A step of p alone that begins, goes on or ends outside wait_event_*.
LEMMA AwakeQueues ==
    ASSUME ProcsFit, ProcsFit', NEW p \in Procs,
           \/ \E s \in Procs \cup {ANY} : ReceiveStart(p, s)
           \/ NotifyNone(p) \/ NotifyLoad(p) \/ NotifyStore(p) \/ ReceiveLock(p)
           \/ RcvrqstStart(p) \/ ScanInvert(p) \/ ScanSkip(p) \/ ScanWild(p)
           \/ ReceiveAgain(p) \/ Return(p)
           \/ \E d \in Procs : ReplyRefuse(p, d)
    PROVE  Quiet
<1>1. lists' = lists /\ \A q \in Procs \ {p} : proc'[q] = proc[q] /\ call'[q] = call[q]
  BY DEF ReceiveStart, NotifyNone, NotifyLoad, NotifyStore, ReceiveLock, RcvrqstStart,
         ScanInvert, ScanSkip, ScanWild, ReceiveAgain, Return, ReplyRefuse, Calling, ProcsFit
<1>2. pc[p] \notin Sleeping
  BY DEF ReceiveStart, NotifyNone, NotifyLoad, NotifyStore, ReceiveLock, RcvrqstStart,
         ScanInvert, ScanSkip, Visits, ScanWild, ReceiveAgain, AtEnd, Return, ReplyRefuse,
         EnterTo, Enter, Sleeping
<1>3. pc'[p] \notin Sleeping
  BY DEF ReceiveStart, NotifyNone, NotifyLoad, NotifyStore, ReceiveLock, RcvrqstStart,
         ScanInvert, ScanSkip, ScanWild, ReceiveAgain, Return, ReplyRefuse, StartScan,
         Finish, Goto, Sleeping, ProcsFit
<1>4. QED
  BY <1>1, <1>2, <1>3, AwakeSends, AwakeSendsNext, OneQuiet

\* A receiver goes to sleep, or leaves it.
LEMMA ReceiverQueues ==
    ASSUME ProcsFit, ProcsFit', NEW p \in Procs,
           ReceiveBlock(p) \/ ReceiveDone(p) \/ RcvrqstDone(p)
    PROVE  Quiet
<1>1. lists' = lists /\ \A q \in Procs \ {p} : proc'[q] = proc[q] /\ call'[q] = call[q]
  BY DEF ReceiveBlock, ReceiveDone, RcvrqstDone, Calling, ProcsFit
<1>2. call[p].op \in {"receive", "rcvrqst"} /\ call'[p].op = call[p].op
  BY DEF ReceiveBlock, AtEnd, ReceiveDone, RcvrqstDone, Leaves, Calling, Receiving, ProcsFit, Fits
<1>3. ~Sending(p) /\ ~Sending(p)'
  BY <1>2 DEF ProcsFit, Fits, Sending
<1>4. QED
  BY <1>1, <1>3, OneQuiet

LEMMA TimerQueues ==
    ASSUME NEW p \in Procs, TimerExpires(p) \/ SignalArrives(p) \/ UNCHANGED vars
    PROVE  Quiet
BY OtherSends DEF TimerExpires, SignalArrives, vars, Quiet

LEMMA ScanRefuseQueues ==
    ASSUME NEW p \in Procs, NEW x \in Procs, ScanRefuse(p, x)
    PROVE  Refuses(p, x)
BY OtherSends DEF ScanRefuse, Refuses

LEMMA ScanTakeQueues ==
    ASSUME ProcsFit, NEW p \in Procs, NEW x \in Procs, ScanTake(p, x)
    PROVE  Quits(x, p)
<1> DEFINE A == IF call[p].op = "receive" /\ "ATOMIC" \in proc[x].misc
                THEN Mark(proc[p], "NOMIGRATE") ELSE proc[p]
<1>1. /\ pc[p] \in {"scan", "window"} /\ Sending(x) /\ proc[x].sendto = p
      /\ lists' = ListDelInit(lists, ListNode(x))
      /\ call' = call /\ proc[p] \in Descriptors /\ proc[x] \in Descriptors
  BY DEF ScanTake, Visits, SendsTo, Sending, ProcsFit
<1>2. ~Sending(p) /\ p # x
  BY <1>1, AwakeSends DEF Sleeping
<1>3. PICK rc \in {"OK", "FAULT"} :
         /\ proc' = [proc EXCEPT
                ![x] = Wake(EndSend(@), rc),
                ![p] = IF call[p].op = "receive" /\ "ATOMIC" \in proc[x].misc
                       THEN Mark(@, "NOMIGRATE") ELSE @]
         /\ Finish(p, rc)
  BY DEF ScanTake
<1> DEFINE B == Wake(EndSend(proc[x]), rc)
<1>4. proc' = [proc EXCEPT ![p] = A, ![x] = B]
  BY <1>2, <1>3 DEF ProcsFit
<1>5. A.rts = proc[p].rts /\ A.sendto = proc[p].sendto
  BY <1>1, MiscFacts, MiscFields DEF MiscFlags
<1>6. B.rts = proc[x].rts \ {"SENDING"}
  BY <1>1, SenderFields DEF Rcodes
<1> HIDE DEF A, B
<1>7. SameSend(p)
  BY <1>1, <1>2, <1>4, <1>5, PeerSends DEF ProcsFit
<1>8. \A q \in Procs \ {p, x} : proc'[q] = proc[q] /\ call'[q] = call[q]
  BY <1>1, <1>4 DEF ProcsFit
<1>9. OthersSend(x)
  BY <1>7, <1>8, OtherSends DEF OthersSend
<1>10. ~Sending(x)'
  BY <1>2, <1>4, <1>6 DEF Sending, ProcsFit
<1>11. pc'[p] # "scan"
  BY <1>3 DEF Finish, Goto, ProcsFit
<1>12. QED
  BY <1>1, <1>9, <1>10, <1>11 DEF Quits

LEMMA SendrecDeliverQueues ==
    ASSUME ProcsFit, ProcsFit', NEW p \in Procs, NEW d \in Procs, SendrecDeliver(p, d)
    PROVE  Quiet
<1> DEFINE X == Mark(proc[d], "NOMIGRATE")
           B == Wake(EndReceive(X), "OK")
           M == Mark(proc[p], "ATOMIC")
           S == [Set(M, "RECEIVING") EXCEPT !.getfrom = d]
<1>1. /\ p # d /\ proc[p] \in Descriptors /\ proc[d] \in Descriptors /\ ~Sending(p)
      /\ lists' = lists /\ d \in Procs
  BY PeerDiffers, AwakeSends DEF SendrecDeliver, EnterTo, Enter, Sleeping, ProcsFit
<1>2. X \in Descriptors /\ X.rts = proc[d].rts /\ X.sendto = proc[d].sendto
  BY <1>1, MiscFacts, MiscFields DEF MiscFlags
<1>3. B.rts = proc[d].rts \ {"RECEIVING"} /\ B.sendto = proc[d].sendto
  <2> HIDE DEF X
  <2>1. QED
    BY <1>2, ReceiverFields DEF Rcodes
<1>4. M \in Descriptors /\ M.rts = proc[p].rts
  BY <1>1, MiscFacts DEF MiscFlags
<1>5. S \in Descriptors /\ S.rts = proc[p].rts \cup {"RECEIVING"}
  <2> HIDE DEF M
  <2>1. QED
    BY <1>1, <1>4 DEF Set, Descriptors, RtsFlags
<1>6. Down(S).rts = proc[p].rts \cup {"RECEIVING"}
  <2> HIDE DEF S
  <2>1. QED
    BY <1>5 DEF Down, Descriptors
<1>7. PICK c : call' = [call EXCEPT ![p] = c]
  BY DEF SendrecDeliver, Calling
<1>8. CASE /\ proc' = [proc EXCEPT
                ![p] = Down([Set(Mark(@, "ATOMIC"), "RECEIVING") EXCEPT !.getfrom = d]),
                ![d] = Wake(EndReceive(Mark(@, "NOMIGRATE")), "OK")]
  <2>1. proc' = [proc EXCEPT ![p] = Down(S), ![d] = B]
    BY <1>1, <1>8 DEF ProcsFit
  <2> HIDE DEF B, S
  <2>2. ~Sending(p)'
    BY <1>1, <1>6, <2>1 DEF Sending, ProcsFit
  <2>3. QED
    BY <1>1, <1>3, <1>7, <2>1, <2>2, PeerQuiet DEF Quiet
<1>9. CASE /\ proc' = [proc EXCEPT
                ![p] = EndSend(EndReceive(Clear([@ EXCEPT !.rcode = "EAGAIN"], "ATOMIC"))),
                ![d] = Wake(EndReceive(Mark(@, "NOMIGRATE")), "OK")]
           /\ Finish(p, "EAGAIN")
  <2>1. \E A : proc' = [proc EXCEPT ![p] = A, ![d] = B]
    BY <1>1, <1>9 DEF ProcsFit
  <2> HIDE DEF B
  <2>2. ~Sending(p)'
    BY <1>9, DoneSends
  <2>3. QED
    BY <1>1, <1>3, <1>7, <2>1, <2>2, PeerQuiet DEF Quiet
<1>10. QED
  BY <1>8, <1>9 DEF SendrecDeliver

LEMMA SendrecFaultQueues ==
    ASSUME ProcsFit, ProcsFit', NEW p \in Procs, NEW d \in Procs, SendrecFault(p, d)
    PROVE  Quiet
<1> DEFINE W == Wake(EndReceive(proc[d]), "FAULT")
           B == Clear(W, "NOMIGRATE")
<1>1. /\ p # d /\ proc[d] \in Descriptors /\ ~Sending(p) /\ lists' = lists
      /\ "RECEIVING" \in proc[d].rts
  BY PeerDiffers, AwakeSends DEF SendrecFault, EnterTo, Enter, Sleeping, Waits, ProcsFit
<1>2. /\ W \in Descriptors /\ W.rts = proc[d].rts \ {"RECEIVING"}
      /\ W.sendto = proc[d].sendto
  BY <1>1, ReceiverWoken, ReceiverFields DEF Rcodes
<1>3. B.rts = proc[d].rts \ {"RECEIVING"} /\ B.sendto = proc[d].sendto
  <2> HIDE DEF W
  <2>1. QED
    BY <1>2, MiscFacts, MiscFields DEF MiscFlags
<1>4. PICK c : call' = [call EXCEPT ![p] = c]
  BY DEF SendrecFault, Calling
<1>5. \E A : proc' = [proc EXCEPT ![p] = A, ![d] = B]
  BY <1>1 DEF SendrecFault, ProcsFit
<1>6. ~Sending(p)'
  BY DoneSends DEF SendrecFault
<1> HIDE DEF B
<1>7. QED
  BY <1>1, <1>3, <1>4, <1>5, <1>6, PeerQuiet DEF Quiet

LEMMA SendrecTakeQueues ==
    ASSUME NoCrossing, IInv, MsgInv, NEW p \in Procs, NEW d \in Procs, SendrecTake(p, d)
    PROVE  FALSE
<1>1. /\ "SENDING" \in proc[d].rts /\ proc[d].sendto = p
      /\ "sendrec" \in DvkAllowed[p] /\ d \in IpcTo[p]
  BY DEF SendrecTake, SendsTo, EnterTo, Enter
<1>2. Known(d) /\ Carries(d) /\ Entitled(d)
  BY KnownFacts DEF MsgInv
<1>3. QED
  BY <1>1, <1>2, NotCrossed

LEMMA SendrecBlockQueues ==
    ASSUME ProcsFit, NEW p \in Procs, NEW d \in Procs, SendrecBlock(p, d)
    PROVE  Joins(p, d)
<1> DEFINE M == Mark(proc[p], "ATOMIC")
           S == [M EXCEPT !.rts = RtsFlags, !.getfrom = d, !.sendto = d]
           B == Clear(proc[d], "NOMIGRATE")
<1>1. /\ p # d /\ proc[p] \in Descriptors /\ proc[d] \in Descriptors /\ ~Sending(p)
      /\ Unlocked(d) /\ lists' = Enqueue(lists, p, d)
  BY PeerDiffers, AwakeSends
     DEF SendrecBlock, QueuesRequest, EnterTo, Enter, Sleeping, ProcsFit
<1>2. PICK t : call' = [call EXCEPT ![p] = [op |-> "sendrec", peer |-> d, timeout |-> t, both |-> TRUE]]
  BY DEF SendrecBlock, Calling
<1>3. M \in Descriptors
  BY <1>1, MiscFacts DEF MiscFlags
<1>4. S \in Descriptors /\ S.rts = RtsFlags /\ S.sendto = d
  <2> HIDE DEF M
  <2>1. QED
    BY <1>3 DEF Descriptors, RtsFlags
<1>5. Down(S).rts = RtsFlags /\ Down(S).sendto = d
  <2> HIDE DEF S
  <2>1. QED
    BY <1>4 DEF Down, Descriptors
<1>6. B.rts = proc[d].rts /\ B.sendto = proc[d].sendto
  BY <1>1, MiscFacts, MiscFields DEF MiscFlags
<1>7. proc' = [proc EXCEPT ![p] = Down(S), ![d] = B]
  BY <1>1 DEF SendrecBlock, ProcsFit
<1> HIDE DEF B, S
<1>8. OthersSend(p)
  BY <1>1, <1>2, <1>6, <1>7, PeerQuiet
<1>9. proc'[p] = Down(S) /\ call'[p].both
  BY <1>1, <1>2, <1>7 DEF ProcsFit
<1>10. Sending(p)' /\ proc'[p].sendto = d
  BY <1>5, <1>9 DEF Sending, RtsFlags
<1>11. QED
  BY <1>1, <1>8, <1>9, <1>10 DEF Joins

LEMMA SendrecAgainQueues ==
    ASSUME ProcsFit, ProcsFit', NEW p \in Procs, NEW d \in Procs, SendrecAgain(p, d)
    PROVE  PassesBy(p, d)
<1> DEFINE B == Clear(proc[d], "NOMIGRATE")
<1>1. p # d /\ proc[d] \in Descriptors /\ ~Sending(p)
  BY PeerDiffers, AwakeSends
     DEF SendrecAgain, QueuesRequest, EnterTo, Enter, Sleeping, ProcsFit
<1>2. PICK c : call' = [call EXCEPT ![p] = c]
  BY DEF SendrecAgain, Calling
<1>3. B.rts = proc[d].rts /\ B.sendto = proc[d].sendto
  BY <1>1, MiscFacts, MiscFields DEF MiscFlags
<1>4. \E A : proc' = [proc EXCEPT ![p] = A, ![d] = B]
  BY <1>1 DEF SendrecAgain, ProcsFit
<1> HIDE DEF B
<1>5. OthersSend(p)
  BY <1>1, <1>2, <1>3, <1>4, PeerQuiet
<1>6. ~Sending(p)'
  BY DoneSends DEF SendrecAgain
<1>7. QED
  BY <1>1, <1>5, <1>6 DEF PassesBy, SendrecAgain

LEMMA ReplyQueues ==
    ASSUME ProcsFit, ProcsFit', NEW p \in Procs, NEW d \in Procs, Reply(p, d)
    PROVE  Quiet
<1> DEFINE B == Wake(EndReceive(proc[d]), "OK")
<1>1. /\ p # d /\ proc[d] \in Descriptors /\ ~Sending(p) /\ lists' = lists
      /\ Calling(p, "reply", d, "none", FALSE)
  BY PeerDiffers, AwakeSends DEF Reply, EnterTo, Enter, Sleeping, ProcsFit
<1>2. B.rts = proc[d].rts \ {"RECEIVING"} /\ B.sendto = proc[d].sendto
  BY <1>1, ReceiverFields DEF Rcodes
<1>3. ~Sending(p)'
  BY DoneSends DEF Reply
<1>4. CASE proc' = [proc EXCEPT ![p].rcode = "OK"]
  BY <1>1, <1>3, <1>4, OneQuiet DEF Calling, ProcsFit
<1>5. CASE proc' = [proc EXCEPT ![p].rcode = "OK", ![d] = Wake(EndReceive(@), "OK")]
  <2>1. \E A : proc' = [proc EXCEPT ![p] = A, ![d] = B]
    BY <1>1, <1>5 DEF ProcsFit
  <2> HIDE DEF B
  <2>2. QED
    BY <1>1, <1>2, <1>3, <2>1, PeerQuiet DEF Quiet, Calling
<1>6. QED
  BY <1>4, <1>5 DEF Reply

\* A notification built in a descriptor, or left pending in it.
LEMMA NotifiedSends ==
    ASSUME NEW d \in Descriptors, NEW s \in Messages, NEW i \in Procs
    PROVE  /\ Notified(d, s).rts = d.rts \ {"RECEIVING"} /\ Notified(d, s).sendto = d.sendto
           /\ Pend(d, i).rts = d.rts /\ Pend(d, i).sendto = d.sendto
<1> DEFINE X == [d EXCEPT !.message = s]
           Y == Mark(X, "NOTIFY")
<1>1. X \in Descriptors /\ X.rts = d.rts /\ X.sendto = d.sendto
  BY DEF Descriptors, Messages
<1>2. Y \in Descriptors /\ Y.rts = d.rts /\ Y.sendto = d.sendto
  <2> HIDE DEF X
  <2>1. QED
    BY <1>1, MiscFacts, MiscFields DEF MiscFlags
<1>3. Notified(d, s) = Wake(EndReceive(Y), "OK")
  BY DEF Notified
<1> HIDE DEF Y
<1>4. QED
  BY <1>2, <1>3, ReceiverFields DEF Rcodes, Pend, Descriptors

LEMMA NotifyQueues ==
    ASSUME ProcsFit, ProcsFit', NEW p \in Procs, NEW s \in Procs, NEW d \in Procs,
           Notify(p, s, d)
    PROVE  Quiet
<1> DEFINE B == IF Waits(proc[d], s) THEN Notified(proc[d], s) ELSE Pend(proc[d], p)
<1>1. /\ p # d /\ proc[d] \in Descriptors /\ ~Sending(p) /\ lists' = lists
      /\ Calling(p, "notify", d, "none", FALSE)
  BY PeerDiffers, AwakeSends DEF Notify, EnterTo, Enter, Sleeping, ProcsFit
<1>2. /\ B.sendto = proc[d].sendto
      /\ B.rts = proc[d].rts \/ B.rts = proc[d].rts \ {"RECEIVING"}
  BY <1>1, NotifiedSends DEF Messages
<1>3. \E A : proc' = [proc EXCEPT ![p] = A, ![d] = B]
  BY <1>1 DEF Notify, ProcsFit
<1>4. ~Sending(p)'
  BY DoneSends DEF Notify
<1> HIDE DEF B
<1>5. QED
  BY <1>1, <1>2, <1>3, <1>4, PeerQuiet DEF Quiet, Calling

\* The thread of d does not step.
LEMMA PeerOnlyQuiet ==
    ASSUME ProcsFit, NEW d \in Procs, NEW B, proc' = [proc EXCEPT ![d] = B],
           call' = call, lists' = lists, B.sendto = proc[d].sendto,
           B.rts = proc[d].rts \/ B.rts = proc[d].rts \ {"RECEIVING"}
    PROVE  Quiet
<1>1. \A q \in Procs \ {d} : proc'[q] = proc[q]
  BY DEF ProcsFit
<1>2. proc'[d] = B
  BY DEF ProcsFit
<1>3. QED
  BY <1>1, <1>2, OtherSends, PeerSends DEF Quiet

LEMMA HdwNotifyQueues ==
    ASSUME ProcsFit, NEW d \in Procs, HdwNotify(d)
    PROVE  Quiet
<1> DEFINE B == IF Waits(proc[d], HARDWARE) THEN Notified(proc[d], HARDWARE) ELSE Pend(proc[d], d)
<1>1. proc[d] \in Descriptors /\ proc' = [proc EXCEPT ![d] = B] /\ call' = call /\ lists' = lists
  BY DEF HdwNotify, ProcsFit
<1>2. /\ B.sendto = proc[d].sendto
      /\ B.rts = proc[d].rts \/ B.rts = proc[d].rts \ {"RECEIVING"}
  BY <1>1, NotifiedSends DEF Messages
<1> HIDE DEF B
<1>3. QED
  BY <1>1, <1>2, PeerOnlyQuiet

LEMMA WakeUpQueues ==
    ASSUME ProcsFit, NEW d \in Procs, WakeUp(d)
    PROVE  Quiet
<1> DEFINE E == EndReceive(proc[d])
           W == IF E.rts = {} THEN Wake(E, "WOKENUP") ELSE Mark(E, "WOKENUP")
           B == IF "RECEIVING" \in proc[d].rts /\ proc[d].getfrom = ANY
                THEN W ELSE Mark(proc[d], "WOKENUP")
<1>1. proc[d] \in Descriptors /\ proc' = [proc EXCEPT ![d] = B] /\ call' = call /\ lists' = lists
  BY DEF WakeUp, ProcsFit
<1>2. E \in Descriptors /\ E.rts = proc[d].rts \ {"RECEIVING"} /\ E.sendto = proc[d].sendto
  BY <1>1, EndReceiveFacts, EndReceiveFields
<1>3. W.rts = proc[d].rts \ {"RECEIVING"} /\ W.sendto = proc[d].sendto
  <2> HIDE DEF E
  <2>1. QED
    BY <1>2, WakeFields, MiscFacts, MiscFields DEF MiscFlags, Rcodes
<1> HIDE DEF E, W
<1>4. /\ B.sendto = proc[d].sendto
      /\ B.rts = proc[d].rts \/ B.rts = proc[d].rts \ {"RECEIVING"}
  BY <1>1, <1>3, MiscFacts, MiscFields DEF MiscFlags
<1> HIDE DEF B
<1>5. QED
  BY <1>1, <1>4, PeerOnlyQuiet

LEMMA StepQueues ==
    ASSUME NoCrossing, IInv, IInv', MsgInv, HoldsBoth, [Next]_vars
    PROVE  QueueStep
<1>1. ProcsFit /\ ProcsFit' /\ \A q \in Procs : Carries(q) /\ Entitled(q)
  BY DEF IInv, MsgInv
<1>2. ASSUME NEW p \in Procs, CallSend(p) PROVE QueueStep
  BY <1>1, <1>2, SendDeliverQueues, SendBlockQueues, SendAgainQueues DEF CallSend, QueueStep
<1>3. ASSUME NEW p \in Procs, CallSendrec(p) PROVE QueueStep
  BY <1>1, <1>3, SendrecDeliverQueues, SendrecFaultQueues, SendrecTakeQueues,
     SendrecBlockQueues, SendrecAgainQueues DEF CallSendrec, QueueStep
<1>4. ASSUME NEW p \in Procs, CallReply(p) \/ CallNotify(p) \/ CallReceive(p) PROVE QueueStep
  BY <1>1, <1>4, ReplyQueues, AwakeQueues, NotifyQueues
     DEF CallReply, CallNotify, CallReceive, QueueStep
<1>5. ASSUME NEW p \in Procs, Continue(p) PROVE QueueStep
  BY <1>1, <1>5, AwakeQueues, ReceiverQueues, ScanTakeQueues, ScanRefuseQueues,
     SendDoneQueues, SendrecDoneQueues DEF Continue, QueueStep
<1>6. ASSUME NEW p \in Procs, Step(p) PROVE QueueStep
  BY <1>1, <1>2, <1>3, <1>4, <1>5, <1>6, AwakeQueues, TimerQueues, HdwNotifyQueues, WakeUpQueues
     DEF Step, QueueStep
<1>7. CASE UNCHANGED vars
  BY <1>7, OtherSends DEF vars, Quiet, QueueStep
<1>8. QED
  BY <1>6, <1>7 DEF Next

-----------------------------------------------------------------------------
(* The rings stay rings. *)

\* Only blocked senders are linked.
Well ==
    /\ Circular(lists) /\ HoldsBoth
    /\ \A p \in Procs : Linked(p) => Sending(p)

\* A step that leaves the rings as they are.
SameRings ==
    /\ Circular(lists') /\ \A e \in Links : lists'.next[e] = lists.next[e]
    /\ \A q \in Procs : SameSend(q)

LEMMA SameRingsFacts ==
    ASSUME lists \in ListStructs, Well,
           Quiet \/ \E p, d \in Procs : PassesBy(p, d)
    PROVE  SameRings
<1>1. CASE Quiet
  BY <1>1 DEF Quiet, SameRings, Well
<1>2. ASSUME NEW p \in Procs, NEW d \in Procs, PassesBy(p, d) PROVE SameRings
  <2>1. lists.next[ListNode(p)] = ListNode(p)
    BY <1>2 DEF PassesBy, Well, Linked
  <2>2. Circular(lists') /\ \A e \in Links : lists'.next[e] = lists.next[e]
    BY <1>2, <2>1, PassesFacts DEF PassesBy, Well
  <2>3. SameSend(p)
    BY <1>2 DEF PassesBy, SameSend
  <2>4. QED
    BY <1>2, <2>2, <2>3 DEF PassesBy, OthersSend, SameRings
<1>3. QED
  BY <1>1, <1>2

LEMMA WellKept ==
    ASSUME lists \in ListStructs, Well, QueueStep
    PROVE  Well'
<1>1. ASSUME SameRings PROVE Well'
  BY <1>1, LinkFacts DEF SameRings, SameSend, Well, HoldsBoth, Linked
<1>2. ASSUME NEW p \in Procs, NEW d \in Procs, Joins(p, d) PROVE Well'
  <2>1. lists.next[ListNode(p)] = ListNode(p)
    BY <1>2 DEF Joins, Well, Linked
  <2>2. /\ Circular(lists')
        /\ \A e \in Links \ {ListNode(p)} :
              lists'.next[e] = IF lists.next[e] = ListHead(d) THEN ListNode(p) ELSE lists.next[e]
    BY <1>2, <2>1, AppendedFacts DEF Joins, Well
  <2>3. \A q \in Procs \ {p} : Linked(q)' => Linked(q)
    BY <2>2, LinkFacts DEF Linked
  <2>4. QED
    BY <1>2, <2>2, <2>3 DEF Joins, OthersSend, SameSend, Well, HoldsBoth
<1>3. ASSUME NEW x \in Procs, lists' = ListDelInit(lists, ListNode(x)), OthersSend(x),
             Sending(x)' => SameSend(x)
      PROVE  Well'
  <2>1. /\ Circular(lists') /\ lists'.next[ListNode(x)] = ListNode(x)
        /\ \A e \in Links \ {ListNode(x)} :
              lists'.next[e] = IF lists.next[e] = ListNode(x) THEN lists.next[ListNode(x)]
                                                              ELSE lists.next[e]
    <3>1. ListNode(x) \in Links /\ Circular(lists)
      BY LinkFacts DEF Well
    <3>2. QED
      BY <1>3, <3>1, UnlinkFacts
  <2>2. \A q \in Procs \ {x} : Linked(q)' => Linked(q)
    BY <2>1, LinkFacts DEF Linked
  <2>3. ~Linked(x)'
    BY <2>1 DEF Linked
  <2>4. QED
    BY <1>3, <2>1, <2>2, <2>3 DEF OthersSend, SameSend, Well, HoldsBoth
<1>4. QED
  BY <1>1, <1>2, <1>3, SameRingsFacts DEF QueueStep, Quits, Refuses, OthersSend

LEMMA InitWell == Init => Well
BY LinkFacts DEF Init, Well, Circular, HoldsBoth, Linked, Sending, Running

LEMMA WellInvariance ==
    ASSUME NoCrossing
    PROVE  Spec => []Well
<1>1. IInv /\ IInv' /\ MsgInv /\ Well /\ [Next]_vars => Well'
  BY StepQueues, WellKept DEF IInv, RestTyped, Well
<1>2. QED
  BY <1>1, InitWell, Invariance, MsgInvariance, PTL DEF Spec

\* The queues are circular lists in every state: also when a receiver that has
\* released its mutex unlinks, for another sender, the node of one that gave up
\* and queued elsewhere.  A sendrec that takes the message of a process it asks
\* leaves it linked, and its next send links it twice: no two processes send to
\* each other so.
THEOREM QueuesSound ==
    ASSUME NoCrossing
    PROVE  Spec => []ListsWellFormed
<1>1. Well => ListsWellFormed
  BY DEF Well, Circular, ListsWellFormed
<1>2. QED
  BY <1>1, WellInvariance, PTL

-----------------------------------------------------------------------------
(* Where receivers are below their senders, every sender is in its queue. *)

ReceiversBelow ==
    \A p, x \in Procs :
        /\ DvkAllowed[p] \cap {"receive", "rcvrqst"} # {}
        /\ DvkAllowed[x] \cap {"send", "sendrec"} # {}
        /\ p \in IpcTo[x]
        => p < x

\* The order of arrival: it grows along a ring, up to the head.
InOrder(l) ==
    \E w \in [Links -> Int] :
        \A e \in Links, x \in Procs :
            l.next[e] = ListNode(x) /\ e # ListNode(x) => w[e] < w[ListNode(x)]

InQueue(e, p) ==
    \/ e = ListHead(p)
    \/ \E x \in Procs : e = ListNode(x) /\ Sending(x) /\ proc[x].sendto = p

Queued ==
    /\ \A p \in Procs : Sending(p) => Linked(p)
    /\ \A e \in Links : QueueOf(lists.next[e]) = QueueOf(e)
    /\ InOrder(lists)

\* A receiver walks its own queue, and never leaves it.
Walking ==
    \A p \in Procs :
        /\ pc[p] # "window"
        /\ pc[p] = "scan" => InQueue(walk[p].xpp, p) /\ walk[p].tmp = lists.next[walk[p].xpp]

\* What a step does to the walk of q.
Walks(q) ==
    /\ pc'[q] = "scan" =>
          \/ pc[q] = "scan" /\ walk'[q] = walk[q]
          \/ Quiet /\ walk'[q] = FirstOf(lists, q)
          \/ /\ Quiet /\ pc[q] \in {"scan", "window"}
             /\ walk'[q] = [xpp |-> walk[q].tmp, tmp |-> lists.next[walk[q].tmp]]
    /\ pc'[q] = "window" =>
          \/ pc[q] = "window"
          \/ pc[q] = "scan" /\ \E x \in Procs : walk[q].xpp = ListNode(x) /\ q >= x

LEMMA WalksStay ==
    ASSUME NEW q, pc'[q] = pc[q], walk'[q] = walk[q]
    PROVE  Walks(q)
BY DEF Walks

LEMMA StepWalks ==
    ASSUME IInv, IInv', [Next]_vars
    PROVE  \A q \in Procs : Walks(q)
<1>1. /\ ProcsFit /\ ProcsFit' /\ pc \in [Procs -> PcValues]
      /\ walk \in [Procs -> [xpp : Links, tmp : Links]]
  BY DEF IInv, ProcsFit, RestTyped
<1>2. ASSUME NEW p \in Procs, NEW l, Goto(p, l), l \notin {"scan", "window"},
             walk' = walk \/ NoWalk(p)
      PROVE  \A q \in Procs : Walks(q)
  <2>1. Walks(p)
    BY <1>1, <1>2 DEF Goto, Walks
  <2>2. \A q \in Procs \ {p} : pc'[q] = pc[q] /\ walk'[q] = walk[q]
    BY <1>1, <1>2 DEF Goto, NoWalk
  <2>3. QED
    BY <2>1, <2>2, WalksStay
<1>3. ASSUME NEW p \in Procs, StartScan(p), Quiet
      PROVE  \A q \in Procs : Walks(q)
  <2>1. Walks(p)
    BY <1>1, <1>3 DEF StartScan, Goto, Walks
  <2>2. \A q \in Procs \ {p} : pc'[q] = pc[q] /\ walk'[q] = walk[q]
    BY <1>1, <1>3 DEF StartScan, Goto
  <2>3. QED
    BY <2>1, <2>2, WalksStay
<1>4. ASSUME NEW p \in Procs, ScanSkip(p)
      PROVE  \A q \in Procs : Walks(q)
  <2>1. Quiet
    BY <1>1, <1>4, AwakeQueues
  <2>2. Walks(p)
    BY <1>1, <1>4, <2>1 DEF ScanSkip, Visits, Goto, Walks
  <2>3. \A q \in Procs \ {p} : pc'[q] = pc[q] /\ walk'[q] = walk[q]
    BY <1>1, <1>4 DEF ScanSkip, Goto
  <2>4. QED
    BY <2>2, <2>3, WalksStay
<1>5. ASSUME NEW p \in Procs, ScanInvert(p)
      PROVE  \A q \in Procs : Walks(q)
  <2>1. Walks(p)
    BY <1>1, <1>5 DEF ScanInvert, Goto, Walks
  <2>2. \A q \in Procs \ {p} : pc'[q] = pc[q] /\ walk'[q] = walk[q]
    BY <1>1, <1>5 DEF ScanInvert, Goto, local
  <2>3. QED
    BY <2>1, <2>2, WalksStay
<1>6. ASSUME NEW p \in Procs, ReceiveLock(p)
      PROVE  \A q \in Procs : Walks(q)
  BY <1>1, <1>3, <1>6, AwakeQueues DEF ReceiveLock
<1>7. ASSUME NEW p \in Procs, RcvrqstStart(p)
      PROVE  \A q \in Procs : Walks(q)
  <2>1. CASE StartScan(p)
    BY <1>1, <1>3, <1>7, <2>1, AwakeQueues
  <2>2. CASE Finish(p, "WOKENUP") /\ UNCHANGED walk
    BY <1>2, <2>2 DEF Finish
  <2>3. QED
    BY <1>7, <2>1, <2>2 DEF RcvrqstStart
<1>8. ASSUME NEW p \in Procs, NEW d \in Procs, SendDeliver(p, d) \/ SendBlock(p, d) \/ SendAgain(p, d)
      PROVE  \A q \in Procs : Walks(q)
  BY <1>2, <1>8 DEF SendDeliver, SendBlock, SendAgain, Finish, local
<1>9. ASSUME NEW p \in Procs, NEW d \in Procs,
             \/ SendrecDeliver(p, d) \/ SendrecFault(p, d) \/ SendrecTake(p, d)
             \/ SendrecBlock(p, d) \/ SendrecAgain(p, d)
      PROVE  \A q \in Procs : Walks(q)
  BY <1>2, <1>9
     DEF SendrecDeliver, SendrecFault, SendrecTake, SendrecBlock, SendrecAgain, Finish, local
<1>10. ASSUME NEW p \in Procs, NEW s, NEW d,
              Reply(p, d) \/ ReplyRefuse(p, d) \/ Notify(p, s, d) \/ ReceiveStart(p, s)
       PROVE  \A q \in Procs : Walks(q)
  BY <1>2, <1>10 DEF Reply, ReplyRefuse, Notify, ReceiveStart, Finish, local
<1>11. ASSUME NEW p \in Procs,
              \/ NotifyNone(p) \/ NotifyLoad(p) \/ NotifyStore(p) \/ ScanWild(p)
              \/ \E x \in Procs : ScanTake(p, x) \/ ScanRefuse(p, x)
              \/ ReceiveBlock(p) \/ ReceiveAgain(p)
       PROVE  \A q \in Procs : Walks(q)
  BY <1>2, <1>11 DEF NotifyNone, NotifyLoad, NotifyStore, ScanWild, ScanTake, ScanRefuse,
                     ReceiveBlock, ReceiveAgain, Finish, local
<1>12. ASSUME NEW p \in Procs,
              \/ SendDone(p) \/ ReceiveDone(p) \/ RcvrqstDone(p) \/ SendrecDone(p) \/ Return(p)
              \/ TimerExpires(p) \/ SignalArrives(p)
       PROVE  \A q \in Procs : Walks(q)
  BY <1>2, <1>12 DEF SendDone, ReceiveDone, RcvrqstDone, SendrecDone, Return, TimerExpires,
                     SignalArrives, Finish, local
<1>13. ASSUME NEW p \in Procs, HdwNotify(p) \/ WakeUp(p)
       PROVE  \A q \in Procs : Walks(q)
  BY <1>13, WalksStay DEF HdwNotify, WakeUp, local
<1>14. CASE UNCHANGED vars
  BY <1>14, WalksStay DEF vars
<1>15. ASSUME NEW p \in Procs, Continue(p) PROVE \A q \in Procs : Walks(q)
  BY <1>15, <1>4, <1>5, <1>6, <1>11, <1>12 DEF Continue
<1>16. ASSUME NEW p \in Procs, Step(p) PROVE \A q \in Procs : Walks(q)
  BY <1>16, <1>7, <1>8, <1>9, <1>10, <1>12, <1>13, <1>15
     DEF Step, CallSend, CallReceive, CallSendrec, CallReply, CallNotify
<1>17. QED
  BY <1>14, <1>16 DEF Next

\* A linked neighbour: the ring of a linked node or head has no lone node.
LEMMA LinkedNext ==
    ASSUME lists \in ListStructs, Circular(lists), NEW e \in Links, lists.next[e] # e
    PROVE  lists.next[e] \in Links /\ lists.next[lists.next[e]] # lists.next[e]
BY DEF ListStructs, Circular

\* The queue of a linked node stays the same while it sends on.
LEMMA QueueStays ==
    ASSUME Well, NEW e \in Links, lists.next[e] # e,
           \A q \in Procs : e = ListNode(q) => SameSend(q)
    PROVE  QueueOf(e)' = QueueOf(e)
<1> PICK q \in Procs : e = ListHead(q) \/ e = ListNode(q)
  BY LinkFacts
<1>1. CASE e = ListHead(q)
  BY <1>1 DEF QueueOf, ListHead
<1>2. CASE e = ListNode(q)
  <2>1. Sending(q) /\ SameSend(q)
    BY <1>2 DEF Well, Linked
  <2>2. QED
    BY <1>2, <2>1 DEF SameSend, QueueOf, ListNode
<1>3. QED
  BY <1>1, <1>2

LEMMA NextInQueue ==
    ASSUME lists \in ListStructs, Well, Queued, NEW p \in Procs, NEW e, InQueue(e, p)
    PROVE  InQueue(lists.next[e], p)
<1>1. e \in Links /\ QueueOf(e) = p
  BY LinkFacts DEF InQueue
<1>2. CASE lists.next[e] = e
  BY <1>2
<1>3. CASE lists.next[e] # e
  <2>1. PICK f : f = lists.next[e]
    OBVIOUS
  <2>2. f \in Links /\ lists.next[f] # f /\ QueueOf(f) = p
    BY <1>1, <1>3, <2>1, LinkedNext DEF Well, Queued
  <2>3. PICK q \in Procs : f = ListHead(q) \/ f = ListNode(q)
    BY <2>2, LinkFacts
  <2>4. f = ListNode(q) => Sending(q)
    BY <2>2 DEF Well, Linked
  <2>5. InQueue(f, p)
    BY <2>2, <2>3, <2>4, LinkFacts DEF InQueue
  <2>6. QED
    BY <2>1, <2>5
<1>4. QED
  BY <1>2, <1>3

\* A step that changes no ring.
LEMMA QueuedSame ==
    ASSUME lists \in ListStructs, Well, Queued, SameRings, InOrder(lists)'
    PROVE  Queued'
<1>1. ASSUME NEW q \in Procs, Sending(q)' PROVE Linked(q)'
  BY <1>1, LinkFacts DEF SameRings, SameSend, Queued, Linked
<1>2. ASSUME NEW e \in Links PROVE QueueOf(lists.next[e])' = QueueOf(e)'
  <2>1. PICK f : f = lists.next[e]
    OBVIOUS
  <2>2. lists'.next[e] = f /\ f \in Links /\ QueueOf(f) = QueueOf(e)
    BY <2>1 DEF SameRings, Queued, ListStructs
  <2>3. CASE f = e
    BY <2>2, <2>3
  <2>4. CASE f # e
    <3>1. lists.next[f] # f
      BY <2>1, <2>4, LinkedNext DEF Well
    <3>2. QueueOf(e)' = QueueOf(e) /\ QueueOf(f)' = QueueOf(f)
      BY <2>1, <2>2, <2>4, <3>1, QueueStays DEF SameRings
    <3>3. QED
      BY <2>2, <3>2
  <2>5. QED
    BY <2>3, <2>4
<1>3. QED
  BY <1>1, <1>2 DEF Queued

LEMMA OrderSame ==
    ASSUME lists \in ListStructs, SameRings, InOrder(lists)
    PROVE  InOrder(lists)'
BY DEF SameRings, InOrder

\* A sender appends itself.
LEMMA QueuedJoins ==
    ASSUME lists \in ListStructs, Well, Queued, NEW p \in Procs, NEW d \in Procs, Joins(p, d)
    PROVE  Queued'
<1> PICK n : n = ListNode(p)
  OBVIOUS
<1> PICK h : h = ListHead(d)
  OBVIOUS
<1>1. n \in Links /\ h \in Links /\ n # h /\ lists.next[n] = n
  BY LinkFacts DEF Joins, Well, Linked
<1>2. /\ lists'.next[n] = h
      /\ \A e \in Links \ {n} :
            lists'.next[e] = IF lists.next[e] = h THEN n ELSE lists.next[e]
  BY <1>1, AppendedFacts DEF Joins, Well
<1>3. \A e \in Links : lists.next[e] = n => e = n
  BY <1>1 DEF Well, Circular
<1>4. ASSUME NEW q \in Procs, Sending(q)' PROVE Linked(q)'
  <2>1. CASE q = p
    BY <1>1, <1>2, <2>1 DEF Linked
  <2>2. CASE q # p
    <3>1. Linked(q) /\ ListNode(q) \in Links /\ ListNode(q) # n
      BY <1>4, <2>2, LinkFacts DEF Joins, OthersSend, SameSend, Queued
    <3>2. QED
      BY <1>2, <3>1 DEF Linked
  <2>3. QED
    BY <2>1, <2>2
<1>5. QueueOf(n)' = d /\ QueueOf(h)' = d /\ QueueOf(h) = d
  <2>1. n = <<"p_link", p>> /\ h = <<"p_list", d>>
    BY DEF ListNode, ListHead
  <2>2. QED
    BY <2>1 DEF Joins, QueueOf
<1>6. ASSUME NEW e \in Links, e # n, lists.next[e] # e PROVE QueueOf(e)' = QueueOf(e)
  BY <1>6, QueueStays, LinkFacts DEF Joins, OthersSend
<1>7. ASSUME NEW e \in Links PROVE QueueOf(lists.next[e])' = QueueOf(e)'
  <2>1. CASE e = n
    BY <1>2, <1>5, <2>1
  <2>2. CASE e # n /\ lists.next[e] = h
    <3>1. QueueOf(e) = d /\ lists'.next[e] = n
      BY <1>2, <1>5, <2>2 DEF Queued
    <3>2. QueueOf(e)' = d
      BY <1>5, <1>6, <2>2, <3>1
    <3>3. QED
      BY <1>5, <3>1, <3>2
  <2>3. CASE e # n /\ lists.next[e] # h
    <3>1. PICK f : f = lists.next[e]
      OBVIOUS
    <3>2. lists'.next[e] = f /\ QueueOf(f) = QueueOf(e) /\ f # n
      BY <1>2, <1>3, <2>3, <3>1 DEF Queued
    <3>3. CASE f = e
      BY <3>2, <3>3
    <3>4. CASE f # e
      <4>1. f \in Links /\ lists.next[f] # f
        BY <3>1, <3>4, LinkedNext DEF Well
      <4>2. QueueOf(e)' = QueueOf(e) /\ QueueOf(f)' = QueueOf(f)
        BY <1>6, <2>3, <3>1, <3>2, <3>4, <4>1
      <4>3. QED
        BY <3>2, <4>2
    <3>5. QED
      BY <3>3, <3>4
  <2>4. QED
    BY <2>1, <2>2, <2>3
<1>8. InOrder(lists)'
  <2>1. PICK w \in [Links -> Int] :
           \A e \in Links, x \in Procs :
               lists.next[e] = ListNode(x) /\ e # ListNode(x) => w[e] < w[ListNode(x)]
    BY DEF Queued, InOrder
  <2>2. PICK t : t = lists.prev[h]
    OBVIOUS
  <2>3. t \in Links /\ lists.next[t] = h /\ t # n /\ \A e \in Links : lists.next[e] = h => e = t
    BY <1>1, <2>2 DEF Well, Circular, ListStructs
  <2>4. PICK v : v = [w EXCEPT ![n] = w[t] + 1]
    OBVIOUS
  <2>5. /\ v \in [Links -> Int] /\ v[n] = w[t] + 1
        /\ \A e \in Links \ {n} : v[e] = w[e]
    BY <1>1, <2>3, <2>4
  <2>6. ASSUME NEW e \in Links, NEW x \in Procs, lists'.next[e] = ListNode(x), e # ListNode(x)
        PROVE  v[e] < v[ListNode(x)]
    <3>1. ListNode(x) # h /\ ListNode(x) \in Links
      BY LinkFacts
    <3>2. e # n
      BY <1>2, <2>6, <3>1
    <3>3. CASE lists.next[e] = h
      <4>1. e = t /\ ListNode(x) = n
        BY <1>2, <2>3, <2>6, <3>2, <3>3
      <4>2. w[t] \in Int
        BY <2>3
      <4>3. QED
        BY <2>3, <2>5, <4>1, <4>2
    <3>4. CASE lists.next[e] # h
      <4>1. lists.next[e] = ListNode(x)
        BY <1>2, <2>6, <3>2, <3>4
      <4>2. ListNode(x) # n
        BY <1>3, <3>2, <4>1
      <4>3. QED
        BY <2>1, <2>5, <2>6, <3>1, <3>2, <4>1, <4>2
    <3>5. QED
      BY <3>3, <3>4
  <2>7. QED
    BY <2>5, <2>6 DEF InOrder
<1>9. QED
  BY <1>4, <1>7, <1>8 DEF Queued

\* A sender is unlinked.
LEMMA QueuedQuits ==
    ASSUME lists \in ListStructs, Well, Queued, NEW x \in Procs, NEW r \in Procs, Quits(x, r)
    PROVE  Queued'
<1> PICK n : n = ListNode(x)
  OBVIOUS
<1> PICK a : a = lists.next[n]
  OBVIOUS
<1>1. n \in Links /\ a \in Links /\ a # n /\ lists.next[a] # a
  BY LinkFacts, LinkedNext DEF Quits, Queued, Linked, Well
<1>2. /\ lists'.next[n] = n
      /\ \A e \in Links \ {n} :
            lists'.next[e] = IF lists.next[e] = n THEN a ELSE lists.next[e]
  <2>1. lists' = ListDelInit(lists, n) /\ Circular(lists) /\ n \in Links
    BY <1>1 DEF Quits, Well
  <2>2. /\ lists'.next[n] = n
        /\ \A e \in Links \ {n} :
              lists'.next[e] = IF lists.next[e] = n THEN lists.next[n] ELSE lists.next[e]
    BY <2>1, UnlinkFacts
  <2>3. QED
    BY <2>2
<1>3. PICK w \in [Links -> Int] :
         \A e \in Links, y \in Procs :
             lists.next[e] = ListNode(y) /\ e # ListNode(y) => w[e] < w[ListNode(y)]
  BY DEF Queued, InOrder
<1>4. ASSUME NEW e \in Links, NEW y \in Procs, e # n, lists.next[e] = n, a = ListNode(y)
      PROVE  w[e] < w[a]
  <2>1. w[e] < w[n] /\ w[n] < w[a]
    BY <1>1, <1>3, <1>4
  <2>2. w[e] \in Int /\ w[n] \in Int /\ w[a] \in Int
    BY <1>1, <1>3
  <2>3. QED
    BY <2>1, <2>2
<1>5. ASSUME NEW q \in Procs, Sending(q)' PROVE Linked(q)'
  <2>1. q # x
    BY <1>5 DEF Quits
  <2>2. Linked(q) /\ ListNode(q) \in Links /\ ListNode(q) # n
    BY <1>5, <2>1, LinkFacts DEF Quits, OthersSend, SameSend, Queued
  <2>3. CASE lists.next[ListNode(q)] = n
    <3>1. a # ListNode(q)
      <4>1. SUFFICES ASSUME a = ListNode(q) PROVE FALSE
        OBVIOUS
      <4>2. w[ListNode(q)] < w[a] /\ w[a] \in Int
        BY <1>1, <1>3, <1>4, <2>2, <2>3, <4>1
      <4>3. QED
        BY <4>1, <4>2
    <3>2. QED
      BY <1>2, <2>2, <2>3, <3>1 DEF Linked
  <2>4. CASE lists.next[ListNode(q)] # n
    BY <1>2, <2>2, <2>4 DEF Linked
  <2>5. QED
    BY <2>3, <2>4
<1>6. ASSUME NEW e \in Links, e # n, lists.next[e] # e PROVE QueueOf(e)' = QueueOf(e)
  BY <1>6, QueueStays, LinkFacts DEF Quits, OthersSend
<1>7. ASSUME NEW e \in Links PROVE QueueOf(lists.next[e])' = QueueOf(e)'
  <2>1. CASE e = n
    BY <1>2, <2>1
  <2>2. CASE e # n /\ lists.next[e] = n
    <3>1. QueueOf(n) = QueueOf(e) /\ QueueOf(a) = QueueOf(n) /\ lists'.next[e] = a
      BY <1>1, <1>2, <2>2 DEF Queued
    <3>2. QueueOf(e)' = QueueOf(e) /\ QueueOf(a)' = QueueOf(a)
      BY <1>1, <1>6, <2>2
    <3>3. QED
      BY <3>1, <3>2
  <2>3. CASE e # n /\ lists.next[e] # n
    <3>1. PICK f : f = lists.next[e]
      OBVIOUS
    <3>2. lists'.next[e] = f /\ QueueOf(f) = QueueOf(e) /\ f # n
      BY <1>2, <2>3, <3>1 DEF Queued
    <3>3. CASE f = e
      BY <3>2, <3>3
    <3>4. CASE f # e
      <4>1. f \in Links /\ lists.next[f] # f
        BY <3>1, <3>4, LinkedNext DEF Well
      <4>2. QueueOf(e)' = QueueOf(e) /\ QueueOf(f)' = QueueOf(f)
        BY <1>6, <2>3, <3>1, <3>2, <3>4, <4>1
      <4>3. QED
        BY <3>2, <4>2
    <3>5. QED
      BY <3>3, <3>4
  <2>4. QED
    BY <2>1, <2>2, <2>3
<1>8. InOrder(lists)'
  <2>1. ASSUME NEW e \in Links, NEW y \in Procs, lists'.next[e] = ListNode(y), e # ListNode(y)
        PROVE  w[e] < w[ListNode(y)]
    <3>1. e # n
      BY <1>2, <2>1
    <3>2. CASE lists.next[e] = n
      BY <1>2, <1>4, <2>1, <3>1, <3>2
    <3>3. CASE lists.next[e] # n
      BY <1>2, <1>3, <2>1, <3>1, <3>3
    <3>4. QED
      BY <3>2, <3>3
  <2>2. QED
    BY <1>3, <2>1 DEF InOrder
<1>9. QED
  BY <1>5, <1>7, <1>8 DEF Queued

\* A receiver never has to release its mutex, and finds only its senders.
LEMMA NeverInverts ==
    ASSUME ReceiversBelow, IInv, MsgInv, NEW p \in Procs, pc[p] = "scan",
           NEW x \in Procs, InQueue(ListNode(x), p)
    PROVE  Sending(x) /\ proc[x].sendto = p /\ ~(p >= x)
<1>1. Sending(x) /\ proc[x].sendto = p
  BY LinkFacts DEF InQueue
<1>2. Known(x) /\ Carries(x) /\ Entitled(x) /\ Known(p) /\ Entitled(p)
  BY KnownFacts DEF MsgInv
<1>3. call[x].op \in {"send", "sendrec"} /\ pc[x] \in Sleeping /\ call[x].peer = p
  BY <1>1, <1>2 DEF Known, Fits, Carries, Sending
<1>4. call[x].op \in DvkAllowed[x] /\ p \in IpcTo[x]
  BY <1>2, <1>3 DEF Entitled, Sleeping
<1>5. call[p].op \in {"receive", "rcvrqst"} /\ call[p].op \in DvkAllowed[p]
  BY <1>2 DEF Known, Fits, Receiving, Entitled
<1>6. p < x
  BY <1>3, <1>4, <1>5 DEF ReceiversBelow
<1>7. p \in Int /\ x \in Int
  BY ProcsAssumption
<1>8. QED
  BY <1>1, <1>6, <1>7

LEMMA NeverRefuses ==
    ASSUME ReceiversBelow, IInv, MsgInv, Walking, NEW p \in Procs, NEW x \in Procs
    PROVE  ~Refuses(p, x)
<1>1. SUFFICES ASSUME Refuses(p, x) PROVE FALSE
  OBVIOUS
<1>2. pc[p] = "scan" /\ InQueue(ListNode(x), p)
  BY <1>1 DEF Refuses, Visits, Walking
<1>3. Sending(x) /\ proc[x].sendto = p
  BY <1>2, NeverInverts
<1>4. QED
  BY <1>1, <1>3 DEF Refuses, SendsTo, Sending

LEMMA QueuedKept ==
    ASSUME ReceiversBelow, IInv, MsgInv, Well, Queued, Walking, QueueStep
    PROVE  Queued'
<1>1. lists \in ListStructs
  BY DEF IInv, RestTyped
<1>2. ASSUME Quiet \/ \E p, d \in Procs : PassesBy(p, d) PROVE Queued'
  BY <1>1, <1>2, SameRingsFacts, OrderSame, QueuedSame DEF Queued
<1>3. QED
  BY <1>1, <1>2, QueuedJoins, QueuedQuits, NeverRefuses DEF QueueStep

\* An entry of a queue, while its owner walks it.
LEMMA EntryStays ==
    ASSUME ReceiversBelow, IInv, MsgInv, Well, Queued, Walking, QueueStep,
           NEW q \in Procs, pc[q] = "scan", pc'[q] = "scan", NEW e, InQueue(e, q)
    PROVE  InQueue(e, q)' /\ lists'.next[e] = lists.next[e]
<1>1. lists \in ListStructs /\ e \in Links /\ QueueOf(e) = q /\ QueueOf(lists.next[e]) = q
  BY LinkFacts DEF IInv, RestTyped, InQueue, Queued
<1>2. ASSUME \A x \in Procs : e = ListNode(x) => SameSend(x) PROVE InQueue(e, q)'
  BY <1>2 DEF InQueue, SameSend
<1>3. ASSUME Quiet \/ \E p, d \in Procs : PassesBy(p, d)
      PROVE  InQueue(e, q)' /\ lists'.next[e] = lists.next[e]
  BY <1>1, <1>2, <1>3, SameRingsFacts DEF SameRings
<1>4. ASSUME NEW p \in Procs, NEW d \in Procs, Joins(p, d)
      PROVE  InQueue(e, q)' /\ lists'.next[e] = lists.next[e]
  <2>1. e # ListNode(p)
    BY <1>4, LinkFacts DEF Joins, InQueue
  <2>2. InQueue(e, q)'
    BY <1>2, <1>4, <2>1 DEF Joins, OthersSend
  <2>3. d # q
    BY <1>4 DEF Joins, Unlocked
  <2>4. lists.next[e] # ListHead(d)
    BY <1>1, <2>3, LinkFacts
  <2>5. lists.next[ListNode(p)] = ListNode(p)
    BY <1>4 DEF Joins, Well, Linked
  <2>6. lists'.next[e] = IF lists.next[e] = ListHead(d) THEN ListNode(p) ELSE lists.next[e]
    BY <1>1, <1>4, <2>1, <2>5, AppendedFacts DEF Joins, Well
  <2>7. QED
    BY <2>2, <2>4, <2>6
<1>5. ASSUME NEW x \in Procs, NEW r \in Procs, Quits(x, r)
      PROVE  InQueue(e, q)' /\ lists'.next[e] = lists.next[e]
  <2>1. r # q
    BY <1>5 DEF Quits
  <2>2. e # ListNode(x) /\ lists.next[e] # ListNode(x)
    BY <1>1, <1>5, <2>1, LinkFacts DEF Quits
  <2>3. InQueue(e, q)'
    BY <1>2, <1>5, <2>2 DEF Quits, OthersSend
  <2>4. ListNode(x) \in Links
    BY LinkFacts
  <2>5. lists'.next[e] = IF lists.next[e] = ListNode(x) THEN lists.next[ListNode(x)]
                                                        ELSE lists.next[e]
    BY <1>1, <1>5, <2>2, <2>4, UnlinkFacts DEF Quits, Well
  <2>6. QED
    BY <2>2, <2>3, <2>5
<1>6. QED
  BY <1>3, <1>4, <1>5, NeverRefuses DEF QueueStep

\* A walk that goes on while nobody begins or ends a send.
LEMMA EntryFound ==
    ASSUME Quiet, NEW q \in Procs, NEW e, InQueue(e, q)
    PROVE  InQueue(e, q)' /\ lists' = lists
BY DEF Quiet, SameSend, InQueue

LEMMA WalkingKept ==
    ASSUME ReceiversBelow, IInv, IInv', MsgInv, Well, Queued, Walking, QueueStep, [Next]_vars
    PROVE  Walking'
<1> SUFFICES ASSUME NEW q \in Procs
             PROVE  /\ pc'[q] # "window"
                    /\ pc'[q] = "scan" =>
                          InQueue(walk[q].xpp, q)' /\ walk'[q].tmp = lists'.next[walk'[q].xpp]
  BY DEF Walking
<1>1. Walks(q) /\ pc[q] # "window" /\ lists \in ListStructs
  BY StepWalks DEF Walking, IInv, RestTyped
<1>2. pc'[q] # "window"
  BY <1>1, NeverInverts DEF Walks, Walking
<1>3. ASSUME pc'[q] = "scan", pc[q] = "scan", walk'[q] = walk[q]
      PROVE  InQueue(walk[q].xpp, q)' /\ walk'[q].tmp = lists'.next[walk'[q].xpp]
  <2>1. PICK e : e = walk[q].xpp
    OBVIOUS
  <2>2. InQueue(e, q) /\ walk[q].tmp = lists.next[e]
    BY <1>3, <2>1 DEF Walking
  <2>3. InQueue(e, q)' /\ lists'.next[e] = lists.next[e]
    BY <1>3, <2>2, EntryStays
  <2>4. walk'[q].xpp = e
    BY <1>3, <2>1
  <2>5. QED
    BY <1>3, <2>2, <2>3, <2>4 DEF InQueue
<1>4. ASSUME Quiet, NEW e, InQueue(e, q), walk'[q] = [xpp |-> e, tmp |-> lists.next[e]]
      PROVE  InQueue(walk[q].xpp, q)' /\ walk'[q].tmp = lists'.next[walk'[q].xpp]
  <2>1. InQueue(e, q)' /\ lists' = lists /\ walk'[q].xpp = e /\ walk'[q].tmp = lists.next[e]
    BY <1>4, EntryFound
  <2>2. QED
    BY <2>1 DEF InQueue
<1>5. ASSUME Quiet, walk'[q] = FirstOf(lists, q)
      PROVE  InQueue(walk[q].xpp, q)' /\ walk'[q].tmp = lists'.next[walk'[q].xpp]
  <2>1. PICK e : e = lists.next[ListHead(q)]
    OBVIOUS
  <2>2. InQueue(ListHead(q), q)
    BY DEF InQueue
  <2>3. InQueue(e, q)
    BY <1>1, <2>1, <2>2, NextInQueue
  <2>4. walk'[q] = [xpp |-> e, tmp |-> lists.next[e]]
    BY <1>5, <2>1 DEF FirstOf
  <2>5. QED
    BY <1>4, <1>5, <2>3, <2>4
<1>6. ASSUME Quiet, pc[q] = "scan",
             walk'[q] = [xpp |-> walk[q].tmp, tmp |-> lists.next[walk[q].tmp]]
      PROVE  InQueue(walk[q].xpp, q)' /\ walk'[q].tmp = lists'.next[walk'[q].xpp]
  <2>1. PICK e : e = walk[q].tmp
    OBVIOUS
  <2>2. InQueue(e, q)
    BY <1>1, <1>6, <2>1, NextInQueue DEF Walking
  <2>3. QED
    BY <1>4, <1>6, <2>1, <2>2
<1>7. QED
  BY <1>1, <1>2, <1>3, <1>5, <1>6 DEF Walks

LEMMA InitQueued == Init => Queued /\ Walking
<1> SUFFICES ASSUME Init PROVE Queued /\ Walking
  OBVIOUS
<1>1. \A e \in Links : lists.next[e] = e
  BY DEF Init
<1>2. PICK w : w = [e \in Links |-> 0]
  OBVIOUS
<1>3. w \in [Links -> Int]
  BY <1>2
<1>4. InOrder(lists)
  BY <1>1, <1>3 DEF InOrder
<1>5. QED
  BY <1>1, <1>4 DEF Init, Queued, Walking, Sending, Running

\* Every blocked sender is in the queue of the process it sends to, and nobody
\* else is in any: where no two processes send to each other while one expects
\* a reply, and every receiver is below its senders, so that it never releases
\* its mutex in the middle of its walk.
THEOREM QueuesExact ==
    ASSUME NoCrossing, ReceiversBelow
    PROVE  Spec => []QueueExact
<1>1. IInv /\ IInv' /\ MsgInv /\ Well /\ Queued /\ Walking /\ [Next]_vars => (Queued /\ Walking)'
  <2> SUFFICES ASSUME IInv, IInv', MsgInv, Well, Queued, Walking, [Next]_vars
               PROVE  Queued' /\ Walking'
    OBVIOUS
  <2>1. QueueStep
    BY StepQueues DEF Well
  <2>2. QED
    BY <2>1, QueuedKept, WalkingKept
<1>2. IInv /\ Well /\ Queued => QueueExact
  <2> SUFFICES ASSUME IInv, Well, Queued, NEW p \in Procs
               PROVE  /\ Linked(p) <=> "SENDING" \in proc[p].rts
                      /\ QueueOf(lists.next[ListNode(p)]) = proc[p].sendto
                      /\ QueueOf(lists.prev[ListNode(p)]) = proc[p].sendto
    BY DEF QueueExact
  <2>1. ListNode(p) \in Links /\ QueueOf(ListNode(p)) = proc[p].sendto
    BY LinkFacts
  <2>2. PICK b : b = lists.prev[ListNode(p)]
    OBVIOUS
  <2>3. b \in Links /\ lists.next[b] = ListNode(p)
    BY <2>1, <2>2 DEF Well, Circular, IInv, RestTyped, ListStructs
  <2>4. QueueOf(b) = proc[p].sendto
    BY <2>1, <2>3 DEF Queued
  <2>5. QED
    BY <2>1, <2>2, <2>4 DEF Well, Queued, Sending
<1>3. QED
  BY <1>1, <1>2, InitQueued, WellInvariance, Invariance, MsgInvariance, PTL DEF Spec
=============================================================================
