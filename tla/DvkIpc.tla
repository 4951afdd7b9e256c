------------------------------- MODULE DvkIpc -------------------------------
(***************************************************************************)
(* The local half of the DVK message passing: dvk_ipc.c of the kernel      *)
(* module, for the processes bound to one DC on one node.                  *)
(*                                                                         *)
(* A process descriptor is protected by its own mutex and a call is a      *)
(* sequence of critical sections, so an action is one critical section.    *)
(* The mutexes are implicit, but for the one a receiver keeps while it     *)
(* walks its queue of senders (pc = "scan"); see Unlocked.                 *)
(***************************************************************************)
EXTENDS Integers, Sequences

CONSTANTS
    Procs,        \* p_nr of the processes bound to the DC
    ANY,          \* ANY: a receive that takes from every process
    NONE,         \* NONE
    HARDWARE,     \* HARDWARE: the source of a hardware notification
    IpcTo,        \* priv_ipc_to: whom a process may address
    DvkAllowed,   \* priv_dvk_allowed: the calls a process may make
    Sources,      \* the endpoints a process asks new_mini_receive for
    NotifyAs,     \* the src_nr a process gives new_mini_notify
    Interrupted,  \* processes a hardware notification may be sent to
    Wakeable,     \* processes new_wakeup may be called for
    Timeouts,     \* timeout_ms: "nowait", "timed" (> 0), "forever" (< 0)
    Faults,       \* outcomes of copy_usr2usr: TRUE is a bad user address
    Signals       \* TRUE when signals interrupt sleeping processes

Calls == {"send", "receive", "sendrec", "rcvrqst", "reply", "notify"}

ASSUME ProcsAssumption == Procs \subseteq Int
ASSUME NamesAssumption ==
    /\ ANY \notin Procs /\ NONE \notin Procs /\ HARDWARE \notin Procs
    /\ ANY # NONE /\ ANY # HARDWARE /\ NONE # HARDWARE
ASSUME PrivAssumption ==
    /\ IpcTo \in [Procs -> SUBSET Procs]
    /\ \A p \in Procs : p \notin IpcTo[p]
    /\ DvkAllowed \in [Procs -> SUBSET Calls]
    /\ Sources \in [Procs -> SUBSET (Procs \cup {ANY})]
    /\ NotifyAs \in [Procs -> SUBSET Procs]
    /\ Interrupted \subseteq Procs /\ Wakeable \subseteq Procs
ASSUME EnvAssumption ==
    /\ Timeouts \subseteq {"nowait", "timed", "forever"}
    /\ Faults \subseteq BOOLEAN /\ FALSE \in Faults
    /\ Signals \in BOOLEAN

VARIABLES
    proc,     \* the process descriptors
    lists,    \* the doubly linked lists of p_list heads and p_link nodes
    pc,       \* where the thread of a process is
    call,     \* the call it is making
    walk,     \* xpp and tmp_ptr of LIST_FOR_EACH_ENTRY_SAFE
    chunk,    \* the chunk a receiver loaded from its notify bitmap
    ret,      \* the code the call returns
    copied,   \* history: how often the message of the call was copied out
    got       \* history: sources of the messages copied in by the call

vars  == <<proc, lists, pc, call, walk, chunk, ret, copied, got>>
local == <<walk, chunk>>
hist  == <<copied, got>>

-----------------------------------------------------------------------------
(* Types *)

ListHead(p) == <<"p_list", p>>
ListNode(p) == <<"p_link", p>>
Links == {"p_list", "p_link"} \X Procs

Rcodes == {"OK", "EAGAIN", "TIMEDOUT", "EINTR", "WOKENUP", "PROCSTS", "FAULT",
           "GARBAGE"}
RtsFlags  == {"SENDING", "RECEIVING"}
MiscFlags == {"NOTIFY", "WOKENUP", "NOMIGRATE", "ATOMIC"}

Descriptors ==
    [rts     : SUBSET RtsFlags,             \* p_rts_flags, {} is PROC_RUNNING
     misc    : SUBSET MiscFlags,            \* p_misc_flags
     getfrom : Procs \cup {ANY, NONE},      \* p_getfrom
     sendto  : Procs \cup {NONE},           \* p_sendto
     sem     : {-1, 0},                     \* p_pseudosem
     rcode   : Rcodes,                      \* p_rcode
     pending : SUBSET Procs,                \* priv_notify_pending
     message : Procs \cup {HARDWARE, NONE}] \* source of p_message

\* "notify", "store", "lock": the unlocked notify loop of new_mini_receive.
\* "scan": walking the own queue, own mutex held.  "window": the same, own
\* mutex released.  "expired", "signaled": out of wait_event_*, not yet locked.
PcValues == {"user", "notify", "store", "lock", "scan", "window", "wild",
             "sleep", "expired", "signaled", "done"}

CallRecords == [op : Calls \cup {"none"}, peer : Procs \cup {ANY, NONE},
                timeout : {"timed", "forever", "none"}, both : BOOLEAN]
NoCall == [op |-> "none", peer |-> NONE, timeout |-> "none", both |-> FALSE]

TypeOK ==
    /\ proc \in [Procs -> Descriptors]
    /\ lists \in [next : [Links -> Links], prev : [Links -> Links]]
    /\ pc \in [Procs -> PcValues]
    /\ call \in [Procs -> CallRecords]
    /\ walk \in [Procs -> [xpp : Links, tmp : Links]]
    /\ chunk \in [Procs -> SUBSET Procs]
    /\ ret \in [Procs -> Rcodes]
    /\ copied \in [Procs -> Nat]
    /\ got \in [Procs -> Seq(Procs \cup {HARDWARE, NONE})]

-----------------------------------------------------------------------------
(* list_head: the kernel's circular lists, assignment by assignment *)

InitListHead(l, e) ==
    [next |-> [l.next EXCEPT ![e] = e], prev |-> [l.prev EXCEPT ![e] = e]]

ListAddTail(l, e, head) ==
    LET tail == l.prev[head]
    IN  [next |-> [l.next EXCEPT ![e] = head, ![tail] = e],
         prev |-> [l.prev EXCEPT ![head] = e, ![e] = tail]]

ListDelInit_NoInit(l, e) ==          \* mutant: list_del, the node keeps its links
    [next |-> [l.next EXCEPT ![l.prev[e]] = l.next[e]],
     prev |-> [l.prev EXCEPT ![l.next[e]] = l.prev[e]]]

ListDelInit(l, e) ==
    LET after == l.next[e]
        before == l.prev[e]
    IN  [next |-> [l.next EXCEPT ![before] = after, ![e] = e],
         prev |-> [l.prev EXCEPT ![after] = before, ![e] = e]]

Enqueue_AtHead(l, p, d) ==           \* mutant: list_add
    ListAddTail(InitListHead(l, ListNode(p)), ListNode(p), l.next[ListHead(d)])

\* A sender appends itself to the p_list of its destination.
Enqueue(l, p, d) == ListAddTail(InitListHead(l, ListNode(p)), ListNode(p), ListHead(d))

-----------------------------------------------------------------------------
(* Operations on one descriptor *)

Set(d, bit)   == [d EXCEPT !.rts = @ \cup {bit}]
Mark(d, bit)  == [d EXCEPT !.misc = @ \cup {bit}]
Clear(d, bit) == [d EXCEPT !.misc = @ \ {bit}]

EndSend_KeepsFlag(d)    == [d EXCEPT !.sendto = NONE]     \* mutants: p_rts_flags
EndReceive_Forgotten(d) == d                              \* is not cleared
EndSend(d)    == [d EXCEPT !.rts = @ \ {"SENDING"}, !.sendto = NONE]
EndReceive(d) == [d EXCEPT !.rts = @ \ {"RECEIVING"}, !.getfrom = NONE]

Wake_Early(d, rc) ==                 \* mutant: the other flags are not looked at
    [d EXCEPT !.rcode = rc, !.sem = @ + 1]
Wake_NoUp(d, rc) ==                  \* mutant: no up of the semaphore
    IF d.rts = {} THEN [d EXCEPT !.rcode = rc] ELSE d

\* LOCAL_PROC_UP, made by every caller only if no rts flag is left.
Wake(d, rc) ==
    IF d.rts = {} THEN [d EXCEPT !.rcode = rc, !.sem = @ + 1] ELSE d

Waits_IgnoresSending(d, s) ==        \* mutant: SENDING is not tested
    "RECEIVING" \in d.rts /\ d.getfrom \in {ANY, s}

\* "Check if dst is blocked waiting for this message", sent in the name of s.
Waits(d, s) ==
    /\ "RECEIVING" \in d.rts /\ "SENDING" \notin d.rts
    /\ d.getfrom \in {ANY, s}

SendsTo_AnyDestination(d, p) ==      \* mutant: p_sendto is not tested
    "SENDING" \in d.rts

\* The status test of a sender found in the queue of p.
SendsTo(d, p) == "SENDING" \in d.rts /\ d.sendto = p

\* Entry of sleep_proc: the semaphore is taken down and p_rcode reset.
Down(d) == [d EXCEPT !.sem = -1, !.rcode = "OK"]

Up_Always(d, rc) ==                  \* mutant: the semaphore is not looked at
    [d EXCEPT !.rcode = rc, !.sem = IF rc # "OK" THEN @ + 1 ELSE @]

\* Exit of sleep_proc with the result rc.
Up(d, rc) == [d EXCEPT !.rcode = rc,
                       !.sem = IF rc # "OK" /\ @ < 0 THEN @ + 1 ELSE @]

-----------------------------------------------------------------------------
(* The calling thread *)

\* q's mutex can be taken: only a receiver walking its queue keeps it.
Unlocked(q) == pc[q] # "scan"

\* check_caller, the privilege checks and the first WLOCK_PROC of a call.
Enter(p, op) == pc[p] = "user" /\ op \in DvkAllowed[p]
EnterTo(p, op, d) == Enter(p, op) /\ d \in IpcTo[p] /\ Unlocked(d)

Calling(p, op, peer, t, both) ==
    call' = [call EXCEPT ![p] =
                [op |-> op, peer |-> peer, timeout |-> t, both |-> both]]
Goto(p, l) == pc' = [pc EXCEPT ![p] = l]

\* The call unlocks, and returns rc.
Finish(p, rc) == Goto(p, "done") /\ ret' = [ret EXCEPT ![p] = rc]

\* One message passes from the buffer of s to the buffer of d.
Copy(s, d) ==
    /\ copied' = [copied EXCEPT ![s] = @ + 1]
    /\ got' = [got EXCEPT ![d] = Append(@, s)]

Leaves_OnlyWoken(p, op) ==           \* mutant: waits on for the semaphore
    /\ call[p].op = op
    /\ pc[p] \in {"sleep", "expired", "signaled"} /\ proc[p].sem >= 0
    /\ call[p].both => Unlocked(call[p].peer)

\* The thread leaves wait_event_*: woken, timed out or interrupted.
Leaves(p, op) ==
    /\ call[p].op = op
    /\ \/ pc[p] = "sleep" /\ proc[p].sem >= 0
       \/ pc[p] \in {"expired", "signaled"}
    /\ call[p].both => Unlocked(call[p].peer)

SleepResult_IgnoresTimeout(p) ==     \* mutant: the timeout is taken for OK
    IF pc[p] = "signaled" THEN "EINTR" ELSE proc[p].rcode

\* What sleep_proc and sleep_proc2 return.
SleepResult(p) ==
    IF pc[p] = "signaled" THEN "EINTR"
    ELSE IF proc[p].rcode # "OK" THEN proc[p].rcode
    ELSE IF pc[p] = "expired" THEN "TIMEDOUT"
    ELSE "OK"

-----------------------------------------------------------------------------
(* new_mini_send *)

SendDeliver(p, d) ==
    /\ EnterTo(p, "send", d)
    /\ Waits(proc[d], p)
    /\ Calling(p, "send", d, "none", FALSE)
    /\ \/ /\ TRUE \in Faults
          /\ Finish(p, "FAULT")
          /\ proc' = [proc EXCEPT ![p].rcode = "OK"]
          /\ UNCHANGED hist
       \/ /\ Finish(p, "OK")
          /\ Copy(p, d)
          /\ proc' = [proc EXCEPT
                ![p] = IF "ATOMIC" \in proc[d].misc
                       THEN Clear([@ EXCEPT !.rcode = "OK"], "NOMIGRATE")
                       ELSE [@ EXCEPT !.rcode = "OK"],
                ![d] = Wake(EndReceive(Clear(@, "ATOMIC")), "OK")]
    /\ UNCHANGED <<lists, local>>

SendBlock(p, d) ==
    /\ EnterTo(p, "send", d)
    /\ ~Waits(proc[d], p)
    /\ \E t \in Timeouts \ {"nowait"} : Calling(p, "send", d, t, TRUE)
    /\ proc' = [proc EXCEPT ![p] = Down([Set(@, "SENDING") EXCEPT !.sendto = d])]
    /\ lists' = Enqueue(lists, p, d)
    /\ Goto(p, "sleep")
    /\ UNCHANGED <<local, hist, ret>>

\* TIMEOUT_NOWAIT: sleep_proc2 returns EDVSAGAIN with both mutexes held.
SendAgain(p, d) ==
    /\ EnterTo(p, "send", d)
    /\ ~Waits(proc[d], p)
    /\ "nowait" \in Timeouts
    /\ Calling(p, "send", d, "none", FALSE)
    /\ proc' = [proc EXCEPT ![p] = EndSend([@ EXCEPT !.rcode = "EAGAIN"])]
    /\ lists' = ListDelInit(Enqueue(lists, p, d), ListNode(p))
    /\ Finish(p, "EAGAIN")
    /\ UNCHANGED <<local, hist>>

SendDone(p) ==
    /\ Leaves(p, "send")
    /\ LET rc == SleepResult(p)
           fails == rc # "OK"
           d == Up(proc[p], rc)
       IN  /\ proc' = [proc EXCEPT ![p] = IF fails THEN EndSend(d) ELSE d]
           /\ lists' = IF fails /\ "SENDING" \in proc[p].rts
                       THEN ListDelInit(lists, ListNode(p)) ELSE lists
           /\ Finish(p, rc)
    /\ UNCHANGED <<call, local, hist>>

-----------------------------------------------------------------------------
(* new_mini_receive: the pending notifications, read without the mutex *)

ReceiveStart(p, s) ==
    /\ Enter(p, "receive") /\ s \in Sources[p] /\ s # p
    /\ Calling(p, "receive", s, "none", FALSE)
    /\ IF "WOKENUP" \in proc[p].misc /\ s = ANY
       THEN proc' = [proc EXCEPT ![p] = Clear(@, "WOKENUP")] /\ Finish(p, "WOKENUP")
       ELSE UNCHANGED <<proc, ret>> /\ Goto(p, "notify")
    /\ UNCHANGED <<lists, local, hist>>

\* No chunk has a bit: the receiver goes on to lock itself.
NotifyNone(p) ==
    /\ pc[p] = "notify" /\ proc[p].pending = {}
    /\ Goto(p, "lock")
    /\ UNCHANGED <<proc, lists, call, local, ret, hist>>

\* The load of "*chunk &= ~(1 << i)".
NotifyLoad(p) ==
    /\ pc[p] = "notify" /\ proc[p].pending # {}
    /\ chunk' = [chunk EXCEPT ![p] = proc[p].pending]
    /\ Goto(p, "store")
    /\ UNCHANGED <<proc, lists, call, walk, ret, hist>>

\* Its store, then BUILD_NOTIFY_MSG for the lowest bit i.  The asked source is
\* overwritten by the one found: every pending notification is suitable.
NotifyStore(p) ==
    /\ pc[p] = "store"
    /\ \E i \in chunk[p] :
          LET source == IF i = p THEN HARDWARE ELSE i
          IN  /\ \A j \in chunk[p] : i <= j
              /\ proc' = [proc EXCEPT ![p].pending = chunk[p] \ {i},
                                      ![p].message = source]
              /\ got' = [got EXCEPT ![p] = Append(@, source)]
    /\ chunk' = [chunk EXCEPT ![p] = {}]
    /\ Finish(p, "OK")
    /\ UNCHANGED <<lists, call, walk, copied>>

-----------------------------------------------------------------------------
(* new_mini_receive and new_mini_rcvrqst: the queue of senders *)

FirstOf(l, p) ==
    LET first == l.next[ListHead(p)] IN [xpp |-> first, tmp |-> l.next[first]]

StartScan(p) ==
    /\ Goto(p, "scan")
    /\ walk' = [walk EXCEPT ![p] = FirstOf(lists, p)]

ReceiveLock(p) ==
    /\ pc[p] = "lock"
    /\ StartScan(p)
    /\ UNCHANGED <<proc, lists, call, chunk, ret, hist>>

RcvrqstStart_NoWakeup(p) ==          \* mutant: no WAKE UP CONTROL
    /\ Enter(p, "rcvrqst")
    /\ Calling(p, "rcvrqst", ANY, "none", FALSE)
    /\ StartScan(p)
    /\ UNCHANGED <<proc, lists, chunk, ret, hist>>

RcvrqstStart(p) ==
    /\ Enter(p, "rcvrqst")
    /\ Calling(p, "rcvrqst", ANY, "none", FALSE)
    /\ IF "WOKENUP" \in proc[p].misc
       THEN /\ proc' = [proc EXCEPT ![p] = Clear(@, "WOKENUP")]
            /\ Finish(p, "WOKENUP") /\ UNCHANGED walk
       ELSE StartScan(p) /\ UNCHANGED <<proc, ret>>
    /\ UNCHANGED <<lists, chunk, hist>>

\* The mutexes are taken in the order of p_nr: to lock a lower sender the
\* receiver first releases its own mutex.
ScanInvert(p) ==
    /\ pc[p] = "scan"
    /\ \E x \in Procs : walk[p].xpp = ListNode(x) /\ p >= x
    /\ Goto(p, "window")
    /\ UNCHANGED <<proc, lists, call, local, ret, hist>>

\* Both mutexes are held: x is the sender the walk is at.
Visits(p, x) ==
    /\ walk[p].xpp = ListNode(x)
    /\ \/ pc[p] = "scan" /\ p < x
       \/ pc[p] = "window"
    /\ Unlocked(x)

ScanSkip(p) ==
    /\ \E x \in Procs : Visits(p, x) /\ call[p].peer \notin {ANY, x}
    /\ walk' = [walk EXCEPT ![p] = [xpp |-> walk[p].tmp,
                                    tmp |-> lists.next[walk[p].tmp]]]
    /\ Goto(p, "scan")
    /\ UNCHANGED <<proc, lists, call, chunk, ret, hist>>

NoWalk(p) == walk' = [walk EXCEPT ![p] = [xpp |-> ListHead(p), tmp |-> ListHead(p)]]

\* The node is unlinked before the sender is looked at.
ScanRefuse(p, x) ==
    /\ Visits(p, x) /\ call[p].peer \in {ANY, x}
    /\ ~SendsTo(proc[x], p)
    /\ lists' = ListDelInit(lists, ListNode(x))
    /\ NoWalk(p)
    /\ Finish(p, "PROCSTS")
    /\ UNCHANGED <<proc, call, chunk, hist>>

ScanTake(p, x) ==
    /\ Visits(p, x) /\ call[p].peer \in {ANY, x}
    /\ SendsTo(proc[x], p)
    /\ lists' = ListDelInit(lists, ListNode(x))
    /\ \E rc \in {"OK"} \cup (IF TRUE \in Faults THEN {"FAULT"} ELSE {}) :
          /\ IF rc = "OK" THEN Copy(x, p) ELSE UNCHANGED hist
          /\ proc' = [proc EXCEPT
                ![x] = Wake(EndSend(@), rc),
                ![p] = IF call[p].op = "receive" /\ "ATOMIC" \in proc[x].misc
                       THEN Mark(@, "NOMIGRATE") ELSE @]
          /\ Finish(p, rc)
    /\ NoWalk(p)
    /\ UNCHANGED <<call, chunk>>

\* The walk reached the head of another queue: what follows is not a process.
ScanWild(p) ==
    /\ pc[p] = "scan"
    /\ \E q \in Procs \ {p} : walk[p].xpp = ListHead(q)
    /\ Goto(p, "wild")
    /\ UNCHANGED <<proc, lists, call, local, ret, hist>>

AtEnd(p) == pc[p] = "scan" /\ walk[p].xpp = ListHead(p)

\* No sender: the receiver sleeps.
ReceiveBlock(p) ==
    /\ AtEnd(p)
    /\ \E t \in Timeouts \ {"nowait"} :
          Calling(p, call[p].op, call[p].peer, t, FALSE)
    /\ proc' = [proc EXCEPT ![p] =
          Down([Set(Clear(@, "NOTIFY"), "RECEIVING") EXCEPT !.getfrom = call[p].peer])]
    /\ NoWalk(p)
    /\ Goto(p, "sleep")
    /\ UNCHANGED <<lists, chunk, ret, hist>>

ReceiveAgain(p) ==
    /\ AtEnd(p)
    /\ "nowait" \in Timeouts
    /\ proc' = [proc EXCEPT ![p] =
          EndReceive([Clear(@, "NOTIFY") EXCEPT !.rcode = "EAGAIN"])]
    /\ NoWalk(p)
    /\ Finish(p, "EAGAIN")
    /\ UNCHANGED <<lists, call, chunk, hist>>

ReceiveDone(p) ==
    /\ Leaves(p, "receive")
    /\ LET rc == SleepResult(p)
           d == Clear(Up(proc[p], rc), "NOTIFY")
           notified == rc = "OK" /\ "NOTIFY" \in proc[p].misc
       IN  /\ proc' = [proc EXCEPT ![p] = IF rc = "OK" THEN d ELSE EndReceive(d)]
           /\ got' = IF notified
                     THEN [got EXCEPT ![p] = Append(@, proc[p].message)] ELSE got
           /\ Finish(p, rc)
    /\ UNCHANGED <<lists, call, local, copied>>

\* MIS_BIT_NOTIFY is neither looked at nor cleared here.
RcvrqstDone(p) ==
    /\ Leaves(p, "rcvrqst")
    /\ LET rc == SleepResult(p)
       IN  /\ proc' = [proc EXCEPT ![p] = EndReceive(Up(@, rc))]
           /\ Finish(p, rc)
    /\ UNCHANGED <<lists, call, local, hist>>

-----------------------------------------------------------------------------
(* new_mini_sendrec *)

\* The destination waits: the request is copied, the caller waits for the reply.
SendrecDeliver(p, d) ==
    /\ EnterTo(p, "sendrec", d)
    /\ Waits(proc[d], p)
    /\ Copy(p, d)
    /\ \/ /\ \E t \in Timeouts \ {"nowait"} : Calling(p, "sendrec", d, t, FALSE)
          /\ proc' = [proc EXCEPT
                ![p] = Down([Set(Mark(@, "ATOMIC"), "RECEIVING") EXCEPT !.getfrom = d]),
                ![d] = Wake(EndReceive(Mark(@, "NOMIGRATE")), "OK")]
          /\ Goto(p, "sleep") /\ UNCHANGED ret
       \/ /\ "nowait" \in Timeouts
          /\ Calling(p, "sendrec", d, "none", FALSE)
          /\ proc' = [proc EXCEPT
                ![p] = EndSend(EndReceive(Clear([@ EXCEPT !.rcode = "EAGAIN"], "ATOMIC"))),
                ![d] = Wake(EndReceive(Mark(@, "NOMIGRATE")), "OK")]
          /\ Finish(p, "EAGAIN")
    /\ UNCHANGED <<lists, local>>

\* The copy fails: the destination is woken with the error too.
SendrecFault(p, d) ==
    /\ EnterTo(p, "sendrec", d)
    /\ Waits(proc[d], p)
    /\ TRUE \in Faults
    /\ Calling(p, "sendrec", d, "none", FALSE)
    /\ proc' = [proc EXCEPT
          ![p] = EndSend(EndReceive(Clear([@ EXCEPT !.rcode = "OK"], "ATOMIC"))),
          ![d] = Clear(Wake(EndReceive(@), "FAULT"), "NOMIGRATE")]
    /\ Finish(p, "FAULT")
    /\ UNCHANGED <<lists, local, hist>>

\* The destination is itself sending to the caller: its message is the reply.
\* It stays linked in the queue of the caller, whose request is not sent, and
\* is woken with the uninitialized ret1.
SendrecTake(p, d) ==
    /\ EnterTo(p, "sendrec", d)
    /\ ~Waits(proc[d], p)
    /\ SendsTo(proc[d], p)
    /\ Calling(p, "sendrec", d, "none", FALSE)
    /\ \E ret1 \in {"OK", "GARBAGE"}, fault \in Faults :
          /\ proc' = [proc EXCEPT
                ![d] = Wake(EndSend(Clear(@, "NOMIGRATE")), ret1),
                ![p] = IF fault
                       THEN EndSend(Mark([@ EXCEPT !.rcode = "OK", !.getfrom = NONE], "ATOMIC"))
                       ELSE Clear([@ EXCEPT !.rcode = "OK", !.getfrom = d], "ATOMIC")]
          /\ IF fault THEN UNCHANGED hist /\ Finish(p, "FAULT")
                      ELSE Copy(d, p) /\ Finish(p, "OK")
    /\ UNCHANGED <<lists, local>>

\* Otherwise the caller queues, sending and receiving at once.
QueuesRequest(p, d) ==
    /\ EnterTo(p, "sendrec", d)
    /\ ~Waits(proc[d], p)
    /\ ~SendsTo(proc[d], p)

SendrecBlock(p, d) ==
    /\ QueuesRequest(p, d)
    /\ \E t \in Timeouts \ {"nowait"} : Calling(p, "sendrec", d, t, TRUE)
    /\ proc' = [proc EXCEPT
          ![p] = Down([Mark(@, "ATOMIC") EXCEPT !.rts = RtsFlags, !.getfrom = d, !.sendto = d]),
          ![d] = Clear(@, "NOMIGRATE")]
    /\ lists' = Enqueue(lists, p, d)
    /\ Goto(p, "sleep")
    /\ UNCHANGED <<local, ret, hist>>

SendrecAgain(p, d) ==
    /\ QueuesRequest(p, d)
    /\ "nowait" \in Timeouts
    /\ Calling(p, "sendrec", d, "none", FALSE)
    /\ proc' = [proc EXCEPT
          ![p] = EndSend(EndReceive(Clear([@ EXCEPT !.rcode = "EAGAIN"], "ATOMIC"))),
          ![d] = Clear(@, "NOMIGRATE")]
    /\ lists' = ListDelInit(Enqueue(lists, p, d), ListNode(p))
    /\ Finish(p, "EAGAIN")
    /\ UNCHANGED <<local, hist>>

SendrecDone(p) ==
    /\ Leaves(p, "sendrec")
    /\ LET rc == SleepResult(p)
           d == Clear(Up(proc[p], rc), "ATOMIC")
       IN  /\ proc' = [proc EXCEPT ![p] =
                          IF rc = "OK" THEN d ELSE EndSend(EndReceive(d))]
           /\ lists' = IF rc # "OK" /\ call[p].both /\ "SENDING" \in proc[p].rts
                       THEN ListDelInit(lists, ListNode(p)) ELSE lists
           /\ Finish(p, rc)
    /\ UNCHANGED <<call, local, hist>>

-----------------------------------------------------------------------------
(* new_mini_reply: never queues *)

AwaitsReply(d, p) == Waits(d, p) /\ d.getfrom = p

Reply(p, d) ==
    /\ EnterTo(p, "reply", d)
    /\ AwaitsReply(proc[d], p)
    /\ Calling(p, "reply", d, "none", FALSE)
    /\ \/ /\ TRUE \in Faults
          /\ proc' = [proc EXCEPT ![p].rcode = "OK"]
          /\ Finish(p, "FAULT") /\ UNCHANGED hist
       \/ /\ proc' = [proc EXCEPT ![p].rcode = "OK", ![d] = Wake(EndReceive(@), "OK")]
          /\ Copy(p, d) /\ Finish(p, "OK")
    /\ UNCHANGED <<lists, local>>

ReplyRefuse(p, d) ==
    /\ EnterTo(p, "reply", d)
    /\ ~AwaitsReply(proc[d], p)
    /\ Calling(p, "reply", d, "none", FALSE)
    /\ proc' = [proc EXCEPT ![p].rcode = "OK"]
    /\ Finish(p, "PROCSTS")
    /\ UNCHANGED <<lists, local, hist>>

-----------------------------------------------------------------------------
(* new_mini_notify, new_hdw_notify, new_wakeup: never block *)

\* The message is built in the descriptor of the destination.
Notified(d, s) == Wake(EndReceive(Mark([d EXCEPT !.message = s], "NOTIFY")), "OK")

Pend(d, i) == [d EXCEPT !.pending = @ \cup {i}]

Notify(p, s, d) ==
    /\ EnterTo(p, "notify", d) /\ s \in NotifyAs[p]
    /\ Calling(p, "notify", d, "none", FALSE)
    /\ proc' = [proc EXCEPT
          ![p].rcode = "OK",
          ![d] = IF Waits(@, s) THEN Notified(@, s)
                 ELSE Pend(@, p)]
    /\ Finish(p, "OK")
    /\ UNCHANGED <<lists, local, hist>>

\* A hardware notification waits under the bit of its own destination.
HdwNotify(d) ==
    /\ d \in Interrupted /\ Unlocked(d)
    /\ proc' = [proc EXCEPT ![d] =
          IF Waits(@, HARDWARE) THEN Notified(@, HARDWARE)
          ELSE Pend(@, d)]
    /\ UNCHANGED <<lists, pc, call, local, ret, hist>>

WakeUp(d) ==
    /\ d \in Wakeable /\ Unlocked(d)
    /\ proc' = [proc EXCEPT ![d] =
          IF "RECEIVING" \in @.rts /\ @.getfrom = ANY
          THEN LET woken == EndReceive(@)
               IN  IF woken.rts = {} THEN Wake(woken, "WOKENUP") ELSE Mark(woken, "WOKENUP")
          ELSE Mark(@, "WOKENUP")]
    /\ UNCHANGED <<lists, pc, call, local, ret, hist>>

-----------------------------------------------------------------------------
(* Timers, signals and the return to user mode *)

\* wait_event_interruptible_timeout gives up with the condition still false:
\* from here to the lock the process looks asleep to its peers.
TimerExpires(p) ==
    /\ pc[p] = "sleep" /\ proc[p].sem < 0 /\ call[p].timeout = "timed"
    /\ Goto(p, "expired")
    /\ UNCHANGED <<proc, lists, call, local, ret, hist>>

SignalArrives(p) ==
    /\ Signals
    /\ pc[p] = "sleep" /\ proc[p].sem < 0
    /\ Goto(p, "signaled")
    /\ UNCHANGED <<proc, lists, call, local, ret, hist>>

Return(p) ==
    /\ pc[p] = "done"
    /\ Goto(p, "user")
    /\ call' = [call EXCEPT ![p] = NoCall]
    /\ ret' = [ret EXCEPT ![p] = "OK"]
    /\ copied' = [copied EXCEPT ![p] = 0]
    /\ got' = [got EXCEPT ![p] = << >>]
    /\ UNCHANGED <<proc, lists, local>>

-----------------------------------------------------------------------------
Running ==
    [rts |-> {}, misc |-> {}, getfrom |-> NONE, sendto |-> NONE, sem |-> 0,
     rcode |-> "OK", pending |-> {}, message |-> NONE]

Init ==
    /\ proc = [p \in Procs |-> Running]
    /\ lists = [next |-> [l \in Links |-> l], prev |-> [l \in Links |-> l]]
    /\ pc = [p \in Procs |-> "user"]
    /\ call = [p \in Procs |-> NoCall]
    /\ walk = [p \in Procs |-> [xpp |-> ListHead(p), tmp |-> ListHead(p)]]
    /\ chunk = [p \in Procs |-> {}]
    /\ ret = [p \in Procs |-> "OK"]
    /\ copied = [p \in Procs |-> 0]
    /\ got = [p \in Procs |-> << >>]

\* A user program makes a call.
CallSend(p) == \E d \in Procs : SendDeliver(p, d) \/ SendBlock(p, d) \/ SendAgain(p, d)
CallSendrec(p) == \E d \in Procs :
    \/ SendrecDeliver(p, d) \/ SendrecFault(p, d) \/ SendrecTake(p, d)
    \/ SendrecBlock(p, d) \/ SendrecAgain(p, d)
CallReply(p) == \E d \in Procs : Reply(p, d) \/ ReplyRefuse(p, d)
CallNotify(p) == \E s, d \in Procs : Notify(p, s, d)
CallReceive(p) == \E s \in Procs \cup {ANY} : ReceiveStart(p, s)

\* The kernel carries a call on.
Continue(p) ==
    \/ NotifyNone(p) \/ NotifyLoad(p) \/ NotifyStore(p) \/ ReceiveLock(p)
    \/ ScanInvert(p) \/ ScanSkip(p) \/ ScanWild(p)
    \/ \E x \in Procs : ScanTake(p, x) \/ ScanRefuse(p, x)
    \/ ReceiveBlock(p) \/ ReceiveAgain(p)
    \/ SendDone(p) \/ ReceiveDone(p) \/ RcvrqstDone(p) \/ SendrecDone(p)
    \/ Return(p)

Step(p) ==
    \/ CallSend(p) \/ CallReceive(p) \/ CallSendrec(p) \/ RcvrqstStart(p)
    \/ CallReply(p) \/ CallNotify(p)
    \/ Continue(p)
    \/ TimerExpires(p) \/ SignalArrives(p)
    \/ HdwNotify(p) \/ WakeUp(p)

Next == \E p \in Procs : Step(p)

Spec == Init /\ [][Next]_vars

-----------------------------------------------------------------------------
(* Fairness.  A thread the scheduler runs carries its call on, and a timer   *)
(* fires.  A thread that waits for a mutex gets it: the mutexes hand over to *)
(* the waiter, so its step is taken even when it is enabled only repeatedly. *)

ReceivesForever(p) == CallReceive(p) \/ RcvrqstStart(p)

Fairness(servers) ==
    /\ \A p \in Procs : SF_vars(Continue(p)) /\ WF_vars(TimerExpires(p))
    /\ \A p \in servers : WF_vars(ReceivesForever(p))

-----------------------------------------------------------------------------
(* Properties *)

Asleep(p) == pc[p] \in {"sleep", "expired", "signaled"}
Unwoken(p) == Asleep(p) /\ proc[p].sem = -1

\* The wakeup protocol ("A process is runnable iff p_rts_flags == 0"): a flag is
\* set exactly while the process is asleep and nobody has woken it.  No wakeup
\* is lost (flags cleared, semaphore still down), early or doubled, and no call,
\* however it ends, leaves a flag on a running process.
WakeProtocol == \A p \in Procs : proc[p].rts # {} <=> Unwoken(p)

\* The message of a blocked sender has not been copied yet, and no message is
\* copied out twice, whatever race a timeout, a signal and a receiver run.
CopiedAtMostOnce ==
    \A p \in Procs :
        /\ copied[p] <= 1
        /\ "SENDING" \in proc[p].rts => copied[p] = 0

\* A call takes in at most one message, and nobody writes a message over the
\* buffer of a process that has left the kernel: the late sender of a receive
\* or sendrec that timed out finds no receiver.
FilledAtMostOnce ==
    \A p \in Procs : Len(got[p]) <= (IF pc[p] = "user" THEN 0 ELSE 1)

\* What a send or a reply returns is what happened to the message.  OK: it was
\* copied.  An error: it was not, unless it is a timeout or a signal, which may
\* race the receiver, or the garbage of new_mini_sendrec's ret1.
SendReports ==
    \A p \in Procs : pc[p] = "done" /\ call[p].op \in {"send", "reply"} =>
        /\ ret[p] = "OK" => copied[p] = 1
        /\ ret[p] \in {"EAGAIN", "PROCSTS", "FAULT"} => copied[p] = 0

\* The same for a receive: OK is one message, from a process asked for.
ReceiveReports ==
    \A p \in Procs : pc[p] = "done" /\ call[p].op \in {"receive", "rcvrqst"} =>
        /\ ret[p] = "OK" => Len(got[p]) = 1 /\ call[p].peer \in {ANY, got[p][1]}
        /\ ret[p] \in {"EAGAIN", "PROCSTS", "FAULT", "WOKENUP"} => got[p] = << >>

\* What every call of DvkIpc but a sendrec returns is what happened.
CallsReport == SendReports /\ ReceiveReports

\* A sendrec that returns OK has delivered its request once and brings the
\* reply of the process it asked; no reply comes before the request has gone.
SendrecReports ==
    \A p \in Procs : call[p].op = "sendrec" =>
        /\ pc[p] = "done" /\ ret[p] = "OK" => copied[p] = 1 /\ got[p] = <<call[p].peer>>
        /\ got[p] # <<>> => copied[p] = 1

\* A message that leaves the buffer of its sender arrives at the process it is
\* sent to, also when the sender gave up and sent to another meanwhile.
Addressed ==
    [][\A x \in Procs : copied'[x] > copied[x] =>
          LET d == call'[x].peer
          IN  d \in Procs /\ got'[d] = Append(got[d], x)]_vars

\* new_wakeup interrupts the next rcvrqst: no server sleeps in rcvrqst over a
\* wakeup that came before it slept.
RcvrqstHeedsWakeup ==
    \A p \in Procs : call[p].op = "rcvrqst" /\ Unwoken(p) =>
        "WOKENUP" \notin proc[p].misc

Linked(p) == lists.next[ListNode(p)] # ListNode(p)

\* Every queue stays a circular doubly linked list, also when a node is deleted
\* by a receiver after its owner has deleted it, and appended it elsewhere.
ListsWellFormed ==
    \A l \in Links : lists.prev[lists.next[l]] = l /\ lists.next[lists.prev[l]] = l

\* A process is linked in a queue exactly while it is blocked sending, and its
\* neighbours there are the head of the queue of its destination or senders to
\* the same destination: no sender is lost, none is found where it is not.
QueueOf(l) == IF l[1] = "p_list" THEN l[2] ELSE proc[l[2]].sendto
QueueExact ==
    \A p \in Procs :
        /\ Linked(p) <=> "SENDING" \in proc[p].rts
        /\ Linked(p) => QueueOf(lists.next[ListNode(p)]) = proc[p].sendto
        /\ Linked(p) => QueueOf(lists.prev[ListNode(p)]) = proc[p].sendto

\* Every sender that blocks on a receiver that keeps receiving is served: no
\* wakeup is lost and no sender is overtaken for ever.
Served == \A p \in Procs : "SENDING" \in proc[p].rts ~> "SENDING" \notin proc[p].rts

\* Every blocking call with a timeout returns, whatever its peers do.
TimedReturns == \A p \in Procs : call[p].timeout = "timed" ~> pc[p] = "user"

\* Every sendrec to a server that keeps taking requests and replying returns.
Answered == \A p \in Procs : call[p].op = "sendrec" ~> call[p].op # "sendrec"

=============================================================================
