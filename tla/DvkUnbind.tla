----------------------------- MODULE DvkUnbind ------------------------------
(***************************************************************************)
(* How a process leaves its DC (new_exit_unbind, do_unbind), and how one   *)
(* process unbinds another (new_unbind), against the local calls that meet *)
(* it: send, sendrec, receive, reply and the sleeps.                       *)
(*                                                                         *)
(* The mutexes are explicit, those of the processes and the one of the DC: *)
(* needs[p] is what the thread of p has still to take, in this order, and  *)
(* the step at pc[p] runs once it has taken them all.  A mutex taken and   *)
(* released with no other held is left out, and so are the processes that  *)
(* are not local, notifications, messages and TIMEOUT_NOWAIT.              *)
(***************************************************************************)
EXTENDS Integers, Sequences, SequencesExt

CONSTANTS
    Procs,      \* p_nr of the processes bound to the DC
    ANY,        \* ANY: a receive that takes from every process
    NONE,       \* NONE: no process, or nobody
    DC,         \* the mutex of the DC
    Sends,      \* whom a process may send to
    Asks,       \* whom it may sendrec to
    Replies,    \* whom it may reply to
    Sources,    \* the endpoints it asks new_mini_receive for
    Unbinds,    \* whom it may unbind
    Leavers,    \* the processes that exit by themselves
    Timed       \* timeout_ms: FALSE is forever, TRUE a timeout

ASSUME ProcsAssumption == Procs \subseteq Int
ASSUME NamesAssumption ==
    /\ ANY \notin Procs /\ NONE \notin Procs /\ DC \notin Procs
    /\ ANY # NONE /\ DC # NONE
\* A receiver is below its senders: it does not release its mutex in a walk.
ASSUME CallsAssumption ==
    /\ Sends \in [Procs -> SUBSET Procs] /\ Asks \in [Procs -> SUBSET Procs]
    /\ \A p \in Procs : \A d \in Sends[p] \cup Asks[p] : d < p
    /\ Replies \in [Procs -> SUBSET Procs] /\ Unbinds \in [Procs -> SUBSET Procs]
    /\ Sources \in [Procs -> SUBSET (Procs \cup {ANY})]
    /\ \A p \in Procs : p \notin Replies[p] \cup Unbinds[p] \cup Sources[p]
    /\ Leavers \subseteq Procs /\ Timed \subseteq BOOLEAN

VARIABLES
    proc,      \* the process descriptors
    p_list,    \* the senders queued at a process
    p_ulist,   \* those waiting for it to unbind
    owner,     \* who holds a mutex
    needs,     \* the mutexes a thread has still to take, in order
    pc,        \* where the thread of a process is
    call,      \* the call it is making
    left,      \* what is left of the walk of its queue
    others,    \* what is left of its walk of the other processes
    killed,    \* it has been sent SIGTERM
    ret,       \* the code the call returns
    late       \* history: it went to sleep on a process that was leaving

locks  == <<owner, needs>>
lists  == <<p_list, p_ulist>>
walks  == <<left, others>>
thread == <<pc, call, ret>>
vars   == <<proc, lists, locks, thread, walks, killed, late>>

-----------------------------------------------------------------------------
(* Types *)

Locks == Procs \cup {DC}
RtsFlags == {"SLOT_FREE", "SENDING", "RECEIVING", "WAITUNBIND"}
Rcodes == {"OK", "DSTDIED", "SRCDIED", "DEADSRCDST", "NOTBIND", "PROCSTS",
           "SHUTDOWN", "TIMEDOUT", "EINTR"}

Descriptors ==
    [rts        : SUBSET RtsFlags,
     getfrom    : Procs \cup {ANY, NONE},
     sendto     : Procs \cup {NONE},
     waitunbind : Procs \cup {NONE},
     sem        : Int,
     rcode      : Rcodes]

Exiting == {"exit", "flush", "others", "unlist", "waiters", "init", "gone"}
PcValues == {"user", "send", "sendto", "sendrec", "source", "check", "scan", "visit",
             "reply", "unbind", "sleep", "woken", "expired", "signaled", "done"} \cup Exiting

CallRecords == [op : {"none", "send", "sendrec", "receive", "reply", "unbind"},
                peer : Procs \cup {ANY, NONE}, timed : BOOLEAN, both : BOOLEAN]
NoCall == [op |-> "none", peer |-> NONE, timed |-> FALSE, both |-> FALSE]

TypeOK ==
    /\ proc \in [Procs -> Descriptors]
    /\ p_list \in [Procs -> Seq(Procs)] /\ p_ulist \in [Procs -> Seq(Procs)]
    /\ owner \in [Locks -> Procs \cup {NONE}]
    /\ needs \in [Procs -> Seq(Locks)]
    /\ pc \in [Procs -> PcValues]
    /\ call \in [Procs -> CallRecords]
    /\ left \in [Procs -> Seq(Procs)] /\ others \in [Procs -> SUBSET Procs]
    /\ killed \in [Procs -> BOOLEAN]
    /\ ret \in [Procs -> Rcodes]
    /\ late \in [Procs -> BOOLEAN]

-----------------------------------------------------------------------------
(* The mutexes *)

\* WLOCK_ORDERED2: by p_nr, the lower one first.
Ordered(p, q) == IF p < q THEN <<p, q>> ELSE <<q, p>>

\* p takes the next mutex, when others are to follow.
Lock(p) ==
    /\ Len(needs[p]) > 1 /\ owner[Head(needs[p])] = NONE
    /\ owner' = [owner EXCEPT ![Head(needs[p])] = p]
    /\ needs' = [needs EXCEPT ![p] = Tail(@)]
    /\ UNCHANGED <<proc, lists, thread, walks, killed, late>>

\* The step at l: p has every mutex it needs, or takes the last one with it.
At(p, l) ==
    /\ pc[p] = l /\ Len(needs[p]) <= 1
    /\ \A i \in DOMAIN needs[p] : owner[needs[p][i]] = NONE

\* After the step p holds the mutexes in held, and is to take those in want.
Goto(p, l, held, want) ==
    /\ pc' = [pc EXCEPT ![p] = l]
    /\ needs' = [needs EXCEPT ![p] = want]
    /\ owner' = [k \in Locks |->
          IF k \in held THEN p ELSE IF owner[k] = p THEN NONE ELSE owner[k]]

\* The call unlocks, and returns rc.
Finish(p, rc) == Goto(p, "done", {}, <<>>) /\ ret' = [ret EXCEPT ![p] = rc]

-----------------------------------------------------------------------------
(* Operations on one descriptor *)

Gone(d) == "SLOT_FREE" \in proc[d].rts

Set(d, bits)   == [d EXCEPT !.rts = @ \cup bits]
Clear(d, bits) == [d EXCEPT !.rts = @ \ bits]
EndSend(d)     == [Clear(d, {"SENDING"}) EXCEPT !.sendto = NONE]
EndReceive(d)  == [Clear(d, {"RECEIVING"}) EXCEPT !.getfrom = NONE]

\* LOCAL_PROC_UP, and its use after a test of the flags.
Up(d, rc)   == [d EXCEPT !.rcode = rc, !.sem = @ + 1]
Wake(d, rc) == IF d.rts = {} THEN Up(d, rc) ELSE d

Waits(d, s) ==
    /\ "RECEIVING" \in d.rts /\ "SENDING" \notin d.rts
    /\ d.getfrom \in {ANY, s}

\* LIST_DEL_INIT: the entry of p leaves the list.
Without(s, p) ==
    IF p \in ToSet(s) THEN RemoveAt(s, CHOOSE i \in DOMAIN s : s[i] = p) ELSE s

-----------------------------------------------------------------------------
(* The calls *)

\* check_caller refuses a process that has a flag set (EDVSPROCRUN), and one
\* that was sent SIGTERM does not come back to its program to call.
Begin(p, op, d, both, l, want) ==
    /\ pc[p] = "user" /\ proc[p].rts = {} /\ ~killed[p]
    /\ \E t \in Timed : call' = [call EXCEPT ![p] = [op |-> op, peer |-> d, timed |-> t, both |-> both]]
    /\ Goto(p, l, {}, want)
    /\ UNCHANGED <<proc, lists, walks, killed, ret, late>>

\* mutant: a receive from ANY goes through the check of one source.
Call_AnyChecked(p) ==
    \E s \in Sources[p] : Begin(p, "receive", s, FALSE, "source", <<DC, p>>)

Call(p) ==
    \/ \E d \in Sends[p]    : Begin(p, "send", d, TRUE, "send", Ordered(p, d))
    \/ \E d \in Asks[p]     : Begin(p, "sendrec", d, TRUE, "sendrec", Ordered(p, d))
    \/ \E d \in Replies[p]  : Begin(p, "reply", d, TRUE, "reply", Ordered(p, d))
    \/ \E d \in Unbinds[p]  : Begin(p, "unbind", d, FALSE, "unbind", <<DC>> \o Ordered(p, d))
    \/ \E s \in Sources[p] \ {ANY} : Begin(p, "receive", s, FALSE, "source", <<DC, p>>)
    \/ ANY \in Sources[p] /\ Begin(p, "receive", ANY, FALSE, "scan", <<p>>)

\* A process that walked past d, or through its queue, on its way out.
Flushed(d) == pc[d] \in {"others", "unlist", "waiters", "init", "gone"}
Passed(d, p) == Flushed(d) /\ ~(pc[d] = "others" /\ p \in others[d])

\* sleep_proc and sleep_proc2: the semaphore is taken down, all is unlocked.
Sleep(p, d, isLate) ==
    /\ proc' = [proc EXCEPT ![p] = [d EXCEPT !.sem = -1, !.rcode = "OK"]]
    /\ late' = [late EXCEPT ![p] = isLate]
    /\ Goto(p, "sleep", {}, <<>>)

SendCheck(p) ==
    /\ At(p, "send")
    /\ LET d == call[p].peer
       IN  IF Gone(d) THEN Finish(p, "DSTDIED")
           ELSE Goto(p, "sendto", {p, d}, <<DC>>) /\ UNCHANGED ret
    /\ UNCHANGED <<proc, lists, call, walks, killed, late>>

SendDeliver(p) ==
    /\ At(p, "sendto") /\ Waits(proc[call[p].peer], p)
    /\ proc' = [proc EXCEPT ![call[p].peer] = Wake(EndReceive(@), "OK"), ![p].rcode = "OK"]
    /\ Finish(p, "OK")
    /\ UNCHANGED <<lists, call, walks, killed, late>>

\* p joins the queue of d, and sleeps.
Queue(p, d, flags) ==
    /\ Sleep(p, [Set(proc[p], flags) EXCEPT !.sendto = d,
                    !.getfrom = IF "RECEIVING" \in flags THEN d ELSE @], Flushed(d))
    /\ p_list' = [p_list EXCEPT ![d] = Append(@, p)]

SendBlock(p) ==
    /\ At(p, "sendto") /\ ~Waits(proc[call[p].peer], p)
    /\ Queue(p, call[p].peer, {"SENDING"})
    /\ UNCHANGED <<p_ulist, call, walks, killed, ret>>

\* sendrec does not take the mutex of the DC.
SendrecDied(p) ==
    /\ At(p, "sendrec") /\ Gone(call[p].peer)
    /\ Finish(p, "DEADSRCDST")
    /\ UNCHANGED <<proc, lists, call, walks, killed, late>>

SendrecDeliver(p) ==
    /\ At(p, "sendrec")
    /\ LET d == call[p].peer
       IN  /\ ~Gone(d) /\ Waits(proc[d], p)
           /\ proc' = [proc EXCEPT
                 ![d] = Wake(EndReceive(@), "OK"),
                 ![p] = [Set(@, {"RECEIVING"}) EXCEPT !.getfrom = d, !.sem = -1, !.rcode = "OK"]]
    /\ call' = [call EXCEPT ![p].both = FALSE]
    /\ Goto(p, "sleep", {}, <<>>)
    /\ UNCHANGED <<lists, walks, killed, ret, late>>

SendrecQueue(p) ==
    /\ At(p, "sendrec") /\ ~Gone(call[p].peer) /\ ~Waits(proc[call[p].peer], p)
    /\ Queue(p, call[p].peer, {"SENDING", "RECEIVING"})
    /\ UNCHANGED <<p_ulist, call, walks, killed, ret>>

Reply(p) ==
    /\ At(p, "reply")
    /\ LET d == call[p].peer
       IN  IF Gone(d) THEN Finish(p, "DSTDIED") /\ UNCHANGED proc
           ELSE IF Waits(proc[d], p) /\ proc[d].getfrom = p
           THEN /\ proc' = [proc EXCEPT ![d] = Wake(EndReceive(@), "OK")]
                /\ Finish(p, "OK")
           ELSE Finish(p, "PROCSTS") /\ UNCHANGED proc
    /\ UNCHANGED <<lists, call, walks, killed, late>>

\* A receive from one source takes its own mutex with the one of the DC held,
\* and then, alone, the one of the source.
ReceiveSource(p) ==
    /\ At(p, "source")
    /\ Goto(p, "check", {}, <<call[p].peer>>)
    /\ UNCHANGED <<proc, lists, call, walks, killed, ret, late>>

ReceiveCheck(p) ==
    /\ At(p, "check")
    /\ IF Gone(call[p].peer) THEN Finish(p, "SRCDIED")
       ELSE Goto(p, "scan", {}, <<p>>) /\ UNCHANGED ret
    /\ UNCHANGED <<proc, lists, call, walks, killed, late>>

ReceiveBlock(p) ==
    LET s == call[p].peer
    IN  /\ Sleep(p, [Set(proc[p], {"RECEIVING"}) EXCEPT !.getfrom = s],
                 s # ANY /\ Passed(s, p))
        /\ left' = [left EXCEPT ![p] = <<>>]
        /\ UNCHANGED ret

\* The walk of the own queue, xs of which are left.
Scan(p, xs) ==
    IF xs = <<>> THEN ReceiveBlock(p)
    ELSE /\ Goto(p, "visit", {p}, <<Head(xs)>>)
         /\ left' = [left EXCEPT ![p] = xs]
         /\ UNCHANGED <<proc, ret, late>>

ReceiveScan(p) ==
    /\ At(p, "scan")
    /\ Scan(p, p_list[p])
    /\ UNCHANGED <<lists, call, others, killed>>

ReceiveVisit(p) ==
    /\ At(p, "visit")
    /\ LET x == Head(left[p])
       IN  IF call[p].peer \notin {ANY, x} THEN Scan(p, Tail(left[p])) /\ UNCHANGED p_list
           ELSE /\ p_list' = [p_list EXCEPT ![p] = Without(@, x)]
                /\ left' = [left EXCEPT ![p] = <<>>]
                /\ IF "SENDING" \in proc[x].rts /\ proc[x].sendto = p
                   THEN proc' = [proc EXCEPT ![x] = Wake(EndSend(@), "OK")] /\ Finish(p, "OK")
                   ELSE UNCHANGED proc /\ Finish(p, "PROCSTS")
                /\ UNCHANGED late
    /\ UNCHANGED <<p_ulist, call, others, killed>>

-----------------------------------------------------------------------------
(* The end of a sleep *)

Awake == {"woken", "expired", "signaled"}

\* mutant: the wait is not interruptible.
WakesUp_NoSignal(p) ==
    /\ pc[p] = "sleep" /\ (proc[p].sem >= 0 \/ call[p].timed)
    /\ Goto(p, IF proc[p].sem >= 0 THEN "woken" ELSE "expired", {},
            IF call[p].both THEN Ordered(p, call[p].peer) ELSE <<p>>)
    /\ UNCHANGED <<proc, lists, call, ret, walks, killed, late>>

\* wait_event_interruptible_timeout looks at the semaphore first.
WakesUp(p) ==
    /\ pc[p] = "sleep"
    /\ \E l \in Awake :
          /\ IF proc[p].sem >= 0 THEN l = "woken"
             ELSE (l = "expired" /\ call[p].timed) \/ (l = "signaled" /\ killed[p])
          /\ Goto(p, l, {}, IF call[p].both THEN Ordered(p, call[p].peer) ELSE <<p>>)
    /\ UNCHANGED <<proc, lists, call, ret, walks, killed, late>>

Result(p) ==
    IF pc[p] = "signaled" THEN "EINTR"
    ELSE IF proc[p].rcode # "OK" THEN proc[p].rcode
    ELSE IF pc[p] = "expired" THEN "TIMEDOUT"
    ELSE "OK"

\* What a call that failed clears: an unbind nothing, its flag stays.
Cleaned(op, d) ==
    IF op = "send" THEN EndSend(d)
    ELSE IF op = "receive" THEN EndReceive(d)
    ELSE IF op = "sendrec" THEN EndSend(EndReceive(d))
    ELSE d

\* The result goes to ret: p_rcode is not read again before it is reset.
CallDone(p) ==
    /\ \E l \in Awake : At(p, l)
    /\ LET rc == Result(p)
           d == [proc[p] EXCEPT !.rcode = "OK", !.sem = IF rc # "OK" /\ @ < 0 THEN @ + 1 ELSE @]
       IN  /\ proc' = [proc EXCEPT ![p] = IF rc = "OK" THEN d ELSE Cleaned(call[p].op, d)]
           /\ p_list' = IF rc # "OK" /\ "SENDING" \in d.rts
                        THEN [p_list EXCEPT ![call[p].peer] = Without(@, p)] ELSE p_list
           /\ Finish(p, rc)
    /\ UNCHANGED <<p_ulist, call, walks, killed, late>>

Return(p) ==
    /\ pc[p] = "done"
    /\ Goto(p, "user", {}, <<>>)
    /\ call' = [call EXCEPT ![p] = NoCall] /\ ret' = [ret EXCEPT ![p] = "OK"]
    /\ late' = [late EXCEPT ![p] = FALSE]
    /\ UNCHANGED <<proc, lists, walks, killed>>

-----------------------------------------------------------------------------
(* new_unbind of another process, by p *)

UnbindNotBound(p) ==
    /\ At(p, "unbind") /\ Gone(call[p].peer)
    /\ Finish(p, "NOTBIND")
    /\ UNCHANGED <<proc, lists, call, walks, killed, late>>

\* do_unbind sends SIGTERM and wakes it, for any flag; p waits for it to go.
UnbindWait(p) ==
    /\ At(p, "unbind")
    /\ LET v == call[p].peer
       IN  /\ ~Gone(v)
           /\ killed' = [killed EXCEPT ![v] = TRUE]
           /\ proc' = [proc EXCEPT
                 ![v] = IF @.rts # {} THEN Up(@, "SHUTDOWN") ELSE @,
                 ![p] = [Set(@, {"WAITUNBIND"}) EXCEPT !.waitunbind = v,
                            !.sem = -1, !.rcode = "OK"]]
           /\ p_ulist' = [p_ulist EXCEPT ![v] = Append(@, p)]
    /\ Goto(p, "sleep", {}, <<>>)
    /\ UNCHANGED <<p_list, call, walks, ret, late>>

-----------------------------------------------------------------------------
(* new_exit_unbind and do_unbind of the process itself *)

ExitStart(p) ==
    /\ pc[p] = "user" /\ (killed[p] \/ p \in Leavers)
    /\ Goto(p, "exit", {}, <<DC, p>>)
    /\ UNCHANGED <<proc, lists, call, ret, walks, killed, late>>

\* mutant: the own mutex is kept, whichever is below.
Visit_Kept(p, l, r) == Goto(p, l, {DC, p}, <<r>>)

\* To visit r as well its mutex is taken; the own one is released before, if
\* r is below.
Visit(p, l, r) ==
    IF p < r THEN Goto(p, l, {DC, p}, <<r>>) ELSE Goto(p, l, {DC}, <<r, p>>)

\* FOR_EACH_PROC
First(r, rs) == \A q \in rs : r <= q

\* The loops of do_unbind, one after the other, and what each has to visit.
Waiters(p, us) ==
    IF us = <<>> THEN Goto(p, "init", {DC, p}, <<>>) ELSE Visit(p, "waiters", Head(us))
\* mutant: the list of the process it waits for is forgotten.
Unlist_Forgotten(p) == Waiters(p, p_ulist[p])
Unlist(p) ==
    IF "WAITUNBIND" \in proc[p].rts THEN Visit(p, "unlist", proc[p].waitunbind)
    ELSE Waiters(p, p_ulist[p])
Others(p, rs) ==
    /\ others' = [others EXCEPT ![p] = rs]
    /\ IF rs = {} THEN Unlist(p) ELSE \E r \in rs : First(r, rs) /\ Visit(p, "others", r)
\* mutant: who waits for a message of p is not looked for.
Flush_NoOthers(p, xs) ==
    IF xs = <<>> THEN Unlist(p) /\ UNCHANGED others
    ELSE Visit(p, "flush", Head(xs)) /\ UNCHANGED others
Flush(p, xs) ==
    IF xs = <<>> THEN Others(p, Procs \ {p})
    ELSE Visit(p, "flush", Head(xs)) /\ UNCHANGED others

\* mutant: the queue is emptied by init_proc_desc alone.
Exit_NoFlush(p) ==
    /\ At(p, "exit")
    /\ Others(p, Procs \ {p})
    /\ UNCHANGED <<proc, lists, call, ret, left, killed, late>>

Exit(p) ==
    /\ At(p, "exit")
    /\ Flush(p, p_list[p])
    /\ UNCHANGED <<proc, lists, call, ret, left, killed, late>>

\* Who sends to p is woken, though a sendrec has its other flag still set.
ExitFlush(p) ==
    /\ At(p, "flush")
    /\ LET x == Head(p_list[p])
       IN  /\ proc' = [proc EXCEPT ![x] = Up(Clear(@, {"SENDING"}), "DSTDIED")]
           /\ p_list' = [p_list EXCEPT ![p] = Without(@, x)]
           /\ Flush(p, Without(p_list[p], x))
    /\ UNCHANGED <<p_ulist, call, ret, left, killed, late>>

\* Who waits for a message of p is woken.
ExitOther(p) ==
    /\ At(p, "others")
    /\ \E r \in others[p] :
          /\ First(r, others[p])
          /\ proc' = [proc EXCEPT ![r] =
                IF ~Gone(r) /\ Waits(@, p) /\ @.getfrom = p
                THEN Up(Clear(@, {"RECEIVING"}), "SRCDIED") ELSE @]
          /\ Others(p, others[p] \ {r})
    /\ UNCHANGED <<lists, call, ret, left, killed, late>>

\* An unbind of p that gave up has left it in the list of another.
ExitUnlist(p) ==
    /\ At(p, "unlist")
    /\ p_ulist' = [p_ulist EXCEPT ![proc[p].waitunbind] = Without(@, p)]
    /\ proc' = [proc EXCEPT ![p] = [Clear(@, {"WAITUNBIND"}) EXCEPT !.waitunbind = NONE]]
    /\ Waiters(p, p_ulist[p])
    /\ UNCHANGED <<p_list, call, ret, walks, killed, late>>

ExitWaiter(p) ==
    /\ At(p, "waiters")
    /\ LET r == Head(p_ulist[p])
       IN  /\ proc' = [proc EXCEPT ![r] =
                 Up([Clear(@, {"WAITUNBIND"}) EXCEPT !.waitunbind = NONE], "OK")]
           /\ p_ulist' = [p_ulist EXCEPT ![p] = Without(@, r)]
           /\ Waiters(p, Without(p_ulist[p], r))
    /\ UNCHANGED <<p_list, call, ret, walks, killed, late>>

\* init_proc_desc.
Bound == [rts |-> {}, getfrom |-> NONE, sendto |-> NONE, waitunbind |-> NONE,
          sem |-> 0, rcode |-> "OK"]
ExitInit(p) ==
    /\ At(p, "init")
    /\ proc' = [proc EXCEPT ![p] = Set(Bound, {"SLOT_FREE"})]
    /\ p_list' = [p_list EXCEPT ![p] = <<>>] /\ p_ulist' = [p_ulist EXCEPT ![p] = <<>>]
    /\ Goto(p, "gone", {}, <<>>)
    /\ UNCHANGED <<call, ret, walks, killed, late>>

-----------------------------------------------------------------------------
Init ==
    /\ proc = [p \in Procs |-> Bound]
    /\ p_list = [p \in Procs |-> <<>>] /\ p_ulist = [p \in Procs |-> <<>>]
    /\ owner = [k \in Locks |-> NONE] /\ needs = [p \in Procs |-> <<>>]
    /\ pc = [p \in Procs |-> "user"]
    /\ call = [p \in Procs |-> NoCall]
    /\ left = [p \in Procs |-> <<>>] /\ others = [p \in Procs |-> {}]
    /\ killed = [p \in Procs |-> FALSE]
    /\ ret = [p \in Procs |-> "OK"]
    /\ late = [p \in Procs |-> FALSE]

\* What the kernel does for p once it has entered it.
Continue(p) ==
    \/ Lock(p)
    \/ SendCheck(p) \/ SendDeliver(p) \/ SendBlock(p)
    \/ SendrecDied(p) \/ SendrecDeliver(p) \/ SendrecQueue(p)
    \/ Reply(p)
    \/ ReceiveSource(p) \/ ReceiveCheck(p) \/ ReceiveScan(p) \/ ReceiveVisit(p)
    \/ WakesUp(p) \/ CallDone(p) \/ Return(p)
    \/ UnbindNotBound(p) \/ UnbindWait(p)
    \/ Exit(p) \/ ExitFlush(p) \/ ExitOther(p) \/ ExitUnlist(p) \/ ExitWaiter(p)
    \/ ExitInit(p)

Next == \E p \in Procs : Call(p) \/ ExitStart(p) \/ Continue(p)

Spec == Init /\ [][Next]_vars

\* The scheduler runs every thread, a mutex is handed over to who waits for
\* it, and a process that was sent SIGTERM leaves when it is in its program.
Fairness ==
    \A p \in Procs : SF_vars(Continue(p)) /\ WF_vars(killed[p] /\ ExitStart(p))

-----------------------------------------------------------------------------
(* Properties *)

AsleepOn(p, d) == pc[p] = "sleep" /\ proc[p].sem < 0 /\ call[p].peer = d

\* A process that leaves wakes all who sleep on it: those left asleep are a
\* sendrec or a receive that had found it there and slept after it had passed.
NoneDeserted ==
    \A p, d \in Procs : AsleepOn(p, d) /\ Gone(d) =>
        late[p] /\ call[p].op \in {"sendrec", "receive"}

\* A process has WAITUNBIND exactly while it is in the list of who waits for
\* another: also when its unbind gave up, or leaves itself, it is released.
Released ==
    \A p, v \in Procs :
        p \in ToSet(p_ulist[v]) <=>
            "WAITUNBIND" \in proc[p].rts /\ proc[p].waitunbind = v

\* What a call reports is so: a peer that died has left or is about to, and an
\* unbind that returns OK comes after everybody else has been woken.
DeathReports ==
    \A p \in Procs : pc[p] = "done" =>
        LET d == call[p].peer IN
        /\ ret[p] \in {"DSTDIED", "SRCDIED", "DEADSRCDST", "NOTBIND"} => pc[d] \in Exiting
        /\ call[p].op = "unbind" /\ ret[p] = "OK" =>
              /\ pc[d] \in {"waiters", "init", "gone"}
              /\ \A q \in Procs : AsleepOn(q, d) => late[q] \/ call[q].op = "unbind"

\* The mutexes of processes are taken in the order of p_nr, whatever mutexes
\* are released on the way: among themselves they make no deadlock.
LocksAscend ==
    \A p \in Procs : needs[p] # <<>> /\ Head(needs[p]) # DC =>
        \A q \in Procs : owner[q] = p => q < Head(needs[p])

\* A set of threads each of which waits for a mutex of another.
WaitsFor(p) == IF needs[p] = <<>> THEN NONE ELSE owner[Head(needs[p])]
Deadlock(ps) == ps # {} /\ \A p \in ps : WaitsFor(p) \in ps

\* "LOCK IN THIS ORDER": no threads wait for the mutexes of each other.
NoDeadlock == \A ps \in SUBSET Procs : ~Deadlock(ps)

\* Who is sent SIGTERM leaves, whatever it sleeps on, unless there is a
\* deadlock.
KilledLeave == \A p \in Procs : killed[p] ~> (pc[p] = "gone" \/ ~NoDeadlock)
=============================================================================
