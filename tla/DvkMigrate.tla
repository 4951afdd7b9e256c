----------------------------- MODULE DvkMigrate ------------------------------
(***************************************************************************)
(* The migration of processes (dvk_migrate.c) as one node sees it, against *)
(* the calls that meet it: check_caller, the sleeps, new_mini_send, which  *)
(* waits for a migrating destination and starts again, and a               *)
(* new_mini_receive from ANY.                                              *)
(*                                                                         *)
(* An action is one critical section.  A list is the sequence of its       *)
(* entries, as DvkIpc checks of the lists themselves; its windows while a  *)
(* receiver walks the queue are DvkIpc's, and so are TIMEOUT_NOWAIT and    *)
(* bad addresses.  What a proxy does with a command is DvkProxy's.         *)
(***************************************************************************)
EXTENDS Integers, Sequences, SequencesExt

CONSTANTS
    Procs,       \* the processes bound to the DC
    Nodes,       \* the nodes of the DC
    local,       \* local_nodeid
    NONE,        \* NONE, and the head of a list
    Home,        \* the node of a process at first
    Migrants,    \* the processes the administrator migrates
    SendsTo,     \* whom a process sends to; one that sends to nobody receives
    Timed,       \* the processes whose calls have a timeout
    MaxStarts    \* bound: how often a migration is started

ASSUME NodesAssumption == local \in Nodes /\ Home \in [Procs -> Nodes]
ASSUME NamesAssumption == NONE \notin Procs
ASSUME BoundAssumption == MaxStarts \in Nat
ASSUME CallsAssumption ==
    /\ Migrants \subseteq Procs /\ Timed \subseteq Procs
    /\ SendsTo \in [Procs -> SUBSET Procs] /\ \A p \in Procs : p \notin SendsTo[p]
\* A process that migrates while it sends leaves its image linked elsewhere.
ASSUME ServersMigrate == \A p \in Migrants : SendsTo[p] = {}

VARIABLES
    proc,      \* the process descriptors
    p_list,    \* the senders queued at a process
    p_mlist,   \* those waiting for the end of its migration
    pc,        \* where the thread of a process is
    call,      \* the call it is making
    expired,   \* its sleep timed out, its mutex is not yet taken
    ret,       \* what its last call returned
    admin,     \* new_migrate, while it flushes a list
    starts,    \* bound: the migrations started
    taken,     \* history: how often the message of a send was taken
    flushed    \* history: the send was ended by flush_sending_list

lists  == <<p_list, p_mlist>>
thread == <<pc, call, expired, ret>>
hist   == <<taken, flushed>>
office == <<admin, starts>>
vars   == <<proc, lists, thread, office, hist>>

----------------------------------------------------------------------------
(* Types *)

RtsFlags == {"SENDING", "RECEIVING", "MIGRATE", "WAITMIGR", "REMOTE"}
Descriptors ==
    [rts      : SUBSET RtsFlags,
     misc     : SUBSET {"NEEDMIGR", "RMTBACKUP"},
     nodeid   : Nodes,
     sendto   : Procs \cup {NONE},
     waitmigr : Procs \cup {NONE},
     sem      : -1 .. 2,                  \* p_pseudosem: the rollback may raise it twice more
     rcode    : {"OK", "MIGRATE", "TIMEDOUT"}]

\* "stopped", "backup": asleep in check_caller.  "enter", "scan": past it, no
\* mutex held.  "migrating", "sending", "receiving": asleep in the call.
PcValues == {"away", "user", "stopped", "backup", "enter", "scan", "migrating",
             "sending", "receiving"}
Asleep(p) == pc[p] \in {"stopped", "backup", "migrating", "sending", "receiving"}

CallRecords == [op : {"none", "send", "receive"}, peer : Procs \cup {NONE}]
NoCall == [op |-> "none", peer |-> NONE]

\* xpp and tmp_ptr of LIST_FOR_EACH_ENTRY_SAFE in flush_migr_list ("migr") or
\* flush_sending_list ("send"); "wild": the walk has lost the list, what it does is not modelled.
AdminRecords ==
    [oper : {"rollback", "old", "new", "third"}, proc : Procs,
     list : {"migr", "send"}, xpp : Procs, tmp : Procs \cup {NONE}]
Idle == [oper |-> "none"]
Wild == [oper |-> "wild"]

TypeOK ==
    /\ proc \in [Procs -> Descriptors]
    /\ p_list \in [Procs -> Seq(Procs)] /\ p_mlist \in [Procs -> Seq(Procs)]
    /\ pc \in [Procs -> PcValues] /\ call \in [Procs -> CallRecords]
    /\ expired \in [Procs -> BOOLEAN]
    /\ ret \in [Procs -> {"none", "OK", "PROCRUN", "TIMEDOUT"}]
    /\ admin \in AdminRecords \cup {Idle, Wild}
    /\ starts \in 0 .. MaxStarts
    /\ taken \in [Procs -> Nat] /\ flushed \in [Procs -> BOOLEAN]

----------------------------------------------------------------------------
(* Operations on descriptors and lists *)

Has(p, bit) == bit \in proc[p].rts
Set(d, bit) == [d EXCEPT !.rts = @ \cup {bit}]
Clear(d, bits) == [d EXCEPT !.rts = @ \ bits]
Without(q, p) ==
    IF p \in Range(q) THEN RemoveAt(q, CHOOSE i \in DOMAIN q : q[i] = p) ELSE q

\* LOCAL_PROC_UP, where no flag is left.
Wake(d, rc) == IF d.rts = {} THEN [d EXCEPT !.rcode = rc, !.sem = @ + 1] ELSE d

\* Entry of sleep_proc.
Down(d) == [d EXCEPT !.sem = -1, !.rcode = "OK"]

\* Set on NEED to migrate: the process stops at its next call.
NeedToMigrate(d) ==
    IF "NEEDMIGR" \in d.misc
    THEN [d EXCEPT !.misc = @ \ {"NEEDMIGR"}, !.rts = @ \cup {"MIGRATE"}] ELSE d

\* What sleep_proc returns.
Result(p) == IF proc[p].rcode # "OK" THEN proc[p].rcode
             ELSE IF expired[p] THEN "TIMEDOUT" ELSE "OK"
\* mutant: a sleep that ends raises the semaphore without a test of it
Up_Untested(p) == LET rc == Result(p) IN
    NeedToMigrate([proc[p] EXCEPT !.rcode = rc, !.sem = @ + 1])

\* The exit of sleep_proc.
Up(p) == LET rc == Result(p) IN
    NeedToMigrate([proc[p] EXCEPT !.rcode = rc,
                                  !.sem = IF rc # "OK" /\ @ < 0 THEN @ + 1 ELSE @])
Leaves(p, l) == pc[p] = l /\ (proc[p].sem >= 0 \/ expired[p])

EndSend(d) == [Clear(d, {"SENDING"}) EXCEPT !.sendto = NONE]

Goto(p, l) == pc' = [pc EXCEPT ![p] = l] /\ expired' = [expired EXCEPT ![p] = FALSE]
Return(p, rc) ==
    /\ Goto(p, "user")
    /\ ret' = [ret EXCEPT ![p] = rc]
    /\ call' = [call EXCEPT ![p] = NoCall]

----------------------------------------------------------------------------
(* check_caller, the beginning of every call.  A process with a flag set that *)
(* need not stop is refused (EDVSPROCRUN): nothing changes.                   *)

CallOf(p) == IF SendsTo[p] = {} THEN [op : {"receive"}, peer : {NONE}]
             ELSE [op : {"send"}, peer : SendsTo[p]]
Begin(op) == IF op = "send" THEN "enter" ELSE "scan"

CheckStops(p, d) == "MIGRATE" \in d.rts /\ "REMOTE" \notin d.rts

\* To be called with c, a process sleeps until its migration is rolled back.
Stop(p, c) ==
    LET d == NeedToMigrate(proc[p])
    IN  /\ CheckStops(p, d)
        /\ Goto(p, "stopped")
        /\ proc' = [proc EXCEPT ![p] = Down(d)]
        /\ UNCHANGED lists

\* The image that a migrated process leaves behind sleeps for good, for
\* TIMEOUT_MOLCALL at a time.
WaitAsBackup(p, c) ==
    /\ "RMTBACKUP" \in proc[p].misc /\ Has(p, "REMOTE")
    /\ Goto(p, "backup")
    /\ proc' = [proc EXCEPT ![p] = Down([Set(NeedToMigrate(@), "WAITMIGR") EXCEPT !.waitmigr = p])]
    /\ p_mlist' = [p_mlist EXCEPT ![p] = Append(@, p)]
    /\ UNCHANGED p_list

Pass(p, c) ==
    /\ proc[p].rts = {} /\ "NEEDMIGR" \notin proc[p].misc
    /\ Goto(p, Begin(c.op))
    /\ UNCHANGED <<proc, lists>>

CheckCaller(p) ==
    /\ pc[p] = "user"
    /\ \E c \in CallOf(p) :
          /\ Stop(p, c) \/ WaitAsBackup(p, c) \/ Pass(p, c)
          /\ call' = [call EXCEPT ![p] = c]
    /\ taken' = [taken EXCEPT ![p] = 0] /\ flushed' = [flushed EXCEPT ![p] = FALSE]
    /\ UNCHANGED <<ret, office>>

\* The rollback wakes it; it may have been told again to migrate meanwhile.
Resume(p) ==
    /\ Leaves(p, "stopped")
    /\ proc' = [proc EXCEPT ![p] = Up(p)]
    /\ IF proc'[p].rts = {}
       THEN Goto(p, Begin(call[p].op)) /\ UNCHANGED <<ret, call>>
       ELSE Return(p, "PROCRUN")
    /\ UNCHANGED <<lists, office, hist>>

----------------------------------------------------------------------------
(* new_mini_send *)

AwaitMigration(p, d, mine) ==
    /\ Has(d, "MIGRATE")
    /\ proc' = [proc EXCEPT ![p] = Down([Set(mine, "WAITMIGR") EXCEPT !.waitmigr = d])]
    /\ p_mlist' = [p_mlist EXCEPT ![d] = Append(@, p)]
    /\ Goto(p, "migrating")
    /\ UNCHANGED <<p_list, call, ret, taken>>

\* The command is left to the sender proxy of the node of d.
SendRemote(p, d, mine) ==
    /\ ~Has(d, "MIGRATE") /\ Has(d, "REMOTE")
    /\ proc' = [proc EXCEPT ![p] = Down([Set(mine, "SENDING") EXCEPT !.sendto = d]),
                            ![d] = Clear(@, {"RECEIVING"})]
    /\ Goto(p, "sending")
    /\ UNCHANGED <<lists, call, ret, taken>>

Waits(d) == Has(d, "RECEIVING") /\ ~Has(d, "SENDING")

SendDeliver(p, d, mine) ==
    /\ ~Has(d, "MIGRATE") /\ ~Has(d, "REMOTE") /\ Waits(d)
    /\ proc' = [proc EXCEPT ![p] = [mine EXCEPT !.rcode = "OK"],
                            ![d] = Wake(Clear(@, {"RECEIVING"}), "OK")]
    /\ taken' = [taken EXCEPT ![p] = @ + 1]
    /\ Return(p, "OK")
    /\ UNCHANGED lists

SendBlock(p, d, mine) ==
    /\ ~Has(d, "MIGRATE") /\ ~Has(d, "REMOTE") /\ ~Waits(d)
    /\ proc' = [proc EXCEPT ![p] = Down([Set(mine, "SENDING") EXCEPT !.sendto = d])]
    /\ p_list' = [p_list EXCEPT ![d] = Append(@, p)]
    /\ Goto(p, "sending")
    /\ UNCHANGED <<p_mlist, call, ret, taken>>

Attempt(p, mine) ==
    LET d == call[p].peer
    IN  /\ \/ AwaitMigration(p, d, mine) \/ SendRemote(p, d, mine)
           \/ SendDeliver(p, d, mine) \/ SendBlock(p, d, mine)
        /\ UNCHANGED <<office, flushed>>

Send(p) == pc[p] = "enter" /\ Attempt(p, proc[p])

\* The migration has ended: the status of the destination is tested again.
SendAgain(p) == Leaves(p, "migrating") /\ Result(p) = "OK" /\ Attempt(p, Up(p))

\* WAITMIGR stays set and the caller linked in p_mlist.
SendGivesUp(p) ==
    /\ Leaves(p, "migrating") /\ Result(p) # "OK"
    /\ proc' = [proc EXCEPT ![p] = Up(p)]
    /\ Return(p, Result(p))
    /\ UNCHANGED <<lists, office, hist>>

\* mutant: a send that times out leaves its entry in the queue
SendDone_StaysQueued(p) ==
    /\ Leaves(p, "sending")
    /\ proc' = [proc EXCEPT ![p] = IF Result(p) = "OK" THEN Up(p) ELSE EndSend(Up(p))]
    /\ IF Result(p) = "MIGRATE"
       THEN Goto(p, "enter") /\ UNCHANGED <<ret, call>>
       ELSE Return(p, Result(p))
    /\ UNCHANGED <<lists, office, hist>>

SendDone(p) ==
    /\ Leaves(p, "sending")
    /\ LET rc == Result(p)
           d  == proc[p].sendto
       IN  /\ proc' = [proc EXCEPT ![p] = IF rc = "OK" THEN Up(p) ELSE EndSend(Up(p))]
           /\ p_list' = IF rc # "OK" /\ Has(p, "SENDING")
                        THEN [p_list EXCEPT ![d] = Without(@, p)] ELSE p_list
           /\ IF rc = "MIGRATE"               \* goto send_replay
              THEN Goto(p, "enter") /\ UNCHANGED <<ret, call>>
              ELSE Return(p, rc)
    /\ UNCHANGED <<p_mlist, office, hist>>

\* The acknowledgement of the other node: taken, or the destination is not
\* there (EDVSMIGRATE).
Acknowledged(p, rc) ==
    /\ pc[p] = "sending" /\ Has(p, "SENDING") /\ p \notin Range(p_list[proc[p].sendto])
    /\ proc' = [proc EXCEPT ![p] = Wake(EndSend(@), rc)]
    /\ taken' = [taken EXCEPT ![p] = IF rc = "OK" THEN @ + 1 ELSE @]
    /\ UNCHANGED <<lists, thread, office, flushed>>

----------------------------------------------------------------------------
(* new_mini_receive(ANY) *)

\* mutant: the entry that is taken stays in the queue
ReceiveTake_StaysQueued(p) ==
    /\ pc[p] = "scan" /\ p_list[p] # <<>>
    /\ LET x == Head(p_list[p])
       IN  /\ proc' = [proc EXCEPT ![x] = Wake(EndSend(@), "OK")]
           /\ taken' = [taken EXCEPT ![x] = @ + 1]
    /\ Return(p, "OK")
    /\ UNCHANGED <<lists, office, flushed>>

ReceiveTake(p) ==
    /\ pc[p] = "scan" /\ p_list[p] # <<>>
    /\ LET x == Head(p_list[p])
       IN  /\ proc' = [proc EXCEPT ![x] = Wake(EndSend(@), "OK")]
           /\ taken' = [taken EXCEPT ![x] = @ + 1]
    /\ p_list' = [p_list EXCEPT ![p] = Tail(@)]
    /\ Return(p, "OK")
    /\ UNCHANGED <<p_mlist, office, flushed>>

ReceiveBlock(p) ==
    /\ pc[p] = "scan" /\ p_list[p] = <<>>
    /\ proc' = [proc EXCEPT ![p] = Down(Set(@, "RECEIVING"))]
    /\ Goto(p, "receiving")
    /\ UNCHANGED <<lists, call, ret, office, hist>>

ReceiveDone(p) ==
    /\ Leaves(p, "receiving")
    /\ proc' = [proc EXCEPT ![p] =
                  IF Result(p) = "OK" THEN Up(p) ELSE Clear(Up(p), {"RECEIVING"})]
    /\ Return(p, Result(p))
    /\ UNCHANGED <<lists, office, hist>>

\* wait_event_interruptible_timeout gives up with the condition still false.
Expire(p) ==
    /\ p \in Timed /\ pc[p] \in {"migrating", "sending", "receiving"}
    /\ proc[p].sem < 0 /\ ~expired[p]
    /\ expired' = [expired EXCEPT ![p] = TRUE]
    /\ UNCHANGED <<proc, lists, pc, call, ret, office, hist>>

----------------------------------------------------------------------------
(* new_migrate.  The operations that are refused change nothing. *)

\* The walk of list q of t comes to x, still under the mutex of t, and takes
\* the node after it.  A stale x is out of the list: deleted and initialised, it
\* points to itself and the walk spins; queued elsewhere, it leads elsewhere.
After(q, x) == LET i == CHOOSE k \in DOMAIN q : q[k] = x
               IN  IF i < Len(q) THEN q[i + 1] ELSE NONE
Walk(oper, t, list, q, x) ==
    admin' = IF x \notin Range(q) THEN Wild
             ELSE [oper |-> oper, proc |-> t, list |-> list, xpp |-> x, tmp |-> After(q, x)]

\* mutant: the rollback forgets the process itself
Finished_Asleep(oper, d) == IF oper = "rollback" THEN d ELSE Clear(d, {"MIGRATE"})

\* What is left to do when the lists are flushed.
Finished(oper, d) == IF oper = "rollback" THEN Wake(d, "OK") ELSE Clear(d, {"MIGRATE"})

\* The end of flush_migr_list, with the descriptors ps: the old node goes on
\* with the senders.
MigrFlushed(oper, t, ps) ==
    IF oper = "old" /\ p_list[t] # <<>>
    THEN proc' = ps /\ Walk(oper, t, "send", p_list[t], Head(p_list[t]))
    ELSE proc' = [ps EXCEPT ![t] = Finished(oper, @)] /\ admin' = Idle

\* The operation has changed t to d, and flushes its lists.
Flush(oper, t, d) ==
    LET ps == [proc EXCEPT ![t] = d]
    IN  IF p_mlist[t] # <<>>
        THEN proc' = ps /\ Walk(oper, t, "migr", p_mlist[t], Head(p_mlist[t]))
        ELSE MigrFlushed(oper, t, ps)

\* A running process cannot be stopped here: it has NEED to migrate.
Told(d) == IF d.rts = {} THEN [d EXCEPT !.misc = @ \cup {"NEEDMIGR"}] ELSE Set(d, "MIGRATE")

Start(t) ==
    /\ admin = Idle /\ t \in Migrants
    /\ starts < MaxStarts /\ starts' = starts + 1
    /\ "RMTBACKUP" \notin proc[t].misc
    /\ proc' = [proc EXCEPT ![t] = Told(@)]
    /\ UNCHANGED <<lists, thread, admin, hist>>

RolledBack(d) == [Clear(d, {"MIGRATE"}) EXCEPT !.misc = @ \ {"NEEDMIGR"}]

Rollback(t) ==
    /\ admin = Idle /\ t \in Migrants
    /\ Has(t, "MIGRATE")
    /\ IF Has(t, "REMOTE")
       THEN proc' = [proc EXCEPT ![t] = RolledBack(@)] /\ UNCHANGED admin
       ELSE Flush("rollback", t, RolledBack(proc[t]))
    /\ UNCHANGED <<starts, lists, thread, hist>>

\* The backup of a process is not committed again: MIGR_START refuses it.
Commits(t, n) ==
    /\ admin = Idle /\ t \in Migrants
    /\ Has(t, "MIGRATE") /\ "RMTBACKUP" \notin proc[t].misc
    /\ n # proc[t].nodeid

\* mutant: the image that is left behind stays a local process
CommitOld_Local(t, n) ==
    /\ Commits(t, n) /\ proc[t].nodeid = local
    /\ Flush("old", t, [proc[t] EXCEPT !.nodeid = n, !.rts = @ \ {"MIGRATE"},
                                       !.misc = @ \cup {"RMTBACKUP"}])
    /\ UNCHANGED <<starts, lists, thread, hist>>

\* old_node_migrate: the process leaves its image, now remote, to wait.
CommitOld(t, n) ==
    /\ Commits(t, n) /\ proc[t].nodeid = local
    /\ Flush("old", t, [proc[t] EXCEPT !.nodeid = n,
                                       !.rts = (@ \ {"MIGRATE"}) \cup {"REMOTE"},
                                       !.misc = @ \cup {"RMTBACKUP"}])
    /\ UNCHANGED <<starts, lists, thread, hist>>

\* new_node_migrate: a thread of this node takes the descriptor over.
CommitNew(t) ==
    /\ Commits(t, local)
    /\ Flush("new", t, [proc[t] EXCEPT !.nodeid = local, !.rts = {}])
    /\ Goto(t, "user")
    /\ UNCHANGED <<starts, lists, call, ret, hist>>

\* Between two other nodes: MIGRATE is cleared when the list is flushed.
CommitThird(t, n) ==
    /\ Commits(t, n) /\ local \notin {n, proc[t].nodeid}
    /\ Flush("third", t, [proc[t] EXCEPT !.nodeid = n])
    /\ UNCHANGED <<starts, lists, thread, hist>>

\* One turn of flush_migr_list, which has released the mutex to take both.
FlushMigr ==
    /\ admin # Idle /\ admin # Wild /\ admin.list = "migr"
    /\ LET t == admin.proc
           x == admin.xpp
           ps == [proc EXCEPT ![x] = IF @.waitmigr = t
                     THEN Wake([Clear(@, {"WAITMIGR"}) EXCEPT !.waitmigr = NONE], "OK") ELSE @]
       IN  /\ p_mlist' = [p_mlist EXCEPT ![t] = Without(@, x)]
           /\ IF admin.tmp = NONE THEN MigrFlushed(admin.oper, t, ps)
              ELSE proc' = ps /\ Walk(admin.oper, t, "migr", p_mlist'[t], admin.tmp)
    /\ UNCHANGED <<starts, p_list, thread, hist>>

\* The same of flush_sending_list: the node of x is deleted from the list it
\* is in now, and its call ends with OK.
FlushSend ==
    /\ admin # Idle /\ admin # Wild /\ admin.list = "send"
    /\ LET t == admin.proc
           x == admin.xpp
           ps == [proc EXCEPT ![x] = Wake(EndSend(Clear(@, {"RECEIVING"})), "OK")]
       IN  /\ p_list' = [d \in Procs |-> Without(p_list[d], x)]
           /\ flushed' = [flushed EXCEPT ![x] = TRUE]
           /\ IF admin.tmp = NONE
              THEN proc' = [ps EXCEPT ![t] = Finished("old", @)] /\ admin' = Idle
              ELSE proc' = ps /\ Walk("old", t, "send", p_list'[t], admin.tmp)
    /\ UNCHANGED <<starts, p_mlist, thread, taken>>

----------------------------------------------------------------------------
Init ==
    /\ proc = [p \in Procs |->
          [rts |-> IF Home[p] = local THEN {} ELSE {"REMOTE"}, misc |-> {},
           nodeid |-> Home[p], sendto |-> NONE, waitmigr |-> NONE, sem |-> 0,
           rcode |-> "OK"]]
    /\ p_list = [p \in Procs |-> <<>>] /\ p_mlist = [p \in Procs |-> <<>>]
    /\ pc = [p \in Procs |-> IF Home[p] = local THEN "user" ELSE "away"]
    /\ call = [p \in Procs |-> NoCall]
    /\ expired = [p \in Procs |-> FALSE]
    /\ ret = [p \in Procs |-> "none"]
    /\ admin = Idle /\ starts = 0
    /\ taken = [p \in Procs |-> 0] /\ flushed = [p \in Procs |-> FALSE]

Step(p) ==
    \/ CheckCaller(p) \/ Resume(p)
    \/ Send(p) \/ SendAgain(p) \/ SendGivesUp(p) \/ SendDone(p)
    \/ \E rc \in {"OK", "MIGRATE"} : Acknowledged(p, rc)
    \/ ReceiveTake(p) \/ ReceiveBlock(p) \/ ReceiveDone(p)
    \/ Expire(p)

Migrate ==
    \/ \E t \in Procs : Start(t) \/ Rollback(t) \/ CommitNew(t)
    \/ \E t \in Procs, n \in Nodes : CommitOld(t, n) \/ CommitThird(t, n)
    \/ FlushMigr \/ FlushSend

Next == Migrate \/ \E p \in Procs : Step(p)

Spec == Init /\ [][Next]_vars

----------------------------------------------------------------------------
(* Properties *)

\* A process is linked at a migrating process exactly while it waits for it,
\* and queued at another exactly while its message is there to be taken,
\* whatever a timeout, a receiver and the administrator do at once.
ListsExact ==
    \A p, d \in Procs :
        /\ p \in Range(p_mlist[d]) <=> Has(p, "WAITMIGR") /\ proc[p].waitmigr = d
        /\ p \in Range(p_list[d]) => Has(p, "SENDING") /\ proc[p].sendto = d
        /\ IsInjective(p_list[d]) /\ IsInjective(p_mlist[d])

\* The administrator is about to come to p in the list of those who wait for t.
Reaches(p, t) ==
    /\ admin \notin {Idle, Wild} /\ admin.proc = t /\ admin.list = "migr"
    /\ \E i, j \in DOMAIN p_mlist[t] :
          p_mlist[t][i] = admin.xpp /\ p_mlist[t][j] = p /\ i <= j
RollsBack(p) == admin \notin {Idle, Wild} /\ admin.proc = p

Unwoken(p) == Asleep(p) /\ proc[p].sem < 0
Forgotten(p, t) ==
    /\ Unwoken(p) /\ Has(p, "WAITMIGR") /\ proc[p].waitmigr = t /\ p # t
    /\ ~Has(t, "MIGRATE") /\ ~Reaches(p, t)

\* Nobody sleeps over the end of a migration from this node or back to it,
\* whatever queues or gives up while the list is flushed: one that waits for a
\* process waits for one still marked, or is about to be flushed; and one that
\* has stopped to migrate is still marked, or about to be woken by the rollback.
LocalsWoken ==
    \A p \in Procs : Home[p] = local =>
        /\ \A x \in Procs : ~Forgotten(x, p)
        /\ Unwoken(p) /\ proc[p].rts = {} => RollsBack(p)

\* The process that has moved goes on nowhere here: no call of the image that
\* it left behind returns OK.
ImageStays ==
    [][\A p \in Procs : "RMTBACKUP" \in proc[p].misc /\ pc[p] # "user" /\ pc'[p] = "user" =>
          ret'[p] # "OK"]_vars

\* A message is taken at most once, however often its send starts again, none
\* while its sender waits, and a send that returns OK has been taken, unless
\* flush_sending_list ended it.
SentOnce ==
    \A p \in Procs :
        /\ taken[p] <= 1
        /\ Has(p, "SENDING") \/ pc[p] = "migrating" => taken[p] = 0
        /\ pc[p] = "user" /\ SendsTo[p] # {} /\ ret[p] = "OK" => taken[p] = 1 \/ flushed[p]
=============================================================================
