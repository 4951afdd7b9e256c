------------------------------- MODULE Slots --------------------------------
(***************************************************************************)
(* The slots algorithm of the system tasks (systask/slots.c, with the      *)
(* parts of system.c, do_fork.c and do_exit.c that share its variables).   *)
(* The system tasks of the nodes of a DC divide the process slots between  *)
(* them: a fork may only take a slot its node owns, and a node that runs   *)
(* out of them asks the others for a donation.                             *)
(*                                                                         *)
(* The members speak through a Spread group: SP_multicast (SAFE_MESS) and  *)
(* the membership messages reach every member in one order.  A message is  *)
(* put in that order when it is sent: what a member does between sending   *)
(* a message and its place in the order is seen by no other member.        *)
(*                                                                         *)
(* A handler of the slots thread runs under sys_mutex and is one action.   *)
(* It is an operator on an effect: the member, the messages it multicasts  *)
(* and whether the process ended (an assert or ERROR_EXIT).                *)
(***************************************************************************)
EXTENDS Integers, Sequences, FiniteSets, FiniteSetsExt

CONSTANTS
    NrNodes,      \* dc_nr_nodes
    Slot,         \* the user slots, from dc_nr_sysprocs on
    none,         \* NO_PRIMARY_MBR, NO_NEXT_MBR, NO_SLOT_OWNER
    StartLimit,   \* bound: how often a system task is started
    CrashLimit,   \* bound: how many crash, asserts not counted
    ForkLimit,    \* bound: how many forks are tried
    Forking,      \* the nodes whose PM forks
    Calm          \* bound: members come and crash only when the group is quiet

Node == 0 .. NrNodes - 1

ASSUME NodesAssumption == NrNodes \in Nat /\ NrNodes > 1
ASSUME SlotsAssumption == Slot \subseteq Nat /\ IsFiniteSet(Slot)
ASSUME NoneAssumption == none \notin Node /\ none \notin Slot
ASSUME BoundsAssumption ==
    /\ {StartLimit, CrashLimit, ForkLimit} \subseteq Nat /\ Forking \subseteq Node
    /\ Calm \in BOOLEAN

VARIABLES
    up,        \* the members of the group
    inbox,     \* what a member has not received yet, in the order of the group
    mbr,       \* the variables of each system task
    starts, crashes, forks,
    failed     \* history: why processes ended by themselves
vars == <<up, inbox, mbr, starts, crashes, forks, failed>>

----------------------------------------------------------------------------
total_slots     == Cardinality(Slot)
min_owned_slots == total_slots \div NrNodes
free_slots_low  == min_owned_slots \div 2
SLOTS_BY_MSG    == 4

Ceiling(x, y) == x \div y + (IF x % y # 0 THEN 1 ELSE 0)
LeastOf(S) == CHOOSE x \in S : \A y \in S : x <= y

STATES == {"NEW", "WAIT_STATUS", "REQ_SLOTS", "RUNNING"}
Initialized(m) == m.FSM_state \in {"REQ_SLOTS", "RUNNING"}

\* p_rts_flags == SLOT_FREE and s_owner == local_nodeid
FreeOwned(n, m) == {i \in Slot : m.owner[i] = n /\ i \notin m.bound \cup m.no_map}

max_owned_slots(m) == total_slots - min_owned_slots * (m.nr_init - 1)

\* A system task that has joined the group; its main thread is on its way to
\* wait for sys_barrier.
Fresh ==
    [FSM_state |-> "NEW", primary_mbr |-> none, nr_waitsts |-> 0, bm_waitsts |-> {},
     nr_init |-> 0, bm_init |-> {}, bm_donors |-> {}, bm_pending |-> {},
     owner |-> [i \in Slot |-> none], donating |-> {}, no_map |-> {}, bound |-> {},
     owned_slots |-> 0, free_slots |-> 0, main |-> "starting", child |-> none]

get_next_mbr(node, bm) ==
    LET from == IF node = none THEN 0 ELSE node
        dist(x) == IF x > from THEN x - from ELSE x - from + NrNodes
        next  == {x \in bm : \A y \in bm : dist(x) <= dist(y)}
    IN  IF next = {} THEN none ELSE CHOOSE x \in next : TRUE

get_primary_mbr(bm) == get_next_mbr(NrNodes - 1, bm)

----------------------------------------------------------------------------
Effect(m) == [m |-> m, out |-> <<>>, dead |-> "no"]
Send(e, msg) == [e EXCEPT !.out = Append(@, msg)]
Dead(e, why) == [e EXCEPT !.dead = why]

\* pthread_cond_signal(&sys_barrier): lost if nobody waits yet
Signal(m) == IF m.main = "waiting" THEN [m EXCEPT !.main = "woken"] ELSE m

mcast_rqst_slots(n, nr, e) ==
    IF e.m.bm_waitsts # {} THEN e
    ELSE LET donors == e.m.bm_init \ {n}
             asked  == [e EXCEPT !.m.bm_donors = donors]
         IN  IF donors = {} THEN asked
             ELSE Send(asked, [type |-> "SYS_REQ_SLOTS", source |-> n, need |-> nr])

new_rqst_slots(n, nr, e) ==
    IF e.m.bm_donors = {} /\ e.m.owned_slots = 0
    THEN mcast_rqst_slots(n, nr, [e EXCEPT !.m.FSM_state = "REQ_SLOTS"])
    ELSE e

mcast_status_info(n, dest, e) ==
    Send(e, [type |-> "SYS_PUT_STATUS", source |-> n, dest |-> dest,
             bm_init |-> e.m.bm_init, bm_waitsts |-> e.m.bm_waitsts,
             owner |-> e.m.owner, donating |-> e.m.donating])

primary_sts_mcast(n, e) ==
    LET next == get_next_mbr(e.m.nr_waitsts, e.m.bm_waitsts)
    IN  IF e.m.primary_mbr # n THEN e
        ELSE LET s == [e EXCEPT !.m.nr_waitsts = next]
             IN  IF next = none THEN s ELSE mcast_status_info(n, next, s)

----------------------------------------------------------------------------
(* The handlers. *)


\* A view change: a request that was on its way is taken for discarded.
AfterView(n, e) ==
    new_rqst_slots(n, min_owned_slots,
        primary_sts_mcast(n, [e EXCEPT !.m.bm_donors = {}, !.m.bm_pending = {}]))

sp_join(n, m, msg) ==
    LET waits == [m EXCEPT !.bm_waitsts = @ \cup {msg.member}] IN
    IF msg.member = n
    THEN IF msg.nr_nodes = 1
         THEN Effect(Signal([m EXCEPT !.FSM_state = "RUNNING", !.primary_mbr = n,
                                      !.bm_init = @ \cup {n}, !.nr_init = 1,
                                      !.owned_slots = total_slots,
                                      !.owner = [i \in Slot |-> n]]))
         ELSE Effect([waits EXCEPT !.FSM_state = "WAIT_STATUS"])
    ELSE IF m.FSM_state = "WAIT_STATUS" THEN Effect(waits)
    ELSE AfterView(n, Effect(waits))

\* How many slots a member that asks for none itself gives away.
Surplus(m) == m.free_slots - free_slots_low
ToDonate(m, needed) ==
    LET share == Ceiling(needed, m.nr_init - 1)
    IN  IF Surplus(m) <= 0 THEN 0
        ELSE IF Surplus(m) > share THEN share ELSE Surplus(m)

mcast_donation(n, e, dst, nr, given) ==
    Send(e, [type |-> "SYS_DON_SLOTS", source |-> n, dst |-> dst, nr |-> nr, slots |-> given])

\* The first k free owned slots, in the order of the table.
FirstFree(n, m, k) ==
    {i \in FreeOwned(n, m) : Cardinality({j \in FreeOwned(n, m) : j < i}) < k}

Donate(n, e, requester, nr) ==
    LET given == FirstFree(n, e.m, nr)
        k     == Cardinality(given)
    IN  mcast_donation(n,
            [e EXCEPT !.m.free_slots = @ - k, !.m.owned_slots = @ - k,
                      !.m.owner = [i \in Slot |-> IF i \in given THEN requester
                                                                 ELSE e.m.owner[i]],
                      !.m.no_map = @ \cup given, !.m.donating = @ \cup given],
            requester, nr, given)

sp_req_slots(n, e, requester, needed) ==
    LET m     == e.m
        next  == get_next_mbr(requester, m.bm_init)
        asks  == m.bm_donors # {}
        give  == IF asks THEN 0 ELSE ToDonate(m, needed)
    IN  IF ~Initialized(m) \/ requester = n THEN e
        ELSE IF requester \notin m.bm_init \/ (~asks /\ m.nr_init <= 1) THEN Dead(e, "assert")
        ELSE IF asks /\ requester \in m.bm_donors /\ next # n
             THEN [e EXCEPT !.m.bm_donors = @ \ {requester}]
        ELSE IF give = 0 /\ requester \notin m.bm_pending /\ next # n
             THEN [e EXCEPT !.m.bm_pending = @ \cup {requester}]
        ELSE Donate(n, e, requester, IF give > SLOTS_BY_MSG THEN SLOTS_BY_MSG ELSE give)

\* SYS_PUT_STATUS to another member, and to this one.
put_status_other(n, m, msg) ==
    LET heard == [m EXCEPT !.bm_waitsts = @ \ {msg.dest}]
        told  == primary_sts_mcast(n, Effect(heard))
        init  == [told EXCEPT !.m.bm_init = @ \cup {msg.dest}, !.m.nr_init = @ + 1]
    IN  IF m.FSM_state # "RUNNING"
        THEN Effect([heard EXCEPT !.bm_init = @ \cup {msg.dest}])
        ELSE IF n \notin m.bm_init THEN Dead(told, "assert")
        ELSE IF msg.dest \in m.bm_init THEN Dead(told, "initialized twice")
        ELSE sp_req_slots(n, init, msg.dest, min_owned_slots)

put_status_local(n, m, msg) ==
    LET init == m.bm_init \cup msg.bm_init \cup {n}
        new  == {i \in Slot : m.owner[i] = none}
    IN  IF m.FSM_state # "WAIT_STATUS" THEN Effect(m)
        ELSE Effect([m EXCEPT
                !.FSM_state = "REQ_SLOTS", !.owned_slots = 0,
                !.bm_init = init, !.nr_init = Cardinality(init), !.bm_donors = init \ {n},
                !.bm_waitsts = (m.bm_waitsts \cup msg.bm_waitsts) \ {n},
                !.owner = [i \in Slot |-> IF i \in new THEN msg.owner[i] ELSE m.owner[i]],
                !.donating = (m.donating \ new) \cup (msg.donating \cap new)])

sp_put_status(n, m, msg) ==
    LET s == IF Initialized(m) THEN m ELSE [m EXCEPT !.primary_mbr = msg.source]
    IN  IF msg.dest = n THEN put_status_local(n, s, msg) ELSE put_status_other(n, s, msg)

\* The donor stops at the first slot of the donation.  spout_ptr is not
\* initialised where a pending reply is sent: writing through it ends the
\* process (ub = "fault"), or it still points to mess_out (ub = "stale").
sp_don_slots(n, m, msg, ub) ==
    LET owns == [m EXCEPT !.owner = [i \in Slot |-> IF i \in msg.slots THEN msg.dst
                                                                       ELSE m.owner[i]]]
        done == IF msg.slots = {} THEN m
                ELSE [m EXCEPT !.owner[LeastOf(msg.slots)] = msg.dst,
                               !.no_map = @ \ {LeastOf(msg.slots)},
                               !.donating = @ \ {LeastOf(msg.slots)}]
        got  == [owns EXCEPT !.free_slots = @ + msg.nr, !.owned_slots = @ + msg.nr,
                             !.bm_donors = @ \ {msg.source}]
    IN  IF ~({msg.dst, msg.source} \subseteq m.bm_init) THEN Dead(Effect(m), "assert")
        ELSE IF msg.source = n THEN Effect(done)
        ELSE IF ~Initialized(m) THEN IF msg.dst = n THEN Dead(Effect(m), "assert") ELSE Effect(owns)
        ELSE IF msg.dst # n
             THEN IF msg.dst \notin m.bm_pending THEN Effect(owns)
                  ELSE IF ub = "fault" THEN Dead(Effect(m), "fault")
                  ELSE mcast_donation(n, Effect([owns EXCEPT !.bm_pending = @ \ {msg.dst}]),
                                      msg.dst, 0, {})
        ELSE new_rqst_slots(n, min_owned_slots,
                Effect(IF m.owned_slots = 0 /\ msg.nr > 0
                       THEN Signal([got EXCEPT !.FSM_state = "RUNNING"]) ELSE got))

\* mutants: only the primary notes who has the slots of a member that left; only
\* the donations come back
Taken(n, m, ids) == [m EXCEPT !.owner = [i \in Slot |-> IF i \in ids THEN n ELSE m.owner[i]]]

\* The slots of a member that left: an uncompleted donation of this member
\* comes back to it, the others go to the primary.
TakeBack(n, m, disc) ==
    LET lost  == {i \in Slot : m.owner[i] = disc}
        back  == lost \cap m.donating
        mine  == IF m.primary_mbr = n THEN lost \ back ELSE {}
        k     == Cardinality(back \cup mine)
        s == [m EXCEPT !.owner = [i \in Slot |-> IF i \in back THEN n
                                                 ELSE IF i \in lost THEN m.primary_mbr
                                                 ELSE m.owner[i]],
                       !.no_map = @ \ back,
                       !.free_slots = @ + k, !.owned_slots = @ + k]
    IN  IF m.owned_slots = 0 /\ \E i \in mine : \A j \in back : i < j THEN Signal([s EXCEPT !.FSM_state = "RUNNING"]) ELSE s


sp_disconnect(n, m, msg) ==
    LET disc == msg.member
        gone == [m EXCEPT !.nr_init = IF disc \in m.bm_init THEN @ - 1 ELSE @,
                          !.bm_init = @ \ {disc}, !.bm_donors = @ \ {disc},
                          !.bm_waitsts = @ \ {disc}, !.bm_pending = @ \ {disc}]
        s    == [gone EXCEPT !.primary_mbr = IF @ = disc THEN get_primary_mbr(gone.bm_init)
                                                         ELSE @]
    IN  IF \/ ~Initialized(m) /\ msg.nr_nodes = 1
           \/ m.primary_mbr = disc /\ s.primary_mbr = none
        THEN Dead(Effect(m), "left")        \* SP_disconnect: its mailbox is closed
        ELSE IF m.FSM_state # "WAIT_STATUS" /\ \E i \in m.bound : m.owner[i] = disc
        THEN Dead(Effect(m), "exit")        \* INCONSISTENCY!!
        ELSE IF m.FSM_state = "WAIT_STATUS" THEN Effect(TakeBack(n, s, disc))
        ELSE AfterView(n, Effect(TakeBack(n, s, disc)))

Handle(n, m, msg, ub) ==
    CASE msg.type = "JOIN"           -> sp_join(n, m, msg)
      [] msg.type = "DISCONNECT"     -> sp_disconnect(n, m, msg)
      [] msg.type = "SYS_PUT_STATUS" -> sp_put_status(n, m, msg)
      [] msg.type = "SYS_REQ_SLOTS"  -> sp_req_slots(n, Effect(m), msg.source, msg.need)
      [] msg.type = "SYS_DON_SLOTS"  -> sp_don_slots(n, m, msg, ub)

----------------------------------------------------------------------------
Init ==
    /\ up = {}
    /\ inbox = [n \in Node |-> <<>>]
    /\ mbr = [n \in Node |-> Fresh]
    /\ starts = 0 /\ crashes = 0 /\ forks = 0
    /\ failed = {}

Deliver(group, boxes, msgs) == [n \in Node |-> IF n \in group THEN boxes[n] \o msgs ELSE <<>>]

\* SP_multicast of what a handler or the main thread sends
Multicast(e, boxes) == inbox' = Deliver(up, boxes, e.out)

\* The process of n ends; what it sent last may be lost, and the group tells
\* the others.
Ends(n, out) == \E k \in 0 .. Len(out) :
    /\ up' = up \ {n}
    /\ inbox' = Deliver(up', inbox, Append(SubSeq(out, 1, k),
                        [type |-> "DISCONNECT", member |-> n, nr_nodes |-> Cardinality(up')]))
    /\ mbr' = [mbr EXCEPT ![n] = Fresh]

\* Nothing is on its way: every member runs, and waits for no answer.
Quiet == \A n \in up :
    /\ inbox[n] = <<>>
    /\ mbr[n].FSM_state = "RUNNING" /\ mbr[n].main = "running"
    /\ mbr[n].bm_donors = {} /\ mbr[n].bm_pending = {} /\ mbr[n].bm_waitsts = {}

\* init_slots: SP_connect, SP_join; then the slots thread is created
Start(n) ==
    /\ n \notin up /\ starts < StartLimit /\ (Calm => Quiet)
    /\ starts' = starts + 1
    /\ up' = up \cup {n}
    /\ inbox' = Deliver(up', inbox, <<[type |-> "JOIN", member |-> n,
                                       nr_nodes |-> Cardinality(up')]>>)
    /\ mbr' = [mbr EXCEPT ![n] = Fresh]
    /\ UNCHANGED <<crashes, forks, failed>>

Crash(n) ==
    /\ n \in up /\ crashes < CrashLimit /\ (Calm => Quiet)
    /\ crashes' = crashes + 1
    /\ Ends(n, <<>>)
    /\ UNCHANGED <<starts, forks, failed>>

\* The end of a handler
Finishes(n, e, boxes) ==
    IF e.dead # "no" THEN Ends(n, e.out) /\ failed' = failed \cup {e.dead}
    ELSE /\ mbr' = [mbr EXCEPT ![n] = e.m]
         /\ Multicast(e, boxes)
         /\ UNCHANGED <<up, failed>>

\* slots_loop
Receive(n) ==
    /\ n \in up /\ inbox[n] # <<>>
    /\ \E ub \in {"fault", "stale"} :
        \E e \in {Handle(n, mbr[n], Head(inbox[n]), ub)} :
            Finishes(n, e, [inbox EXCEPT ![n] = Tail(@)])
    /\ UNCHANGED <<starts, crashes, forks>>

\* main: pthread_cond_wait(&sys_barrier), and what follows it
MainWaits(n) ==
    /\ n \in up /\ mbr[n].main = "starting"
    /\ mbr' = [mbr EXCEPT ![n].main = "waiting"]
    /\ UNCHANGED <<up, inbox, starts, crashes, forks, failed>>

MainRuns(n) ==
    /\ n \in up /\ mbr[n].main = "woken"
    /\ LET m == mbr[n]
           again == m.FSM_state = "REQ_SLOTS" /\ m.owned_slots = 0
           e == IF again
                THEN mcast_rqst_slots(n, free_slots_low, Effect([m EXCEPT !.main = "waiting"]))
                ELSE Effect([m EXCEPT !.main = "running", !.free_slots = m.owned_slots])
       IN  mbr' = [mbr EXCEPT ![n] = e.m] /\ Multicast(e, inbox)
    /\ UNCHANGED <<up, starts, crashes, forks, failed>>

\* do_fork: get_free_proc chooses a slot under sys_mutex ...
get_free_proc(n) ==
    /\ n \in up \cap Forking /\ mbr[n].main = "running" /\ mbr[n].child = none
    /\ forks < ForkLimit
    /\ forks' = forks + 1
    /\ \E late \in BOOLEAN :       \* SLOTS_PAUSE seconds since the last request
        LET m    == mbr[n]
            asks == /\ late /\ m.free_slots < free_slots_low
                    /\ m.owned_slots < max_owned_slots(m)
                    /\ m.bm_donors = {} /\ m.bm_waitsts = {}
            next == FirstFree(n, m, 1)
            fair == Ceiling(max_owned_slots(m), m.nr_init)
            left == IF fair > m.owned_slots THEN fair - m.owned_slots
                                            ELSE free_slots_low - m.free_slots
            e    == IF asks THEN mcast_rqst_slots(n, left, Effect(m)) ELSE Effect(m)
        IN  Finishes(n,
                IF asks /\ m.nr_init <= 0 THEN Dead(Effect(m), "divided by 0")
                ELSE IF m.free_slots = 0 THEN e
                ELSE IF next = {} THEN Dead(e, "assert")      \* NEVER HERE BUT
                ELSE [e EXCEPT !.m.child = CHOOSE i \in next : TRUE], inbox)
    /\ UNCHANGED <<starts, crashes>>

\* mutant: do_fork does not test what get_free_proc found
do_fork_NotFound(n) ==
    /\ n \in up /\ mbr[n].main = "running"
    /\ mbr' = [mbr EXCEPT ![n] =
          [@ EXCEPT !.child = none, !.bound = mbr[n].bound \cup {mbr[n].child}]]
    /\ UNCHANGED <<up, inbox, starts, crashes, forks, failed>>

\* ... and do_fork binds the child in it without the mutex
do_fork(n) ==
    /\ n \in up /\ mbr[n].child # none
    /\ mbr' = [mbr EXCEPT ![n] =
        IF mbr[n].child \in mbr[n].bound \cup mbr[n].no_map THEN [@ EXCEPT !.child = none]
        ELSE [@ EXCEPT !.child = none, !.bound = mbr[n].bound \cup {mbr[n].child},
                       !.free_slots = mbr[n].free_slots - 1]]
    /\ UNCHANGED <<up, inbox, starts, crashes, forks, failed>>

\* flags is not initialised for a user process: the slot may not be counted
do_exit(n) ==
    /\ n \in up /\ mbr[n].child = none
    /\ \E i \in mbr[n].bound, counted \in {0, 1} :
        mbr' = [mbr EXCEPT ![n] = [@ EXCEPT !.bound = mbr[n].bound \ {i},
                                            !.free_slots = mbr[n].free_slots + counted]]
    /\ UNCHANGED <<up, inbox, starts, crashes, forks, failed>>

Next == \E n \in Node :
    \/ Start(n) \/ Crash(n) \/ Receive(n) \/ MainWaits(n) \/ MainRuns(n)
    \/ get_free_proc(n) \/ do_fork(n) \/ do_exit(n)

Spec == Init /\ [][Next]_vars

\* The slots thread receives what is in its mailbox, the main thread runs.
Fairness == \A n \in Node : WF_vars(Receive(n)) /\ WF_vars(MainWaits(n)) /\ WF_vars(MainRuns(n))

----------------------------------------------------------------------------
(* Properties. *)

Reasons == {"assert", "initialized twice", "fault", "left", "exit", "divided by 0"}
Member ==
    [FSM_state : STATES, primary_mbr : Node \cup {none}, nr_waitsts : Node \cup {none},
     bm_waitsts : SUBSET Node, nr_init : Int, bm_init : SUBSET Node,
     bm_donors : SUBSET Node, bm_pending : SUBSET Node,
     owner : [Slot -> Node \cup {none}], donating : SUBSET Slot, no_map : SUBSET Slot,
     bound : SUBSET Slot, owned_slots : Int, free_slots : Int,
     main : {"starting", "waiting", "woken", "running"}, child : Slot \cup {none}]
Message ==
    [type : {"JOIN", "DISCONNECT"}, member : Node, nr_nodes : Nat]
    \cup [type : {"SYS_REQ_SLOTS"}, source : Node, need : Int]
    \cup [type : {"SYS_DON_SLOTS"}, source : Node, dst : Node, nr : Int, slots : SUBSET Slot]
    \cup [type : {"SYS_PUT_STATUS"}, source : Node, dest : Node, bm_init : SUBSET Node,
          bm_waitsts : SUBSET Node, owner : [Slot -> Node \cup {none}], donating : SUBSET Slot]

\* The variables keep their types.
TypeOK ==
    /\ up \subseteq Node
    /\ inbox \in [Node -> Seq(Message)]
    /\ mbr \in [Node -> Member]
    /\ starts \in 0 .. StartLimit /\ crashes \in 0 .. CrashLimit /\ forks \in 0 .. ForkLimit
    /\ failed \subseteq Reasons

Speaking == {n \in up : Initialized(mbr[n])}
\* Members at the same place in the order of the group
Level(a, b) == Len(inbox[a]) = Len(inbox[b])


\* The slot table is replicated: initialized members at the same place in the
\* order agree on the owner of every slot neither of them is donating.
SameOwners == \A a, b \in Speaking : Level(a, b) =>
    \A i \in Slot : \/ i \in mbr[a].donating \cup mbr[b].donating
                   \/ mbr[a].owner[i] = mbr[b].owner[i]

\* So are the set of the initialized members and the primary.
SameView == \A a, b \in Speaking : Level(a, b) =>
    mbr[a].bm_init = mbr[b].bm_init /\ mbr[a].primary_mbr = mbr[b].primary_mbr




=============================================================================
