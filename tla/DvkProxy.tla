------------------------------ MODULE DvkProxy ------------------------------
(***************************************************************************)
(* The remote half of the DVK message passing: the remote branches of      *)
(* dvk_ipc.c, the sender proxies (dvk_sproxy.c), the receiver proxies      *)
(* (dvk_rproxy.c), the acknowledgements (dvk_acks.c) and the TCP proxies   *)
(* that carry the commands between the nodes of one DC.                    *)
(*                                                                         *)
(* A process has a descriptor on every node: at home it is LOCAL, on the   *)
(* others it is the REMOTE image in whose name the proxies act.  A process *)
(* that addresses a remote one queues its own descriptor, with a command   *)
(* in it, at the sender proxy; an acknowledgement queues the image of the  *)
(* process it goes to.  An action is one critical section.                 *)
(***************************************************************************)
EXTENDS Integers, Sequences, SequencesExt

CONSTANTS
    Nodes,        \* the nodes of the DC
    Procs,        \* p_nr of the processes bound to the DC
    ANY,          \* ANY: a receive that takes from every process
    NONE,         \* NONE
    Home,         \* the node a process runs on
    IpcTo,        \* priv_ipc_to at home: whom a process may address
    RmtIpcTo,     \* priv_ipc_to of its image: who lets it in
    DvkAllowed,   \* priv_dvk_allowed at home: the calls it may make
    RmtAllowed,   \* priv_dvk_allowed of its image
    Sources,      \* the endpoints a process asks new_mini_receive for
    Impatient,    \* processes whose calls time out or are interrupted
    CallLimit     \* bound: how many messages a process sends

Calls == {"send", "receive", "sendrec", "reply", "notify"}
Links == {l \in Nodes \X Nodes : l[1] # l[2]}      \* a proxy pair each
Back(l) == <<l[2], l[1]>>

ASSUME NamesAssumption == ANY \notin Procs /\ NONE \notin Procs /\ ANY # NONE
ASSUME NodesAssumption == \E a, b \in Nodes : a # b /\ Nodes = {a, b}
ASSUME HomeAssumption == Procs \subseteq Int /\ Home \in [Procs -> Nodes]
ASSUME PrivAssumption ==
    /\ IpcTo \in [Procs -> SUBSET Procs]
    /\ \A p \in Procs : \A d \in IpcTo[p] : Home[d] # Home[p]
    /\ RmtIpcTo \in [Procs -> SUBSET Procs]
    /\ DvkAllowed \in [Procs -> SUBSET Calls]
    /\ RmtAllowed \in [Procs -> SUBSET Calls]
    /\ Sources \in [Procs -> SUBSET (Procs \cup {ANY})]
    /\ Impatient \subseteq Procs
ASSUME BoundAssumption == CallLimit \in [Procs -> Nat]

VARIABLES
    desc,     \* the descriptor of each process on each node
    inq,      \* p_list of a process: the images that wait to deliver to it
    outq,     \* p_list of the sender proxy of a link
    sproxy,   \* where the sender proxy is in new_get2rmt, and its xpp
    net,      \* the headers in the TCP connection of a link
    pc,       \* where the thread of a process is
    call,     \* the call it is making, or made last
    ret,      \* "OK" or "error": the code that call returned
    got,      \* the message in the buffer of that call
    owed,     \* the request of each client a server has not answered yet
    taken     \* history: the messages of each process each process has got

vars  == <<desc, inq, outq, sproxy, net, pc, call, ret, got, owed, taken>>
wires == <<sproxy, net>>

-----------------------------------------------------------------------------
(* Types *)

MsgCmds == {"SEND_MSG", "SNDREC_MSG", "REPLY_MSG", "NTFY_MSG"}

\* A message is told by its sender, the number of the sender's call (0: built
\* in the kernel), and the number of the request it answers.
Messages == [cmd : MsgCmds, src : Procs, n : Nat, re : Nat]
ASSUME MessagesAssumption == NONE \notin Messages
Commands == [cmd : MsgCmds \cup {"SEND_ACK", "NONE"}, src : Procs \cup {NONE},
             dst : Procs \cup {NONE}, rcode : {"OK", "error"},
             msg : Messages \cup {NONE}]
NoCommand == [cmd |-> "NONE", src |-> NONE, dst |-> NONE, rcode |-> "OK", msg |-> NONE]

Descriptors ==
    [rts     : SUBSET {"SENDING", "RECEIVING", "RMTOPER"},  \* p_rts_flags
     getfrom : Procs \cup {ANY, NONE},                      \* p_getfrom
     sendto  : Procs \cup {NONE},                           \* p_sendto
     sem     : Int,                                         \* p_pseudosem
     rcode   : {"OK", "error"},                             \* p_rcode
     rmtcmd  : Commands,                                    \* p_rmtcmd
     message : Messages \cup {NONE},                        \* p_message
     notify  : BOOLEAN,                                     \* MIS_BIT_NOTIFY
     pending : SUBSET Procs]                                \* priv_notify_pending

TypeOK ==
    /\ desc \in [Nodes -> [Procs -> Descriptors]]
    /\ \A n \in Nodes, p \in Procs : desc[n][p].sem >= -1
    /\ inq \in [Procs -> Seq(Procs)]
    /\ outq \in [Links -> Seq(Procs)]
    /\ sproxy \in [Links -> [at : {"look", "sleep", "window", "taken"},
                             xpp : Procs \cup {NONE}]]
    /\ net \in [Links -> Seq(Commands)]
    /\ pc \in [Procs -> {"user", "sleep", "expired"}]
    /\ call \in [Procs -> [op : Calls \cup {"none"}, peer : Procs \cup {ANY, NONE}, n : Nat]]
    /\ ret \in [Procs -> {"OK", "error"}]
    /\ got \in [Procs -> Messages \cup {NONE}]
    /\ owed \in [Procs -> [Procs -> Nat]]
    /\ taken \in [Procs -> [Procs -> Seq(Nat)]]

-----------------------------------------------------------------------------
(* The lists *)

\* A descriptor is in at most one list, once.  sproxy_enqueue and send_rmt2lcl
\* initialise p_link without a look at it; what follows when it was linked
\* depends on the lists' memory, and no step is taken from there.
LinkedOnce ==
    /\ \A l \in Links : IsInjective(outq[l])
    /\ \A q \in Procs :
          /\ IsInjective(inq[q])
          /\ \A x \in ToSet(inq[q]) :
                /\ \A l \in Links : l[1] = Home[q] => x \notin ToSet(outq[l])
                /\ \A r \in Procs \ {q} : Home[r] = Home[q] => x \notin ToSet(inq[r])

-----------------------------------------------------------------------------
(* Operations on one descriptor *)

Mine(p) == desc[Home[p]][p]          \* the LOCAL descriptor of a process
IsImage(n, p) == Home[p] # n         \* IT_IS_REMOTE

Wake_NoUp(d, rc) ==            \* mutant
    IF d.rts = {} THEN [d EXCEPT !.rcode = rc] ELSE d
Wake(d, rc) ==
    IF d.rts = {} THEN [d EXCEPT !.rcode = rc, !.sem = @ + 1] ELSE d
ReadyUp(d, rc) == [d EXCEPT !.rts = {}, !.rcode = rc, !.sem = @ + 1]
Down(d) == [d EXCEPT !.sem = -1, !.rcode = "OK"]

EndReceive_Forgotten(d) == d                               \* mutant
EndSend(d) == [d EXCEPT !.rts = @ \ {"SENDING"}, !.sendto = NONE]
EndReceive(d) == [d EXCEPT !.rts = @ \ {"RECEIVING"}, !.getfrom = NONE]

\* "Check if dst is blocked waiting for this message", sent in the name of s.
Waits(d, s) ==
    /\ "RECEIVING" \in d.rts /\ "SENDING" \notin d.rts
    /\ d.getfrom \in {ANY, s}

-----------------------------------------------------------------------------
(* The sender proxy's queue *)

\* LIST_DEL_INIT: p_link of the descriptor of p on node n leaves its list.
Without_Forgets(s, p) == s                                 \* mutant
Without(s, p) ==
    IF p \in ToSet(s) THEN RemoveAt(s, CHOOSE i \in DOMAIN s : s[i] = p) ELSE s
UnlinkOut(n, p) == [l \in Links |-> IF l[1] = n THEN Without(outq[l], p) ELSE outq[l]]
UnlinkIn(n, p) == [q \in Procs |-> IF Home[q] = n THEN Without(inq[q], p) ELSE inq[q]]

\* sproxy_enqueue: the descriptor is appended, whether or not it is enqueued
\* already, and the proxy woken.  (The caller sets RMTOPER.)
SproxyEnqueue(l, p) ==
    /\ outq' = [outq EXCEPT ![l] = Append(@, p)]
    /\ sproxy' = [sproxy EXCEPT ![l].at = IF @ = "sleep" THEN "look" ELSE @]

\* generic_ack_lcl2rmt and error_lcl2rmt: the image of r, on the node of q, is
\* queued with an acknowledgement from q.
Acknowledging(d, q, r, rc) ==
    [d EXCEPT !.rts = @ \cup {"RMTOPER"},
              !.rmtcmd = [cmd |-> "SEND_ACK", src |-> q, dst |-> r,
                          rcode |-> rc, msg |-> NONE]]

-----------------------------------------------------------------------------
(* Calls to a remote process *)

\* check_caller and the privilege checks.
Enter(p, op) ==
    pc[p] = "user" /\ op \in DvkAllowed[p] /\ Mine(p).rts = {} /\ LinkedOnce

\* The peer's image is no longer receiving; new_mini_notify builds its message
\* there, new_mini_sendrec leaves it alone.
PeerImage(d, op, p, m) ==
    LET e == [d EXCEPT !.rts = @ \ {"RECEIVING"},
                       !.getfrom = IF @ = p THEN NONE ELSE @]
    IN  CASE op = "sendrec" -> d
          [] op = "notify"  -> [e EXCEPT !.message = m]
          [] OTHER          -> e

\* The flags of a process in a call to a remote one.
CallFlags(op) ==
    {"SENDING", "RMTOPER"} \cup IF op = "sendrec" THEN {"RECEIVING"} ELSE {}

\* The caller's descriptor is filled, queued at the sender proxy and put to
\* sleep, all under its mutex.
Remote(p, op, d, cmd, re) ==
    LET here == Home[p]
        number == call[p].n + 1
        m == [cmd |-> cmd, src |-> p, n |-> number, re |-> re]
    IN  /\ Enter(p, op) /\ d \in IpcTo[p]
        /\ number <= CallLimit[p]
        /\ desc' = [desc EXCEPT
              ![here][p] = Down([Mine(p) EXCEPT
                  !.rts = CallFlags(op),
                  !.sendto = d,
                  !.getfrom = IF op = "sendrec" THEN d ELSE @,
                  !.rmtcmd = [cmd |-> cmd, src |-> p, dst |-> d,
                              rcode |-> "OK", msg |-> m]]),
              ![here][d] = PeerImage(@, op, p, m)]
        /\ SproxyEnqueue(<<here, Home[d]>>, p)
        /\ pc' = [pc EXCEPT ![p] = "sleep"]
        /\ call' = [call EXCEPT ![p] = [op |-> op, peer |-> d, n |-> number]]
        /\ got' = [got EXCEPT ![p] = NONE]
        /\ UNCHANGED <<inq, net, ret, taken>>

Send(p, d)    == Remote(p, "send", d, "SEND_MSG", 0) /\ UNCHANGED owed
Sendrec(p, d) == Remote(p, "sendrec", d, "SNDREC_MSG", 0) /\ UNCHANGED owed
Notify(p, d)  == Remote(p, "notify", d, "NTFY_MSG", 0) /\ UNCHANGED owed

\* Programs reply to requests they have taken.
Reply(p, d) ==
    /\ owed[p][d] > 0
    /\ Remote(p, "reply", d, "REPLY_MSG", owed[p][d])
    /\ owed' = [owed EXCEPT ![p][d] = 0]

\* The thread leaves wait_event_*.
Leaves(p) ==
    /\ pc[p] = "expired" \/ (pc[p] = "sleep" /\ Mine(p).sem >= 0)
    /\ LinkedOnce
Fails_IgnoresTimeout(p) == Mine(p).rcode # "OK"            \* mutant
Fails(p)  == pc[p] = "expired" \/ Mine(p).rcode # "OK"
Up_Again(d) == [d EXCEPT !.sem = IF @ < 0 THEN @ - 1 ELSE @]   \* mutant
Up(d) == [d EXCEPT !.sem = IF @ < 0 THEN @ + 1 ELSE @]

Returns(p, rc) ==
    /\ pc' = [pc EXCEPT ![p] = "user"]
    /\ ret' = [ret EXCEPT ![p] = rc]

\* The rest of new_mini_send, sendrec, reply and notify.
CallDone(p) ==
    LET here == Home[p]
    IN  /\ Leaves(p) /\ call[p].op # "receive"
        /\ IF Fails(p)
           THEN /\ desc' = [desc EXCEPT ![here][p] = Up([Mine(p) EXCEPT
                      !.rts = @ \ CallFlags(call[p].op), !.sendto = NONE, !.rcode = "error",
                      !.getfrom = IF call[p].op = "sendrec" THEN NONE ELSE @])]
                /\ outq' = IF "SENDING" \in Mine(p).rts
                           THEN UnlinkOut(here, p) ELSE outq
                /\ Returns(p, "error")
           ELSE UNCHANGED <<desc, outq>> /\ Returns(p, "OK")
        /\ UNCHANGED <<inq, wires, call, got, owed, taken>>

\* A timer expires or a signal arrives while the process is not woken.
Expire(p) ==
    /\ p \in Impatient /\ pc[p] = "sleep" /\ Mine(p).sem < 0 /\ LinkedOnce
    /\ pc' = [pc EXCEPT ![p] = "expired"]
    /\ UNCHANGED <<desc, inq, outq, wires, call, ret, got, owed, taken>>

-----------------------------------------------------------------------------
(* new_mini_receive, of messages the receiver proxy brought *)

\* Message m enters the buffer of q.
Deliver(q, m) ==
    /\ got' = [got EXCEPT ![q] = m]
    /\ owed' = [owed EXCEPT ![q][m.src] = IF m.cmd = "SNDREC_MSG" THEN m.n ELSE @]
    /\ taken' = [taken EXCEPT ![q][m.src] =
                    IF m.cmd = "NTFY_MSG" THEN @ ELSE Append(@, m.n)]

EnterReceive(p, s) ==
    /\ Enter(p, "receive") /\ s \in Sources[p]
    /\ call' = [call EXCEPT ![p].op = "receive", ![p].peer = s]

\* The lowest pending notification is built and delivered.
ReceiveNotify(p, s) ==
    /\ EnterReceive(p, s)
    /\ \E i \in Mine(p).pending :
          LET m == [cmd |-> "NTFY_MSG", src |-> i, n |-> 0, re |-> 0]
          IN  /\ \A j \in Mine(p).pending : i <= j
              /\ desc' = [desc EXCEPT ![Home[p]][p].pending = @ \ {i},
                                      ![Home[p]][p].message = m]
              /\ Deliver(p, m)
    /\ Returns(p, "OK")
    /\ UNCHANGED <<inq, outq, wires>>

Suitable(p, s) == {i \in DOMAIN inq[p] : s \in {ANY, inq[p][i]}}

\* The first suitable image of the queue; only a plain send is acknowledged.
ReceiveTake(p, s) ==
    /\ EnterReceive(p, s) /\ Mine(p).pending = {}
    /\ \E i \in Suitable(p, s) :
          LET here == Home[p]
              x == inq[p][i]
              d == desc[here][x]
          IN  /\ \A j \in Suitable(p, s) : i <= j
              /\ "SENDING" \in d.rts /\ d.sendto = p
              /\ inq' = UnlinkIn(here, x)
              /\ Deliver(p, d.message)
              /\ IF "RECEIVING" \in d.rts
                 THEN /\ desc' = [desc EXCEPT ![here][x] = EndSend(d)]
                      /\ UNCHANGED <<outq, sproxy>>
                 ELSE /\ desc' = [desc EXCEPT ![here][x] =
                                     EndSend(Acknowledging(d, p, x, "OK"))]
                      /\ SproxyEnqueue(<<here, Home[x]>>, x)
    /\ Returns(p, "OK")
    /\ UNCHANGED net

ReceiveBlock(p, s) ==
    /\ EnterReceive(p, s) /\ Mine(p).pending = {} /\ Suitable(p, s) = {}
    /\ desc' = [desc EXCEPT ![Home[p]][p] =
          Down([@ EXCEPT !.rts = {"RECEIVING"}, !.getfrom = s, !.notify = FALSE])]
    /\ pc' = [pc EXCEPT ![p] = "sleep"]
    /\ got' = [got EXCEPT ![p] = NONE]
    /\ UNCHANGED <<inq, outq, wires, ret, owed, taken>>

\* With MIS_BIT_NOTIFY set the receiver copies p_message into its buffer.
ReceiveDone(p) ==
    /\ Leaves(p) /\ call[p].op = "receive"
    /\ desc' = [desc EXCEPT ![Home[p]][p] =
          LET d == [@ EXCEPT !.notify = FALSE]
          IN  IF Fails(p) THEN Up(EndReceive([d EXCEPT !.rcode = "error"])) ELSE d]
    /\ got' = [got EXCEPT ![p] =
          IF ~Fails(p) /\ Mine(p).notify THEN Mine(p).message ELSE @]
    /\ Returns(p, IF Fails(p) THEN "error" ELSE "OK")
    /\ UNCHANGED <<inq, outq, wires, call, owed, taken>>

-----------------------------------------------------------------------------
(* new_get2rmt: the sender proxy *)

At(l, place) == sproxy[l].at = place /\ LinkedOnce

\* It finds a descriptor in its queue, and unlocks itself to lock that first.
Get2rmtLook(l) ==
    /\ At(l, "look") /\ outq[l] # << >>
    /\ sproxy' = [sproxy EXCEPT ![l] = [at |-> "window", xpp |-> Head(outq[l])]]
    /\ UNCHANGED <<desc, inq, outq, net, pc, call, ret, got, owed, taken>>

Get2rmtSleep(l) ==
    /\ At(l, "look") /\ outq[l] = << >>
    /\ sproxy' = [sproxy EXCEPT ![l].at = "sleep"]
    /\ UNCHANGED <<desc, inq, outq, net, pc, call, ret, got, owed, taken>>

\* It removes the descriptor and unlocks everything to look up its DC.
Get2rmtTake(l) ==
    /\ At(l, "window")
    /\ outq' = UnlinkOut(l[1], sproxy[l].xpp)
    /\ inq' = UnlinkIn(l[1], sproxy[l].xpp)
    /\ sproxy' = [sproxy EXCEPT ![l].at = "taken"]
    /\ UNCHANGED <<desc, net, pc, call, ret, got, owed, taken>>

\* mutants: RMTOPER stays; the command may leave again; a send or a request
\* ends when it leaves; a request keeps SENDING.
Sent_KeepsRmtoper(d, image) == EndSend([d EXCEPT !.rmtcmd.cmd = "NONE"])
Sent_KeepsCommand(d, image) ==
    LET e == [d EXCEPT !.rts = @ \ {"RMTOPER"}]
    IN  IF image \/ d.rmtcmd.cmd = "SNDREC_MSG" THEN EndSend(e) ELSE e
Sent_NoWait(d, image) ==
    LET e == EndReceive(EndSend([d EXCEPT !.rts = @ \ {"RMTOPER"}, !.rmtcmd.cmd = "NONE"]))
    IN  IF image THEN e ELSE Wake(e, "OK")
Sent_KeepsSending(d, image) ==
    LET e == [d EXCEPT !.rts = @ \ {"RMTOPER"}, !.rmtcmd.cmd = "NONE"]
    IN  IF image THEN EndSend(e) ELSE e

\* The flags of a descriptor whose command leaves.  A sender keeps SENDING for
\* the acknowledgement, a client RECEIVING for the reply.
Sent(d, image) ==
    LET e == [d EXCEPT !.rts = @ \ {"RMTOPER"}, !.rmtcmd.cmd = "NONE"]
    IN  CASE image                       -> EndSend(e)
          [] d.rmtcmd.cmd = "SNDREC_MSG" -> EndSend(e)
          [] d.rmtcmd.cmd = "NTFY_MSG"   -> Wake(EndSend(e), "OK")
          [] OTHER                       -> e

\* It locks the descriptor again, hands its command to the proxy program and
\* that to the connection.  A command that has left is EDVSINVAL.
Get2rmtDispatch(l) ==
    LET x == sproxy[l].xpp
        d == desc[l[1]][x]
        image == IsImage(l[1], x)
    IN  /\ At(l, "taken")
        /\ \/ /\ d.rmtcmd.cmd # "NONE"
              /\ desc' = [desc EXCEPT ![l[1]][x] = Sent(d, image)]
              /\ net' = [net EXCEPT ![l] = Append(@, d.rmtcmd)]
           \/ /\ d.rmtcmd.cmd = "NONE"
              /\ desc' = [desc EXCEPT ![l[1]][x] =
                    IF image THEN [d EXCEPT !.rts = {}] ELSE ReadyUp(d, "error")]
              /\ UNCHANGED net
        /\ sproxy' = [sproxy EXCEPT ![l] = [at |-> "look", xpp |-> NONE]]
        /\ UNCHANGED <<inq, outq, pc, call, ret, got, owed, taken>>

-----------------------------------------------------------------------------
(* new_put2lcl: the receiver proxy, for the header of a remote process, src,  *)
(* to a local one, dst                                                     *)

Header(l) == Head(net[l])
Arrives(l) == net[l] # << >> /\ LinkedOnce /\ net' = [net EXCEPT ![l] = Tail(@)]

\* The image of the source is let in, is not in use, and may make the call.
Admitted(h) == h.dst \in RmtIpcTo[h.src]
Unused(l, h) == desc[l[2]][h.src].rts \cap {"SENDING", "RMTOPER"} = {}
CallOf == [SEND_MSG |-> "send", SNDREC_MSG |-> "sendrec",
           REPLY_MSG |-> "reply", NTFY_MSG |-> "notify"]
MayCall(h) == h.cmd \in MsgCmds => CallOf[h.cmd] \in RmtAllowed[h.src]
Accepted(l) ==
    Arrives(l) /\ LET h == Header(l) IN Admitted(h) /\ Unused(l, h) /\ MayCall(h)

\* EDVSTRAPDENIED: any message is answered with an error acknowledgement.
Put2lclDenied(l) ==
    /\ Arrives(l)
    /\ LET h == Header(l)
       IN  /\ ~Admitted(h)
           /\ IF h.cmd = "SEND_ACK"
              THEN UNCHANGED <<desc, outq, sproxy>>
              ELSE /\ desc' = [desc EXCEPT ![l[2]][h.src] =
                                  Acknowledging(@, h.dst, h.src, "error")]
                   /\ SproxyEnqueue(Back(l), h.src)
    /\ UNCHANGED <<inq, pc, call, ret, got, owed, taken>>

\* EDVSENQUEUED and EDVSBADCALL are not answered.
Put2lclDropped(l) ==
    /\ Arrives(l)
    /\ LET h == Header(l) IN Admitted(h) /\ ~(Unused(l, h) /\ MayCall(h))
    /\ UNCHANGED <<desc, inq, outq, sproxy, pc, call, ret, got, owed, taken>>

IsMessage(h) == h.cmd \in {"SEND_MSG", "SNDREC_MSG", "REPLY_MSG"}

\* send_rmt2lcl to a waiting destination.
Put2lclDeliver(l) ==
    LET h == Header(l)
        src == desc[l[2]][h.src]
        dst == desc[l[2]][h.dst]
    IN  /\ Accepted(l) /\ IsMessage(h) /\ Waits(dst, h.src)
        /\ Deliver(h.dst, h.msg)
        /\ IF h.cmd = "SNDREC_MSG"
           THEN /\ desc' = [desc EXCEPT
                      ![l[2]][h.src] = [src EXCEPT !.rts = @ \cup {"RECEIVING"},
                                                   !.getfrom = h.dst],
                      ![l[2]][h.dst] = Wake(EndReceive(dst), "OK")]
                /\ UNCHANGED <<outq, sproxy>>
           ELSE /\ desc' = [desc EXCEPT
                      ![l[2]][h.src] = Acknowledging(src, h.dst, h.src, "OK"),
                      ![l[2]][h.dst] = Wake(EndReceive(dst), "OK")]
                /\ SproxyEnqueue(Back(l), h.src)
        /\ UNCHANGED <<inq, pc, call, ret>>

\* send_rmt2lcl to a busy one: the image keeps the message and queues there.
Put2lclQueue(l) ==
    LET h == Header(l)
        src == desc[l[2]][h.src]
        rec == h.cmd = "SNDREC_MSG"
    IN  /\ Accepted(l) /\ IsMessage(h) /\ ~Waits(desc[l[2]][h.dst], h.src)
        /\ desc' = [desc EXCEPT ![l[2]][h.src] =
              [src EXCEPT !.message = h.msg, !.sendto = h.dst,
                          !.rts = @ \cup {"SENDING"} \cup
                                  (IF rec THEN {"RECEIVING"} ELSE {}),
                          !.getfrom = IF rec THEN h.dst ELSE @]]
        /\ inq' = [inq EXCEPT ![h.dst] = Append(@, h.src)]
        /\ UNCHANGED <<outq, sproxy, pc, call, ret, got, owed, taken>>

\* notify_rmt2lcl.
Put2lclNotify(l) ==
    LET h == Header(l)
        dst == desc[l[2]][h.dst]
    IN  /\ Accepted(l) /\ h.cmd = "NTFY_MSG"
        /\ \/ /\ Waits(dst, h.src)
              /\ Deliver(h.dst, h.msg)
              /\ desc' = [desc EXCEPT ![l[2]][h.dst] = Wake(EndReceive(dst), "OK")]
           \/ /\ ~Waits(dst, h.src)
              /\ desc' = [desc EXCEPT ![l[2]][h.dst] =
                    [dst EXCEPT !.notify = TRUE, !.pending = @ \cup {h.src}]]
              /\ UNCHANGED <<got, owed, taken>>
        /\ UNCHANGED <<inq, outq, sproxy, pc, call, ret>>

\* send_ack_rmt2lcl; an acknowledgement nobody waits for is dropped.
Put2lclAck(l) ==
    LET h == Header(l)
        dst == desc[l[2]][h.dst]
        waits == "SENDING" \in dst.rts /\ dst.sendto = h.src
    IN  /\ Accepted(l) /\ h.cmd = "SEND_ACK"
        /\ desc' = [desc EXCEPT ![l[2]][h.dst] =
              IF waits THEN Wake(EndSend(dst), h.rcode) ELSE dst]
        /\ UNCHANGED <<inq, outq, sproxy, pc, call, ret, got, owed, taken>>

-----------------------------------------------------------------------------
(* The system *)

Clean == [rts |-> {}, getfrom |-> NONE, sendto |-> NONE, sem |-> 0, rcode |-> "OK",
          rmtcmd |-> NoCommand, message |-> NONE, notify |-> FALSE, pending |-> {}]

Init ==
    /\ desc = [n \in Nodes |-> [p \in Procs |-> Clean]]
    /\ inq = [p \in Procs |-> << >>]
    /\ outq = [l \in Links |-> << >>]
    /\ sproxy = [l \in Links |-> [at |-> "look", xpp |-> NONE]]
    /\ net = [l \in Links |-> << >>]
    /\ pc = [p \in Procs |-> "user"]
    /\ call = [p \in Procs |-> [op |-> "none", peer |-> NONE, n |-> 0]]
    /\ ret = [p \in Procs |-> "OK"]
    /\ got = [p \in Procs |-> NONE]
    /\ owed = [p \in Procs |-> [q \in Procs |-> 0]]
    /\ taken = [p \in Procs |-> [q \in Procs |-> << >>]]

ReceiveNow(p, s) == ReceiveNotify(p, s) \/ ReceiveTake(p, s)
Receive(p, s) == ReceiveNow(p, s) \/ ReceiveBlock(p, s)

Calling(p) ==
    \/ \E d \in Procs : Send(p, d) \/ Sendrec(p, d) \/ Notify(p, d) \/ Reply(p, d)
    \/ \E s \in Sources[p] : Receive(p, s)
Continue(p) == CallDone(p) \/ ReceiveDone(p)
Process(p) == Calling(p) \/ Continue(p) \/ Expire(p)

Get2rmt(l) ==
    Get2rmtLook(l) \/ Get2rmtSleep(l) \/ Get2rmtTake(l) \/ Get2rmtDispatch(l)

Put2lcl(l) ==
    \/ Put2lclDenied(l) \/ Put2lclDropped(l) \/ Put2lclDeliver(l)
    \/ Put2lclQueue(l) \/ Put2lclNotify(l) \/ Put2lclAck(l)

Next ==
    \/ \E p \in Procs : Process(p)
    \/ \E l \in Links : Get2rmt(l) \/ Put2lcl(l)

Spec == Init /\ [][Next]_vars

\* The proxies and their connection work on, every thread that was woken runs.
\* A server in servers answers whom it owes a reply, and else receives.
Serve(q) ==
    \/ \E d \in Procs : Reply(q, d)
    \/ /\ \A d \in Procs : owed[q][d] = 0
       /\ \E s \in Sources[q] : Receive(q, s)
Fairness(servers) ==
    /\ \A l \in Links : WF_vars(Get2rmt(l)) /\ WF_vars(Put2lcl(l))
    /\ \A p \in Procs : WF_vars(Continue(p))
    /\ \A q \in servers : WF_vars(Serve(q))

-----------------------------------------------------------------------------
(* Properties *)

\* A process sleeps exactly while its descriptor has a flag, and none is set
\* when it is back in its program: whoever clears the last flag, sender proxy,
\* receiver proxy or acknowledgement, wakes it, once.
WakeProtocol ==
    \A p \in Procs :
        IF pc[p] = "user" THEN Mine(p).rts = {}
        ELSE (Mine(p).rts # {}) <=> (Mine(p).sem = -1)

\* Over two nodes, two proxies and the acknowledgement a send or a reply
\* returns OK exactly when its message has reached a buffer of the peer.
SendReports ==
    \A p \in Procs :
        pc[p] = "user" /\ call[p].op \in {"send", "reply"} =>
            (ret[p] = "OK" <=> call[p].n \in ToSet(taken[call[p].peer][p]))

\* A sendrec that returns OK has the reply to its own request.
SendrecReports ==
    \A p \in Procs :
        pc[p] = "user" /\ call[p].op = "sendrec" /\ ret[p] = "OK" =>
            /\ got[p] # NONE
            /\ got[p].cmd = "REPLY_MSG" /\ got[p].src = call[p].peer
            /\ got[p].re = call[p].n

\* What a call to another node returns is what happened there.
CallsReport == SendReports /\ SendrecReports

\* The messages of one process to another arrive at most once, in order, lost
\* acknowledgements, late commands and abandoned calls included.
TakenInOrder ==
    \A p, q \in Procs : \A i, j \in DOMAIN taken[q][p] :
        i < j => taken[q][p][i] < taken[q][p][j]

\* The queue of a process links exactly the images that send to it.
InqExact ==
    \A q, x \in Procs : LET d == desc[Home[q]][x] IN
        x \in ToSet(inq[q]) <=>
            IsImage(Home[q], x) /\ "SENDING" \in d.rts /\ d.sendto = q

\* A descriptor has RMTOPER exactly while it is at the sender proxy of its node.
OutqExact ==
    \A n \in Nodes, p \in Procs :
        "RMTOPER" \in desc[n][p].rts <=>
            \E l \in Links : l[1] = n /\
                (p \in ToSet(outq[l]) \/ (sproxy[l].at = "taken" /\ sproxy[l].xpp = p))

\* A process is back in its program only with its flags clear, whatever the
\* proxies still do with its descriptor: check_caller refuses its calls else.
ReturnsClean == \A p \in Procs : pc[p] = "user" => Mine(p).rts = {}

\* A receiver proxy never writes into the buffer of a process that is back in
\* its program, though the message may have been sent for an abandoned call.
BufferOwned ==
    [][\A l \in Links, p \in Procs :
          net'[l] # net[l] /\ Home[p] = l[2] /\ pc[p] = "user" => got'[p] = got[p]]_vars

\* Every call to a server that lets the caller in returns, unless the server
\* itself waits for others with nothing queued, and owes the caller its reply.
Neglects(q, p) ==
    /\ pc[q] = "sleep" /\ "RECEIVING" \in Mine(q).rts /\ inq[q] = <<>>
    /\ owed[q][p] # 0
Answered(q) ==
    \A p \in Procs : q \in RmtIpcTo[p] =>
        []<>~(pc[p] = "sleep" /\ call[p].peer = q) \/ <>[]Neglects(q, p)
=============================================================================
