---------------------- MODULE DvkProxyMessagesProofs ------------------------
(* What becomes of a message between two nodes, and of the call that sends   *)
(* it: proofs about DvkProxy, for any processes and any privileges.          *)
EXTENDS DvkProxyProofs

-----------------------------------------------------------------------------
(* What a process may have sent, and what is sent to tell it the outcome     *)

Mail(p) == {c \in Commands : c.cmd \in MsgCmds /\ c.src = p}
Letters(p) == {c \in Mail(p) : c.cmd # "NTFY_MSG"}
Acks(p) == {c \in Commands : c.cmd = "SEND_ACK" /\ c.dst = p}

\* On the way of p, which leaves its node over l.
MailOf(l, p) == ToSet(net[l]) \cap Mail(p)
LettersOf(l, p) == ToSet(net[l]) \cap Letters(p)
AcksOf(l, p) == ToSet(net[Back(l)]) \cap Acks(p)

\* A command is one its process may give, and carries its own message; what is
\* in a descriptor, its command and its message, is of the process it describes.
Lawful(c) ==
    c.cmd \in MsgCmds =>
        /\ c.dst \in IpcTo[c.src] /\ CallOf[c.cmd] \in DvkAllowed[c.src]
        /\ c.msg.src = c.src /\ c.msg.cmd = c.cmd
Labelled(n, x) ==
    LET d == desc[n][x]
        c == d.rmtcmd
    IN  /\ Lawful(c)
        /\ c.cmd \in MsgCmds => Home[x] = n /\ c.src = x
        /\ c.cmd = "SEND_ACK" => Home[x] # n /\ c.dst = x
        /\ "SENDING" \in d.rts /\ Home[x] # n => d.message \in Messages
        /\ "SENDING" \in d.rts /\ Home[x] # n /\ d.message.cmd # "NTFY_MSG" => d.message.src = x
AllLawful ==
    /\ \A n \in Nodes, x \in Procs : Labelled(n, x)
    /\ \A l \in Links : \A c \in ToSet(net[l]) : Lawful(c)

-----------------------------------------------------------------------------
(* What a step does to one process p, whose way to the other node is the     *)
(* link l: its LOCAL descriptor is on the node l[1], its image on l[2].  The *)
(* invariants speak of one process at a time: a lemma per action says which  *)
(* of these shapes its step has for each process, a lemma per invariant that *)
(* every shape keeps it.                                                     *)

Local(l, p) == desc[l[1]][p]
Image(l, p) == desc[l[2]][p]

SameLocal(l, p) ==
    LET d == Local(l, p)
        e == Local(l, p)'
    IN  /\ e.rts = d.rts /\ e.getfrom = d.getfrom /\ e.sendto = d.sendto
        /\ e.sem = d.sem /\ e.rcode = d.rcode /\ e.rmtcmd = d.rmtcmd
SameImage(l, p) ==
    LET d == Image(l, p)
        e == Image(l, p)'
    IN  /\ e.rts = d.rts /\ e.sendto = d.sendto /\ e.rmtcmd = d.rmtcmd
        /\ e.message = d.message
SameThread(p) == pc'[p] = pc[p] /\ call'[p] = call[p] /\ ret'[p] = ret[p]
SameTaken(p) == \A q \in Procs : taken'[q][p] = taken[q][p]
NoMoreMail(l, p) == MailOf(l, p)' \subseteq MailOf(l, p)
NoMoreAcks(l, p) == AcksOf(l, p)' \subseteq AcksOf(l, p)
NoMore(l, p) == NoMoreMail(l, p) /\ NoMoreAcks(l, p)

\* Nothing of it concerns p, but that a message of p or an acknowledgement to
\* it may be lost.
Quiet(l, p) ==
    /\ SameLocal(l, p) /\ SameImage(l, p) /\ SameThread(p) /\ got'[p] = got[p]
    /\ SameTaken(p) /\ NoMore(l, p)

\* p makes the call op of d, ...
Cmd(op) ==
    CASE op = "send" -> "SEND_MSG" [] op = "sendrec" -> "SNDREC_MSG"
      [] op = "reply" -> "REPLY_MSG" [] OTHER -> "NTFY_MSG"
Answers(p, op, d) == IF op = "reply" THEN owed[p][d] ELSE 0
Commanding(p, op, d) ==
    [cmd |-> Cmd(op), src |-> p, dst |-> d, rcode |-> "OK",
     msg |-> [cmd |-> Cmd(op), src |-> p, n |-> call[p].n + 1, re |-> Answers(p, op, d)]]
Begins(l, p, op, d) ==
    LET f == Local(l, p)
        e == Local(l, p)'
    IN  /\ pc[p] = "user" /\ f.rts = {} /\ op \in DvkAllowed[p] /\ d \in IpcTo[p]
        /\ pc'[p] = "sleep" /\ ret'[p] = ret[p]
        /\ call'[p] = [op |-> op, peer |-> d, n |-> call[p].n + 1]
        /\ e.rts = CallFlags(op) /\ e.sendto = d /\ e.sem = -1 /\ e.rcode = "OK"
        /\ e.rmtcmd = Commanding(p, op, d)
        /\ op = "sendrec" => e.getfrom = d
        /\ op = "reply" => owed[p][d] > 0
        /\ SameImage(l, p) /\ SameTaken(p) /\ NoMore(l, p)

\* ... or a receive, that ends at once, or waits.
Receives(l, p) ==
    /\ pc[p] = "user" /\ pc'[p] = "user"
    /\ call'[p].op = "receive" /\ call'[p].n = call[p].n
    /\ SameLocal(l, p) /\ SameImage(l, p) /\ SameTaken(p) /\ NoMore(l, p)
Awaiting(l, p) ==
    LET d == Local(l, p)
        e == Local(l, p)'
    IN  /\ pc[p] = "user" /\ pc'[p] = "sleep" /\ d.rts = {}
        /\ call'[p].op = "receive" /\ call'[p].n = call[p].n
        /\ e.rts = {"RECEIVING"} /\ e.sem = -1 /\ e.rmtcmd = d.rmtcmd
        /\ SameImage(l, p) /\ SameTaken(p) /\ NoMore(l, p)

\* p gives up its sleep, and its call returns.
GivesUp(l, p) ==
    /\ p \in Impatient /\ pc'[p] = "expired" /\ call'[p] = call[p]
    /\ SameLocal(l, p) /\ SameImage(l, p) /\ SameTaken(p) /\ NoMore(l, p)
Finishes(l, p) ==
    /\ pc[p] # "user" /\ pc'[p] = "user" /\ call'[p] = call[p]
    /\ ret'[p] = IF Fails(p) THEN "error" ELSE "OK"
    /\ call[p].op # "receive" => got'[p] = got[p]
    /\ pc[p] = "sleep" => Local(l, p).rts = {}
    /\ Local(l, p)'.rts = {} /\ Local(l, p)'.rmtcmd = Local(l, p).rmtcmd
    /\ SameImage(l, p) /\ SameTaken(p) /\ NoMore(l, p)

\* A message of another process comes for p, ...
Woken(d, e, rc) ==
    /\ e.rts = {} => e.sem = d.sem + 1 /\ e.rcode = rc
    /\ e.rts # {} => e.sem = d.sem /\ e.rcode = d.rcode
Hears(l, p) ==
    LET h == Header(Back(l))
        d == Local(l, p)
        e == Local(l, p)'
    IN  /\ net[Back(l)] # <<>> /\ net'[Back(l)] = Tail(net[Back(l)])
        /\ h.cmd \in MsgCmds /\ h.dst = p
        /\ Waits(d, h.src) /\ e.rts = d.rts \ {"RECEIVING"} /\ Woken(d, e, "OK")
        /\ e.sendto = d.sendto /\ e.rmtcmd = d.rmtcmd
        /\ got'[p] = h.msg /\ SameThread(p)
        /\ SameImage(l, p) /\ SameTaken(p) /\ NoMore(l, p)

\* ... or the acknowledgement it waits for.
IsTold(l, p) ==
    LET h == Header(Back(l))
        d == Local(l, p)
        e == Local(l, p)'
    IN  /\ net[Back(l)] # <<>> /\ net'[Back(l)] = Tail(net[Back(l)]) /\ h \in Acks(p)
        /\ "SENDING" \in d.rts /\ d.sendto = h.src
        /\ e.rts = d.rts \ {"SENDING"} /\ Woken(d, e, h.rcode)
        /\ e.sendto = NONE /\ e.rmtcmd = d.rmtcmd /\ e.getfrom = d.getfrom
        /\ SameThread(p) /\ got'[p] = got[p]
        /\ SameImage(l, p) /\ SameTaken(p) /\ NoMore(l, p)

\* The sender proxy sends the command of p, or finds that it has left.
Departs(l, p) ==
    LET d == Local(l, p)
        e == Local(l, p)'
        sent == d.rts \ ({"RMTOPER"} \cup
                         IF d.rmtcmd.cmd \in {"SNDREC_MSG", "NTFY_MSG"} THEN {"SENDING"} ELSE {})
    IN  /\ sproxy[l].at = "taken" /\ sproxy[l].xpp = p /\ d.rmtcmd.cmd # "NONE"
        /\ net'[l] = Append(net[l], d.rmtcmd) /\ e.rmtcmd.cmd = "NONE"
        /\ e.rts = sent /\ e.getfrom = d.getfrom
        /\ e.sendto \in {NONE, d.sendto} /\ ("SENDING" \in e.rts => e.sendto = d.sendto)
        /\ IF d.rmtcmd.cmd = "NTFY_MSG" THEN Woken(d, e, "OK")
           ELSE e.sem = d.sem /\ e.rcode = d.rcode
        /\ SameThread(p) /\ got'[p] = got[p]
        /\ SameImage(l, p) /\ SameTaken(p) /\ NoMoreAcks(l, p)
IsReadied(l, p) ==
    LET d == Local(l, p)
        e == Local(l, p)'
    IN  /\ sproxy[l].at = "taken" /\ sproxy[l].xpp = p /\ d.rmtcmd.cmd = "NONE"
        /\ e.rts = {} /\ e.rmtcmd = d.rmtcmd
        /\ SameThread(p) /\ got'[p] = got[p]
        /\ SameImage(l, p) /\ SameTaken(p) /\ NoMore(l, p)

\* A message of p arrives, for a process that waits for it, for one that does
\* not let p in, or for a busy one.
Arriving(l, p) ==
    /\ net[l] # <<>> /\ net'[l] = Tail(net[l]) /\ Header(l) \in Mail(p)
    /\ SameLocal(l, p) /\ SameThread(p) /\ got'[p] = got[p] /\ NoMore(l, p)
Delivered(l, p) ==
    LET h == Header(l)
        d == Image(l, p)
        e == Image(l, p)'
    IN  /\ Arriving(l, p) /\ h \in Letters(p) /\ d.rts \cap {"SENDING", "RMTOPER"} = {}
        /\ e.sendto = d.sendto /\ e.message = d.message
        /\ IF h.cmd = "SNDREC_MSG"
           THEN e.rts = d.rts \cup {"RECEIVING"} /\ e.rmtcmd = d.rmtcmd
           ELSE e.rts = d.rts \cup {"RMTOPER"} /\ e.rmtcmd.rcode = "OK"
                /\ e.rmtcmd.cmd = "SEND_ACK" /\ e.rmtcmd.src = h.dst /\ e.rmtcmd.dst = p
        /\ taken'[h.dst][p] = Append(taken[h.dst][p], h.msg.n)
        /\ \A q \in Procs : q # h.dst => taken'[q][p] = taken[q][p]
        /\ owed'[h.dst][p] = IF h.cmd = "SNDREC_MSG" THEN h.msg.n ELSE owed[h.dst][p]
Refused(l, p) ==
    LET h == Header(l)
        d == Image(l, p)
        e == Image(l, p)'
    IN  /\ Arriving(l, p) /\ h.dst \notin RmtIpcTo[p] /\ SameTaken(p)
        /\ e.sendto = d.sendto /\ e.message = d.message /\ e.rts = d.rts \cup {"RMTOPER"}
        /\ e.rmtcmd.rcode = "error"
        /\ e.rmtcmd.cmd = "SEND_ACK" /\ e.rmtcmd.src = h.dst /\ e.rmtcmd.dst = p
Queues(l, p) ==
    LET h == Header(l)
        d == Image(l, p)
        e == Image(l, p)'
    IN  /\ Arriving(l, p) /\ h \in Letters(p) /\ d.rts \cap {"SENDING", "RMTOPER"} = {}
        /\ ~Waits(desc[l[2]][h.dst], p) /\ SameTaken(p)
        /\ e.rts = d.rts \cup {"SENDING"} \cup (IF h.cmd = "SNDREC_MSG" THEN {"RECEIVING"} ELSE {})
        /\ e.sendto = h.dst /\ e.message = h.msg /\ e.rmtcmd = d.rmtcmd

\* The message that queues for q is taken.
IsTaken(l, p, q) ==
    LET d == Image(l, p)
        e == Image(l, p)'
    IN  /\ "SENDING" \in d.rts /\ d.sendto = q /\ e.message = d.message
        /\ IF "RECEIVING" \in d.rts
           THEN e.rts = d.rts \ {"SENDING"} /\ e.rmtcmd = d.rmtcmd
           ELSE e.rts = (d.rts \cup {"RMTOPER"}) \ {"SENDING"} /\ e.rmtcmd.rcode = "OK"
                /\ e.rmtcmd.cmd = "SEND_ACK" /\ e.rmtcmd.src = q /\ e.rmtcmd.dst = p
        /\ taken'[q][p] = IF d.message.cmd = "NTFY_MSG" THEN taken[q][p]
                          ELSE Append(taken[q][p], d.message.n)
        /\ \A r \in Procs : r # q => taken'[r][p] = taken[r][p]
        /\ owed'[q][p] = IF d.message.cmd = "SNDREC_MSG" THEN d.message.n ELSE owed[q][p]
        /\ SameLocal(l, p) /\ SameThread(p) /\ got'[p] = got[p] /\ NoMore(l, p)

\* The other sender proxy sends an acknowledgement to p, or finds none.
AckDeparts(l, p) ==
    LET d == Image(l, p)
        e == Image(l, p)'
    IN  /\ sproxy[Back(l)].at = "taken" /\ sproxy[Back(l)].xpp = p /\ d.rmtcmd.cmd # "NONE"
        /\ net'[Back(l)] = Append(net[Back(l)], d.rmtcmd) /\ e.rmtcmd.cmd = "NONE"
        /\ e.rts = d.rts \ {"RMTOPER", "SENDING"} /\ e.message = d.message
        /\ SameLocal(l, p) /\ SameThread(p) /\ got'[p] = got[p] /\ SameTaken(p)
        /\ NoMoreMail(l, p)
IsCleared(l, p) ==
    /\ sproxy[Back(l)].at = "taken" /\ sproxy[Back(l)].xpp = p
    /\ Image(l, p).rmtcmd.cmd = "NONE"
    /\ Image(l, p)'.rts = {} /\ Image(l, p)'.rmtcmd = Image(l, p).rmtcmd
    /\ SameLocal(l, p) /\ SameThread(p) /\ got'[p] = got[p] /\ SameTaken(p) /\ NoMore(l, p)

\* q makes the call op of p, and changes the image of p on its own node.
IsCalled(l, p, q, op) ==
    LET d == Image(l, p)
        e == Image(l, p)'
    IN  /\ p \in IpcTo[q] /\ op \in DvkAllowed[q] \cap {"send", "reply", "notify"}
        /\ op = "reply" => owed[q][p] > 0
        /\ e.rts = d.rts \ {"RECEIVING"} /\ e.sendto = d.sendto /\ e.rmtcmd = d.rmtcmd
        /\ IF op = "notify" THEN e.message \in Messages /\ e.message.cmd = "NTFY_MSG"
           ELSE e.message = d.message
        /\ SameLocal(l, p) /\ SameThread(p) /\ got'[p] = got[p] /\ SameTaken(p) /\ NoMore(l, p)

RemoteCalls == {"send", "sendrec", "reply", "notify"}
Shaped(l, p) ==
    \/ Quiet(l, p)
    \/ \E op \in RemoteCalls, d \in Procs : Begins(l, p, op, d)
    \/ Receives(l, p) \/ Awaiting(l, p) \/ GivesUp(l, p) \/ Finishes(l, p)
    \/ Hears(l, p) \/ IsTold(l, p) \/ Departs(l, p) \/ IsReadied(l, p)
    \/ Delivered(l, p) \/ Refused(l, p) \/ Queues(l, p)
    \/ \E q \in Procs : IsTaken(l, p, q)
    \/ AckDeparts(l, p) \/ IsCleared(l, p)
    \/ \E q \in Procs, op \in RemoteCalls : IsCalled(l, p, q, op)

-----------------------------------------------------------------------------
(* Sequences and the network *)

LEMMA ToSetTail ==
    ASSUME NEW S, NEW s \in Seq(S), s # <<>>
    PROVE  /\ ToSet(Tail(s)) \subseteq ToSet(s) /\ Head(s) \in ToSet(s)
           /\ Tail(s) \in Seq(S) /\ Head(s) \in S
BY DEF ToSet

LEMMA ToSetAppend ==
    ASSUME NEW S, NEW s \in Seq(S), NEW c \in S
    PROVE  ToSet(Append(s, c)) = ToSet(s) \cup {c}
<1>1. DOMAIN Append(s, c) = 1 .. Len(s) + 1 /\ DOMAIN s = 1 .. Len(s)
  OBVIOUS
<1>2. \A i \in 1 .. Len(s) : Append(s, c)[i] = s[i]
  OBVIOUS
<1>3. Append(s, c)[Len(s) + 1] = c
  OBVIOUS
<1>4. Len(s) \in Nat
  OBVIOUS
<1>5. ToSet(Append(s, c)) = {Append(s, c)[i] : i \in 1 .. Len(s) + 1}
  BY <1>1 DEF ToSet
<1>6. \A i \in 1 .. Len(s) + 1 : i \in 1 .. Len(s) \/ i = Len(s) + 1
  BY <1>4
<1>7. ToSet(s) = {s[i] : i \in 1 .. Len(s)}
  BY <1>1 DEF ToSet
<1>8. Len(s) + 1 \in 1 .. Len(s) + 1 /\ \A i \in 1 .. Len(s) : i \in 1 .. Len(s) + 1
  BY <1>4
<1>9. QED
  BY <1>2, <1>3, <1>5, <1>6, <1>7, <1>8

LEMMA NetTyped ==
    ASSUME IInv, NEW l \in Links
    PROVE  net[l] \in Seq(Commands) /\ net \in [Links -> Seq(Commands)]
BY DEF IInv, QueuesFit, NetFit

LEMMA SameNet ==
    ASSUME UNCHANGED net, NEW l, NEW p
    PROVE  NoMore(l, p)
BY DEF NoMore, NoMoreMail, NoMoreAcks, MailOf, AcksOf

\* A header leaves the connection of k.
LEMMA ShorterNet ==
    ASSUME IInv, NEW k \in Links, net[k] # <<>>,
           net' = [net EXCEPT ![k] = Tail(@)], NEW l \in Links, NEW p
    PROVE  NoMore(l, p)
<1>1. \A m \in Links : ToSet(net'[m]) \subseteq ToSet(net[m])
  <2> SUFFICES ASSUME NEW m \in Links PROVE ToSet(net'[m]) \subseteq ToSet(net[m])
    OBVIOUS
  <2>1. net[m] \in Seq(Commands) /\ net'[m] = IF m = k THEN Tail(net[m]) ELSE net[m]
    BY NetTyped
  <2>2. QED
    BY <2>1, ToSetTail
<1>2. Back(l) \in Links
  BY LinkFacts
<1>3. QED
  BY <1>1, <1>2 DEF NoMore, NoMoreMail, NoMoreAcks, MailOf, AcksOf

\* The command of y enters the connection of k: for another process nothing is
\* under way that was not before, and for y on one side only.
LEMMA LongerNet ==
    ASSUME IInv, AllLawful, NEW k \in Links, NEW y \in Procs, desc[k[1]][y].rmtcmd.cmd # "NONE",
           net' = [net EXCEPT ![k] = Append(@, desc[k[1]][y].rmtcmd)],
           NEW l \in Links, NEW p \in Procs, Home[p] = l[1]
    PROVE  /\ y # p => NoMore(l, p)
           /\ l # k => NoMoreMail(l, p)
           /\ l = k => NoMoreAcks(l, p)
<1> DEFINE c == desc[k[1]][y].rmtcmd
<1>1. k[1] \in Nodes /\ c \in Commands /\ Labelled(k[1], y)
  BY LinkFacts DEF IInv, DescsFit, Descriptors, AllLawful
<1>2. \A m \in Links : ToSet(net'[m]) \subseteq ToSet(net[m]) \cup (IF m = k THEN {c} ELSE {})
  <2> SUFFICES ASSUME NEW m \in Links
               PROVE  ToSet(net'[m]) \subseteq ToSet(net[m]) \cup (IF m = k THEN {c} ELSE {})
    OBVIOUS
  <2>1. net[m] \in Seq(Commands) /\ net'[m] = IF m = k THEN Append(net[m], c) ELSE net[m]
    BY NetTyped
  <2> HIDE DEF c
  <2>2. QED
    BY <1>1, <2>1, ToSetAppend
<1>3. c \in Mail(p) => p = y
  BY <1>1 DEF Labelled, Mail
<1>4. c \in Acks(p) => p = y /\ Home[p] # k[1]
  BY <1>1 DEF Labelled, Acks
<1> HIDE DEF c
<1>5. Back(l) \in Links /\ Back(l) # l
  BY LinkFacts DEF Back, Links
<1>6. y # p => NoMore(l, p)
  BY <1>2, <1>3, <1>4, <1>5 DEF NoMore, NoMoreMail, NoMoreAcks, MailOf, AcksOf
<1>7. l # k => NoMoreMail(l, p)
  BY <1>2 DEF NoMoreMail, MailOf
<1>8. l = k => NoMoreAcks(l, p)
  BY <1>2, <1>5 DEF NoMoreAcks, AcksOf
<1>9. QED
  BY <1>6, <1>7, <1>8

-----------------------------------------------------------------------------
(* The descriptors a step leaves alone *)

LEMMA OneChanged ==
    ASSUME IInv, NEW n \in Nodes, NEW x \in Procs, NEW A, Change(n, x, A)
    PROVE  /\ desc'[n][x] = A
           /\ \A m \in Nodes, q \in Procs : m # n \/ q # x => desc'[m][q] = desc[m][q]
BY DEF IInv, DescsFit, Change

LEMMA TwoChanged ==
    ASSUME IInv, NEW n \in Nodes, NEW x \in Procs, NEW y \in Procs, x # y,
           NEW A, NEW B, ChangeTwo(n, x, A, y, B)
    PROVE  /\ desc'[n][x] = A /\ desc'[n][y] = B
           /\ \A m \in Nodes, q \in Procs :
                 m # n \/ (q # x /\ q # y) => desc'[m][q] = desc[m][q]
BY DEF IInv, DescsFit, ChangeTwo

LEMMA SameDescs ==
    ASSUME NEW l, NEW p
    PROVE  /\ desc'[l[1]][p] = desc[l[1]][p] => SameLocal(l, p)
           /\ desc'[l[2]][p] = desc[l[2]][p] => SameImage(l, p)
BY DEF SameLocal, SameImage, Local, Image

LEMMA QuietSeen ==
    ASSUME NEW l \in Links, NEW p \in Procs, NoMore(l, p),
           desc'[l[1]][p] = desc[l[1]][p], desc'[l[2]][p] = desc[l[2]][p],
           pc'[p] = pc[p], call'[p] = call[p], ret'[p] = ret[p], got'[p] = got[p],
           \A q \in Procs : taken'[q][p] = taken[q][p]
    PROVE  Shaped(l, p)
BY SameDescs DEF Shaped, Quiet, SameThread, SameTaken

\* The two nodes of a link, and the descriptors on them.
LEMMA EndFacts ==
    ASSUME IInv, NEW l \in Links, NEW p \in Procs, Home[p] = l[1]
    PROVE  /\ l[1] \in Nodes /\ l[2] \in Nodes /\ Home[p] # l[2] /\ l[1] # l[2]
           /\ Back(l) \in Links /\ Back(l)[1] = l[2] /\ Back(l)[2] = l[1] /\ Back(Back(l)) = l
           /\ desc[l[1]][p] \in Descriptors /\ desc[l[2]][p] \in Descriptors
           /\ Sound(desc[l[1]][p], l[1]) /\ Sound(desc[l[2]][p], l[2])
           /\ Mine(p) = desc[l[1]][p]
           /\ \A k \in Links : k = l \/ k = Back(l)
           /\ \A k \in Links : k[1] = l[1] <=> k = l
           /\ \A k \in Links : k[1] = l[2] <=> k = Back(l)
<1>1. l[1] \in Nodes /\ l[2] \in Nodes /\ l[1] # l[2] /\ Back(l) \in Links
  BY LinkFacts
<1>2. Back(l)[1] = l[2] /\ Back(l)[2] = l[1] /\ l = <<l[1], l[2]>>
  BY DEF Back, Links
<1>3. Back(Back(l)) = l
  BY <1>2 DEF Back
<1>4. \A k \in Links : k = <<k[1], k[2]>> /\ k[1] \in Nodes /\ k[2] \in Nodes /\ k[1] # k[2]
  BY DEF Links
<1>5. \A n \in Nodes : n = l[1] \/ n = l[2]
  BY LinkFacts
<1>6. \A k \in Links : k = l \/ k = Back(l)
  BY <1>2, <1>4, <1>5 DEF Back
<1>7. desc[l[1]][p] \in Descriptors /\ desc[l[2]][p] \in Descriptors
      /\ Sound(desc[l[1]][p], l[1]) /\ Sound(desc[l[2]][p], l[2])
  BY <1>1 DEF IInv, DescsFit
<1>8. QED
  BY <1>1, <1>2, <1>3, <1>6, <1>7 DEF Mine

-----------------------------------------------------------------------------
(* What the operations do to the fields of a descriptor *)

LEMMA EndSendFields ==
    ASSUME NEW d \in Descriptors
    PROVE  LET e == EndSend(d)
           IN  /\ e \in Descriptors
               /\ e.rts = d.rts \ {"SENDING"} /\ e.sendto = NONE /\ e.getfrom = d.getfrom
               /\ e.sem = d.sem /\ e.rcode = d.rcode /\ e.rmtcmd = d.rmtcmd
               /\ e.message = d.message
BY DEF EndSend, Descriptors

LEMMA EndReceiveFields ==
    ASSUME NEW d \in Descriptors
    PROVE  LET e == EndReceive(d)
           IN  /\ e \in Descriptors
               /\ e.rts = d.rts \ {"RECEIVING"} /\ e.sendto = d.sendto
               /\ e.sem = d.sem /\ e.rcode = d.rcode /\ e.rmtcmd = d.rmtcmd
               /\ e.message = d.message
BY DEF EndReceive, Descriptors

LEMMA WakeFields ==
    ASSUME NEW d \in Descriptors, NEW rc \in {"OK", "error"}
    PROVE  LET e == Wake(d, rc)
           IN  /\ e.rts = d.rts /\ e.sendto = d.sendto /\ e.getfrom = d.getfrom
               /\ e.rmtcmd = d.rmtcmd /\ e.message = d.message /\ Woken(d, e, rc)
<1> DEFINE up == d.sem + 1
<1>1. CASE d.rts = {}
  <2>1. Wake(d, rc) = [d EXCEPT !.rcode = rc, !.sem = up]
    BY <1>1 DEF Wake
  <2> HIDE DEF up
  <2>2. /\ Wake(d, rc).rts = d.rts /\ Wake(d, rc).sem = up /\ Wake(d, rc).rcode = rc
        /\ Wake(d, rc).sendto = d.sendto /\ Wake(d, rc).getfrom = d.getfrom
        /\ Wake(d, rc).rmtcmd = d.rmtcmd /\ Wake(d, rc).message = d.message
    BY <2>1 DEF Descriptors
  <2>3. QED
    BY <1>1, <2>2 DEF Woken, up
<1>2. CASE d.rts # {}
  BY <1>2 DEF Wake, Woken
<1>3. QED
  BY <1>1, <1>2

LEMMA AcknowledgingFields ==
    ASSUME NEW d \in Descriptors, NEW q, NEW r, NEW rc
    PROVE  LET e == Acknowledging(d, q, r, rc)
           IN  /\ e.rts = d.rts \cup {"RMTOPER"} /\ e.sendto = d.sendto /\ e.message = d.message
               /\ e.rmtcmd = [cmd |-> "SEND_ACK", src |-> q, dst |-> r, rcode |-> rc, msg |-> NONE]
<1> DEFINE c == [cmd |-> "SEND_ACK", src |-> q, dst |-> r, rcode |-> rc, msg |-> NONE]
           flags == d.rts \cup {"RMTOPER"}
<1>1. Acknowledging(d, q, r, rc) = [d EXCEPT !.rts = flags, !.rmtcmd = c]
  BY DEF Acknowledging, Descriptors
<1> HIDE DEF c, flags
<1>2. /\ [d EXCEPT !.rts = flags, !.rmtcmd = c].rts = flags
      /\ [d EXCEPT !.rts = flags, !.rmtcmd = c].rmtcmd = c
      /\ [d EXCEPT !.rts = flags, !.rmtcmd = c].sendto = d.sendto
      /\ [d EXCEPT !.rts = flags, !.rmtcmd = c].message = d.message
  BY DEF Descriptors
<1>3. QED
  BY <1>1, <1>2 DEF c, flags

LEMMA PeerImageFields ==
    ASSUME NEW d \in Descriptors, NEW op, NEW p, NEW m
    PROVE  LET e == PeerImage(d, op, p, m)
           IN  /\ op = "sendrec" => e = d
               /\ op # "sendrec" => e.rts = d.rts \ {"RECEIVING"}
               /\ e.sendto = d.sendto /\ e.rmtcmd = d.rmtcmd
               /\ e.message = IF op = "notify" THEN m ELSE d.message
BY DEF PeerImage, Descriptors

-----------------------------------------------------------------------------
(* The shapes of the steps of a thread *)

LEMMA CmdFacts ==
    /\ CallOf[Cmd("send")] = "send" /\ CallOf[Cmd("sendrec")] = "sendrec"
    /\ CallOf[Cmd("reply")] = "reply" /\ CallOf[Cmd("notify")] = "notify"
    /\ \A op \in RemoteCalls : Cmd(op) \in MsgCmds /\ CallOf[Cmd(op)] = op
    /\ \A op \in RemoteCalls : Cmd(op) = "NTFY_MSG" <=> op = "notify"
    /\ \A op \in RemoteCalls : Cmd(op) = "SNDREC_MSG" <=> op = "sendrec"
    /\ \A op \in RemoteCalls : Cmd(op) = "REPLY_MSG" <=> op = "reply"
BY DEF Cmd, CallOf, MsgCmds, RemoteCalls

\* What a call to a remote process does.
LEMMA RemoteEffect ==
    ASSUME IInv, NEW p \in Procs, NEW d \in Procs, NEW op \in RemoteCalls,
           Remote(p, op, d, Cmd(op), Answers(p, op, d))
    PROVE  LET here == Home[p]
               e == desc'[here][p]
               i == desc'[here][d]
           IN  /\ here \in Nodes /\ Home[d] # here /\ p # d /\ d \in IpcTo[p]
               /\ op \in DvkAllowed[p] /\ pc[p] = "user" /\ Mine(p).rts = {}
               /\ e.rts = CallFlags(op) /\ e.sendto = d /\ e.sem = -1 /\ e.rcode = "OK"
               /\ e.rmtcmd = Commanding(p, op, d) /\ e.getfrom \in {d, Mine(p).getfrom}
               /\ op = "sendrec" => e.getfrom = d
               /\ op = "sendrec" => i = desc[here][d]
               /\ op # "sendrec" => i.rts = desc[here][d].rts \ {"RECEIVING"}
               /\ i.sendto = desc[here][d].sendto /\ i.rmtcmd = desc[here][d].rmtcmd
               /\ i.message = IF op = "notify" THEN Commanding(p, op, d).msg
                              ELSE desc[here][d].message
               /\ \A m \in Nodes, q \in Procs :
                     m # here \/ (q # p /\ q # d) => desc'[m][q] = desc[m][q]
<1> DEFINE here == Home[p]
           c == Commanding(p, op, d)
           g == IF op = "sendrec" THEN d ELSE Mine(p).getfrom
           e == [Mine(p) EXCEPT !.rts = CallFlags(op), !.sendto = d,
                                !.getfrom = g, !.rmtcmd = c]
           A == Down(e)
           B == PeerImage(desc[here][d], op, p, c.msg)
<1>1. /\ here \in Nodes /\ Home[d] # here /\ p # d /\ d \in IpcTo[p]
      /\ op \in DvkAllowed[p] /\ pc[p] = "user" /\ Mine(p).rts = {}
  BY HomeAssumption, PrivAssumption DEF Remote, Enter
<1>2. ChangeTwo(here, p, A, d, B)
  BY DEF Remote, ChangeTwo, Commanding
<1>3. Mine(p) \in Descriptors /\ desc[here][d] \in Descriptors
  BY <1>1, MineFacts DEF IInv, DescsFit
<1>4. B.sendto = desc[here][d].sendto /\ B.rmtcmd = desc[here][d].rmtcmd
      /\ (op = "sendrec" => B = desc[here][d])
      /\ (op # "sendrec" => B.rts = desc[here][d].rts \ {"RECEIVING"})
      /\ B.message = IF op = "notify" THEN c.msg ELSE desc[here][d].message
  BY <1>3, PeerImageFields
<1> HIDE DEF c, g, B
<1>5. /\ A.rts = CallFlags(op) /\ A.sendto = d /\ A.sem = -1 /\ A.rcode = "OK"
      /\ A.rmtcmd = c /\ A.getfrom = g
  BY <1>3 DEF Down, Descriptors
<1> HIDE DEF A
<1>6. /\ desc'[here][p] = A /\ desc'[here][d] = B
      /\ \A m \in Nodes, q \in Procs :
            m # here \/ (q # p /\ q # d) => desc'[m][q] = desc[m][q]
  BY <1>1, <1>2, TwoChanged
<1>7. g \in {d, Mine(p).getfrom} /\ (op = "sendrec" => g = d)
  BY DEF g
<1>8. QED
  BY <1>1, <1>4, <1>5, <1>6, <1>7 DEF c

LEMMA RemoteSeen ==
    ASSUME IInv, NEW p \in Procs, NEW d \in Procs, NEW op \in RemoteCalls,
           Remote(p, op, d, Cmd(op), Answers(p, op, d)), op = "reply" => owed[p][d] > 0,
           NEW l \in Links, NEW x \in Procs, Home[x] = l[1]
    PROVE  Shaped(l, x)
<1> DEFINE here == Home[p]
           c == Commanding(p, op, d)
<1>1. /\ here \in Nodes /\ Home[d] # here /\ p # d /\ d \in IpcTo[p]
      /\ op \in DvkAllowed[p] /\ pc[p] = "user" /\ Mine(p).rts = {}
  BY RemoteEffect
<1>2. LET e == desc'[here][p]
      IN  /\ e.rts = CallFlags(op) /\ e.sendto = d /\ e.sem = -1 /\ e.rcode = "OK"
          /\ e.rmtcmd = c /\ (op = "sendrec" => e.getfrom = d)
  BY RemoteEffect
<1>3. LET i == desc'[here][d]
      IN  /\ op = "sendrec" => i = desc[here][d]
          /\ op # "sendrec" => i.rts = desc[here][d].rts \ {"RECEIVING"}
          /\ i.sendto = desc[here][d].sendto /\ i.rmtcmd = desc[here][d].rmtcmd
          /\ i.message = IF op = "notify" THEN c.msg ELSE desc[here][d].message
  BY RemoteEffect
<1>4. \A m \in Nodes, q \in Procs :
            m # here \/ (q # p /\ q # d) => desc'[m][q] = desc[m][q]
  BY RemoteEffect
<1>5. /\ pc' = [pc EXCEPT ![p] = "sleep"] /\ UNCHANGED <<net, ret, taken>>
      /\ call' = [call EXCEPT ![p] = [op |-> op, peer |-> d, n |-> call[p].n + 1]]
      /\ got' = [got EXCEPT ![p] = NONE]
  BY DEF Remote, wires
<1>6. /\ pc'[p] = "sleep" /\ call'[p] = [op |-> op, peer |-> d, n |-> call[p].n + 1]
      /\ \A q \in Procs : q # p => pc'[q] = pc[q] /\ call'[q] = call[q] /\ got'[q] = got[q]
  BY <1>5 DEF IInv, DescsFit, RestTyped
<1>7. NoMore(l, x) /\ SameTaken(x) /\ ret'[x] = ret[x]
  BY <1>5, SameNet DEF SameTaken
<1>8. c.msg \in Messages /\ c.msg.cmd = Cmd(op)
  <2>1. call[p].n + 1 \in Nat /\ Answers(p, op, d) \in Nat
    <3>1. DescsFit /\ owed[p][d] \in Nat
      BY DEF IInv, RestTyped
    <3>2. call[p].n \in Nat
      BY <3>1, MineFacts
    <3>3. QED
      BY <3>1, <3>2 DEF Answers
  <2>2. QED
    BY <2>1, CmdFacts DEF Commanding, Messages
<1> HIDE DEF c, here
<1>9. l[1] \in Nodes /\ l[2] \in Nodes /\ l[1] # l[2] /\ Home[x] # l[2]
      /\ (\A n \in Nodes : n = l[1] \/ n = l[2]) /\ (x = p => Mine(p) = desc[l[1]][p])
  BY EndFacts, LinkFacts
<1>10. CASE x = p
  <2>1. l[1] = here /\ desc'[l[2]][x] = desc[l[2]][x]
    BY <1>1, <1>4, <1>9, <1>10 DEF here
  <2>2. Begins(l, x, op, d)
    BY <1>1, <1>2, <1>6, <1>7, <1>9, <1>10, <2>1, SameDescs DEF Begins, Local, c
  <2>3. QED
    BY <2>2 DEF Shaped
<1>11. CASE x = d
  <2>1. l[2] = here /\ desc'[l[1]][x] = desc[l[1]][x] /\ x # p
    BY <1>1, <1>4, <1>9, <1>11 DEF here
  <2>2. SameLocal(l, x) /\ SameThread(x) /\ got'[x] = got[x]
    BY <1>6, <1>7, <2>1, SameDescs DEF SameThread
  <2>3. CASE op = "sendrec"
    BY <1>3, <1>6, <1>7, <1>11, <2>1, <2>3, QuietSeen DEF SameTaken
  <2>4. CASE op # "sendrec"
    <3>1. op \in DvkAllowed[p] \cap {"send", "reply", "notify"}
      BY <1>1, <2>4 DEF RemoteCalls
    <3>2. op = "notify" => c.msg.cmd = "NTFY_MSG"
      BY <1>8, CmdFacts
    <3>3. IsCalled(l, x, p, op)
      BY <1>1, <1>3, <1>7, <1>8, <1>11, <2>1, <2>2, <2>4, <3>1, <3>2
         DEF IsCalled, Image
    <3>4. QED
      BY <3>3 DEF Shaped
  <2>5. QED
    BY <2>3, <2>4
<1>12. CASE x # p /\ x # d
  BY <1>4, <1>6, <1>7, <1>9, <1>12, QuietSeen DEF SameTaken
<1>13. QED
  BY <1>10, <1>11, <1>12

LEMMA CallDoneEffect ==
    ASSUME IInv, NEW p \in Procs, CallDone(p)
    PROVE  /\ pc[p] # "user" /\ (pc[p] = "sleep" => Mine(p).rts = {})
           /\ Mine(p).rts # {} => Fails(p)
           /\ desc'[Home[p]][p].rts = {} /\ desc'[Home[p]][p].rmtcmd = Mine(p).rmtcmd
           /\ \A m \in Nodes, q \in Procs : m # Home[p] \/ q # p => desc'[m][q] = desc[m][q]
<1>1. Leaves(p) /\ call[p].op # "receive"
  BY DEF CallDone
<1>4. Mine(p) \in Descriptors /\ Home[p] \in Nodes /\ Fits(Mine(p), pc[p], call[p].op)
  BY MineFacts DEF IInv
<1>5. pc[p] # "user" /\ (pc[p] = "sleep" => Mine(p).rts = {})
  BY <1>1, <1>4 DEF Leaves, Fits
<1>6. /\ desc'[Home[p]][p].rts = {} /\ desc'[Home[p]][p].rmtcmd = Mine(p).rmtcmd
      /\ \A m \in Nodes, q \in Procs : m # Home[p] \/ q # p => desc'[m][q] = desc[m][q]
  <2>1. CASE Fails(p)
    <3> DEFINE g == IF call[p].op = "sendrec" THEN NONE ELSE Mine(p).getfrom
               e == [Mine(p) EXCEPT !.rts = @ \ CallFlags(call[p].op), !.sendto = NONE,
                                    !.rcode = "error", !.getfrom = g]
    <3>1. Change(Home[p], p, Up(e))
      <4>1. desc' = [desc EXCEPT ![Home[p]][p] = Up([Mine(p) EXCEPT
                        !.rts = @ \ CallFlags(call[p].op), !.sendto = NONE, !.rcode = "error",
                        !.getfrom = IF call[p].op = "sendrec" THEN NONE ELSE @])]
        BY <2>1 DEF CallDone
      <4>2. QED
        BY <4>1 DEF Change
    <3> HIDE DEF g
    <3>2. e.rts = Mine(p).rts \ CallFlags(call[p].op) /\ e.rmtcmd = Mine(p).rmtcmd
          /\ Up(e).rts = e.rts /\ Up(e).rmtcmd = e.rmtcmd
      BY <1>4 DEF Descriptors, Up
    <3> HIDE DEF e
    <3>3. Up(e).rts = {}
      BY <1>1, <1>4, <1>5, <3>2 DEF Fits, Waiting
    <3>4. QED
      BY <1>4, <3>1, <3>2, <3>3, OneChanged
  <2>2. CASE ~Fails(p)
    <3>1. UNCHANGED desc
      BY <2>2 DEF CallDone
    <3>2. Mine(p).rts = {}
      BY <1>1, <2>2, FailsFits DEF IInv
    <3>3. QED
      BY <3>1, <3>2 DEF Mine
  <2>3. QED
    BY <2>1, <2>2
<1>7. Mine(p).rts # {} => Fails(p)
  BY <1>1, FailsFits DEF IInv
<1>8. QED
  BY <1>5, <1>6, <1>7

LEMMA CallDoneSeen ==
    ASSUME IInv, NEW p \in Procs, CallDone(p),
           NEW l \in Links, NEW x \in Procs, Home[x] = l[1]
    PROVE  Shaped(l, x)
<1>1. /\ pc' = [pc EXCEPT ![p] = "user"] /\ UNCHANGED <<call, got, net, taken>>
      /\ ret' = [ret EXCEPT ![p] = IF Fails(p) THEN "error" ELSE "OK"]
      /\ Leaves(p) /\ call[p].op # "receive"
  BY DEF CallDone, Returns, wires
<1>2. /\ pc'[p] = "user" /\ ret'[p] = (IF Fails(p) THEN "error" ELSE "OK")
      /\ \A q \in Procs : q # p => pc'[q] = pc[q] /\ ret'[q] = ret[q]
  BY <1>1 DEF IInv, DescsFit, RestTyped
<1>3. NoMore(l, x) /\ SameTaken(x)
  BY <1>1, SameNet DEF SameTaken
<1>6. /\ desc'[Home[p]][p].rts = {} /\ desc'[Home[p]][p].rmtcmd = Mine(p).rmtcmd
      /\ \A m \in Nodes, q \in Procs : m # Home[p] \/ q # p => desc'[m][q] = desc[m][q]
      /\ pc[p] # "user" /\ (pc[p] = "sleep" => Mine(p).rts = {})
  BY CallDoneEffect
<1>7. /\ l[1] \in Nodes /\ l[2] \in Nodes /\ Home[x] # l[2] /\ l[1] # l[2]
      /\ Mine(x) = desc[l[1]][x]
  BY EndFacts
<1>8. CASE x = p
  <2>1. SameImage(l, x)
    BY <1>6, <1>7, <1>8, SameDescs
  <2>2. Finishes(l, x)
    BY <1>1, <1>2, <1>3, <1>6, <1>7, <1>8, <2>1 DEF Finishes, Local
  <2>3. QED
    BY <2>2 DEF Shaped
<1>9. CASE x # p
  BY <1>1, <1>2, <1>3, <1>6, <1>7, <1>9, QuietSeen DEF SameTaken
<1>10. QED
  BY <1>8, <1>9

LEMMA ExpireSeen ==
    ASSUME IInv, NEW p \in Procs, Expire(p),
           NEW l \in Links, NEW x \in Procs, Home[x] = l[1]
    PROVE  Shaped(l, x)
<1>1. /\ pc' = [pc EXCEPT ![p] = "expired"] /\ p \in Impatient
      /\ UNCHANGED <<desc, net, call, ret, got, taken>>
  BY DEF Expire, wires
<1>2. pc'[p] = "expired" /\ \A q \in Procs : q # p => pc'[q] = pc[q]
  BY <1>1 DEF IInv, DescsFit
<1>3. NoMore(l, x) /\ SameTaken(x) /\ SameLocal(l, x) /\ SameImage(l, x)
  BY <1>1, SameNet, SameDescs DEF SameTaken
<1>4. CASE x = p
  BY <1>1, <1>2, <1>3, <1>4 DEF Shaped, GivesUp
<1>5. CASE x # p
  BY <1>1, <1>2, <1>3, <1>5 DEF Shaped, Quiet, SameThread
<1>6. QED
  BY <1>4, <1>5

LEMMA ReceiveNotifyEffect ==
    ASSUME IInv, NEW p \in Procs, NEW s \in Sources[p], ReceiveNotify(p, s)
    PROVE  LET d == Mine(p)
               e == desc'[Home[p]][p]
           IN  /\ e.rts = d.rts /\ e.getfrom = d.getfrom /\ e.sendto = d.sendto
               /\ e.sem = d.sem /\ e.rcode = d.rcode /\ e.rmtcmd = d.rmtcmd
               /\ \A n \in Nodes, q \in Procs : n # Home[p] \/ q # p => desc'[n][q] = desc[n][q]
               /\ \A q, r \in Procs : taken'[q][r] = taken[q][r]
               /\ \A q \in Procs : q # p => got'[q] = got[q]
<1>1. PICK i \in Mine(p).pending :
        /\ desc' = [desc EXCEPT ![Home[p]][p].pending = @ \ {i},
                                ![Home[p]][p].message =
                                    [cmd |-> "NTFY_MSG", src |-> i, n |-> 0, re |-> 0]]
        /\ Deliver(p, [cmd |-> "NTFY_MSG", src |-> i, n |-> 0, re |-> 0])
  BY DEF ReceiveNotify
<1> DEFINE m == [cmd |-> "NTFY_MSG", src |-> i, n |-> 0, re |-> 0]
           A == [Mine(p) EXCEPT !.pending = @ \ {i}, !.message = m]
<1>2. Mine(p) \in Descriptors /\ Home[p] \in Nodes /\ i \in Procs
  BY MineFacts, MineTyped DEF IInv
<1>3. Change(Home[p], p, A)
  BY <1>1, HomeAssumption DEF Change, Mine, IInv, DescsFit
<1>4. /\ got' = [got EXCEPT ![p] = m]
      /\ taken' = [taken EXCEPT ![p][i] = @]
  BY <1>1 DEF Deliver
<1>5. \A q, r \in Procs : taken'[q][r] = taken[q][r]
  BY <1>2, <1>4 DEF IInv, RestTyped
<1> HIDE DEF m
<1>6. /\ A.rts = Mine(p).rts /\ A.getfrom = Mine(p).getfrom /\ A.sendto = Mine(p).sendto
      /\ A.sem = Mine(p).sem /\ A.rcode = Mine(p).rcode /\ A.rmtcmd = Mine(p).rmtcmd
  BY <1>2 DEF Descriptors
<1> HIDE DEF A
<1>7. /\ desc'[Home[p]][p] = A
      /\ \A n \in Nodes, q \in Procs : n # Home[p] \/ q # p => desc'[n][q] = desc[n][q]
  BY <1>2, <1>3, OneChanged
<1>8. \A q \in Procs : q # p => got'[q] = got[q]
  BY <1>4 DEF IInv, RestTyped
<1>9. QED
  BY <1>5, <1>6, <1>7, <1>8

LEMMA ReceiveNotifySeen ==
    ASSUME IInv, NEW p \in Procs, NEW s \in Sources[p], ReceiveNotify(p, s),
           NEW l \in Links, NEW x \in Procs, Home[x] = l[1]
    PROVE  Shaped(l, x)
<1>1. LET d == Mine(p)
          e == desc'[Home[p]][p]
      IN  /\ e.rts = d.rts /\ e.getfrom = d.getfrom /\ e.sendto = d.sendto
          /\ e.sem = d.sem /\ e.rcode = d.rcode /\ e.rmtcmd = d.rmtcmd
          /\ \A n \in Nodes, q \in Procs : n # Home[p] \/ q # p => desc'[n][q] = desc[n][q]
          /\ \A q, r \in Procs : taken'[q][r] = taken[q][r]
          /\ \A q \in Procs : q # p => got'[q] = got[q]
  BY ReceiveNotifyEffect
<1>8. /\ pc' = [pc EXCEPT ![p] = "user"] /\ ret' = [ret EXCEPT ![p] = "OK"]
      /\ UNCHANGED net /\ EnterReceive(p, s)
  BY DEF ReceiveNotify, Returns, wires
<1>9. /\ pc'[p] = "user" /\ pc[p] = "user" /\ call'[p].op = "receive" /\ call'[p].n = call[p].n
      /\ \A q \in Procs : q # p => pc'[q] = pc[q] /\ call'[q] = call[q] /\ ret'[q] = ret[q]
                                   /\ got'[q] = got[q]
  BY <1>1, <1>8 DEF IInv, DescsFit, RestTyped, EnterReceive, Enter
<1>10. NoMore(l, x) /\ SameTaken(x)
  BY <1>1, <1>8, SameNet DEF SameTaken
<1>11. /\ l[1] \in Nodes /\ l[2] \in Nodes /\ Home[x] # l[2] /\ l[1] # l[2]
       /\ Mine(x) = desc[l[1]][x]
  BY EndFacts
<1>12. CASE x = p
  <2>1. SameLocal(l, x) /\ SameImage(l, x)
    BY <1>1, <1>11, <1>12, SameDescs DEF SameLocal, Local
  <2>2. QED
    BY <1>9, <1>10, <1>12, <2>1 DEF Shaped, Receives
<1>13. CASE x # p
  BY <1>1, <1>9, <1>10, <1>11, <1>13, QuietSeen
<1>14. QED
  BY <1>12, <1>13

LEMMA ReceiveBlockEffect ==
    ASSUME IInv, NEW p \in Procs, NEW s \in Sources[p], ReceiveBlock(p, s)
    PROVE  LET e == desc'[Home[p]][p]
           IN  /\ e.rts = {"RECEIVING"} /\ e.sem = -1 /\ e.rmtcmd = Mine(p).rmtcmd
               /\ \A n \in Nodes, q \in Procs : n # Home[p] \/ q # p => desc'[n][q] = desc[n][q]
<1> DEFINE e == [Mine(p) EXCEPT !.rts = {"RECEIVING"}, !.getfrom = s, !.notify = FALSE]
<1>1. Change(Home[p], p, Down(e))
  BY HomeAssumption DEF ReceiveBlock, Change, Mine, IInv, DescsFit
<1>2. Mine(p) \in Descriptors /\ Home[p] \in Nodes
  BY MineFacts DEF IInv
<1>3. /\ Down(e).rts = {"RECEIVING"} /\ Down(e).sem = -1 /\ Down(e).rmtcmd = Mine(p).rmtcmd
  BY <1>2 DEF Descriptors, Down
<1> HIDE DEF e
<1>4. /\ desc'[Home[p]][p] = Down(e)
      /\ \A n \in Nodes, q \in Procs : n # Home[p] \/ q # p => desc'[n][q] = desc[n][q]
  BY <1>1, <1>2, OneChanged
<1>5. QED
  BY <1>3, <1>4

LEMMA ReceiveBlockSeen ==
    ASSUME IInv, NEW p \in Procs, NEW s \in Sources[p], ReceiveBlock(p, s),
           NEW l \in Links, NEW x \in Procs, Home[x] = l[1]
    PROVE  Shaped(l, x)
<1>1. LET e == desc'[Home[p]][p]
      IN  /\ e.rts = {"RECEIVING"} /\ e.sem = -1 /\ e.rmtcmd = Mine(p).rmtcmd
          /\ \A n \in Nodes, q \in Procs : n # Home[p] \/ q # p => desc'[n][q] = desc[n][q]
  BY ReceiveBlockEffect
<1>5. /\ pc' = [pc EXCEPT ![p] = "sleep"] /\ got' = [got EXCEPT ![p] = NONE]
      /\ UNCHANGED <<net, ret, taken>> /\ EnterReceive(p, s)
  BY DEF ReceiveBlock, wires
<1>6. /\ pc'[p] = "sleep" /\ pc[p] = "user" /\ Mine(p).rts = {}
      /\ call'[p].op = "receive" /\ call'[p].n = call[p].n
      /\ \A q \in Procs : q # p => pc'[q] = pc[q] /\ call'[q] = call[q] /\ got'[q] = got[q]
  BY <1>5 DEF IInv, DescsFit, RestTyped, EnterReceive, Enter
<1>7. NoMore(l, x) /\ SameTaken(x)
  BY <1>5, SameNet DEF SameTaken
<1>8. /\ l[1] \in Nodes /\ l[2] \in Nodes /\ Home[x] # l[2] /\ l[1] # l[2]
      /\ Mine(x) = desc[l[1]][x]
  BY EndFacts
<1>9. CASE x = p
  <2>1. SameImage(l, x)
    BY <1>1, <1>8, <1>9, SameDescs
  <2>2. Awaiting(l, x)
    BY <1>1, <1>6, <1>7, <1>8, <1>9, <2>1 DEF Awaiting, Local
  <2>3. QED
    BY <2>2 DEF Shaped
<1>10. CASE x # p
  BY <1>1, <1>5, <1>6, <1>7, <1>8, <1>10, QuietSeen DEF SameTaken
<1>11. QED
  BY <1>9, <1>10

LEMMA ReceiveDoneEffect ==
    ASSUME IInv, NEW p \in Procs, ReceiveDone(p)
    PROVE  /\ pc[p] # "user" /\ (pc[p] = "sleep" => Mine(p).rts = {})
           /\ Mine(p).rts \subseteq {"RECEIVING"}
           /\ desc'[Home[p]][p].rts = {} /\ desc'[Home[p]][p].rmtcmd = Mine(p).rmtcmd
           /\ \A n \in Nodes, q \in Procs : n # Home[p] \/ q # p => desc'[n][q] = desc[n][q]
<1> DEFINE d == [Mine(p) EXCEPT !.notify = FALSE]
           e == [d EXCEPT !.rcode = "error"]
           A == IF Fails(p) THEN Up(EndReceive(e)) ELSE d
<1>1. Change(Home[p], p, A)
  BY HomeAssumption DEF ReceiveDone, Change, Mine, IInv, DescsFit
<1>2. Leaves(p) /\ call[p].op = "receive"
  BY DEF ReceiveDone
<1>3. Mine(p) \in Descriptors /\ Home[p] \in Nodes /\ Fits(Mine(p), pc[p], call[p].op)
  BY MineFacts DEF IInv
<1>4. pc[p] # "user" /\ (pc[p] = "sleep" => Mine(p).rts = {}) /\ Mine(p).rts \subseteq {"RECEIVING"}
  BY <1>2, <1>3 DEF Leaves, Fits, Waiting
<1>5. ~Fails(p) => Mine(p).rts = {}
  BY <1>2, FailsFits DEF IInv
<1>6. A.rts = {} /\ A.rmtcmd = Mine(p).rmtcmd
  <2>1. d \in Descriptors /\ d.rts = Mine(p).rts /\ d.rmtcmd = Mine(p).rmtcmd
    BY <1>3 DEF Descriptors
  <2> HIDE DEF d
  <2>2. e \in Descriptors /\ e.rts = Mine(p).rts /\ e.rmtcmd = Mine(p).rmtcmd
    BY <2>1 DEF Descriptors
  <2> HIDE DEF e
  <2>3. /\ EndReceive(e) \in Descriptors /\ EndReceive(e).rts = e.rts \ {"RECEIVING"}
        /\ EndReceive(e).rmtcmd = e.rmtcmd
    BY <2>2, EndReceiveFields
  <2>4. \A f \in Descriptors : Up(f).rts = f.rts /\ Up(f).rmtcmd = f.rmtcmd
    BY DEF Up, Descriptors
  <2>5. QED
    BY <1>4, <1>5, <2>1, <2>2, <2>3, <2>4
<1> HIDE DEF A
<1>7. /\ desc'[Home[p]][p] = A
      /\ \A n \in Nodes, q \in Procs : n # Home[p] \/ q # p => desc'[n][q] = desc[n][q]
  BY <1>1, <1>3, OneChanged
<1>8. QED
  BY <1>4, <1>6, <1>7

LEMMA ReceiveDoneSeen ==
    ASSUME IInv, NEW p \in Procs, ReceiveDone(p),
           NEW l \in Links, NEW x \in Procs, Home[x] = l[1]
    PROVE  Shaped(l, x)
<1>2. /\ pc' = [pc EXCEPT ![p] = "user"] /\ UNCHANGED <<call, net, taken>>
      /\ ret' = [ret EXCEPT ![p] = IF Fails(p) THEN "error" ELSE "OK"]
      /\ got' = [got EXCEPT ![p] = IF ~Fails(p) /\ Mine(p).notify THEN Mine(p).message ELSE @]
      /\ Leaves(p) /\ call[p].op = "receive"
  BY DEF ReceiveDone, Returns, wires
<1>7. /\ pc[p] # "user" /\ (pc[p] = "sleep" => Mine(p).rts = {})
      /\ desc'[Home[p]][p].rts = {} /\ desc'[Home[p]][p].rmtcmd = Mine(p).rmtcmd
      /\ \A n \in Nodes, q \in Procs : n # Home[p] \/ q # p => desc'[n][q] = desc[n][q]
  BY ReceiveDoneEffect
<1>8. /\ pc'[p] = "user" /\ ret'[p] = (IF Fails(p) THEN "error" ELSE "OK")
      /\ \A q \in Procs : q # p => pc'[q] = pc[q] /\ ret'[q] = ret[q] /\ got'[q] = got[q]
  BY <1>2 DEF IInv, DescsFit, RestTyped
<1>9. NoMore(l, x) /\ SameTaken(x)
  BY <1>2, SameNet DEF SameTaken
<1>10. /\ l[1] \in Nodes /\ l[2] \in Nodes /\ Home[x] # l[2] /\ l[1] # l[2]
       /\ Mine(x) = desc[l[1]][x]
  BY EndFacts
<1>11. CASE x = p
  <2>1. SameImage(l, x)
    BY <1>7, <1>10, <1>11, SameDescs
  <2>2. Finishes(l, x)
    BY <1>2, <1>7, <1>8, <1>9, <1>10, <1>11, <2>1 DEF Finishes, Local
  <2>3. QED
    BY <2>2 DEF Shaped
<1>12. CASE x # p
  BY <1>2, <1>7, <1>8, <1>9, <1>10, <1>12, QuietSeen DEF SameTaken
<1>13. QED
  BY <1>11, <1>12

\* p takes the message of the image of y, which is queued for it.
Unqueues(p, y) ==
    LET d == desc[Home[p]][y]
        e == desc'[Home[p]][y]
    IN  /\ Home[y] # Home[p] /\ y \in ToSet(inq[p])
        /\ "SENDING" \in d.rts /\ d.sendto = p /\ e.message = d.message
        /\ IF "RECEIVING" \in d.rts
           THEN e.rts = d.rts \ {"SENDING"} /\ e.rmtcmd = d.rmtcmd
           ELSE e.rts = (d.rts \cup {"RMTOPER"}) \ {"SENDING"} /\ e.rmtcmd.rcode = "OK"
                /\ e.rmtcmd.cmd = "SEND_ACK" /\ e.rmtcmd.src = p /\ e.rmtcmd.dst = y
        /\ taken'[p][y] = IF d.message.cmd = "NTFY_MSG" THEN taken[p][y]
                          ELSE Append(taken[p][y], d.message.n)
        /\ \A q, r \in Procs : q # p \/ r # y => taken'[q][r] = taken[q][r]
        /\ got' = [got EXCEPT ![p] = d.message]
        /\ owed'[p][y] = IF d.message.cmd = "SNDREC_MSG" THEN d.message.n ELSE owed[p][y]
        /\ \A q, r \in Procs : q # p \/ r # y => owed'[q][r] = owed[q][r]
        /\ \A m \in Nodes, q \in Procs :
              m # Home[p] \/ q # y => desc'[m][q] = desc[m][q]
        /\ inq' = UnlinkIn(Home[p], y)
        /\ IF "RECEIVING" \in d.rts THEN UNCHANGED <<outq, sproxy>>
           ELSE SproxyEnqueue(<<Home[p], Home[y]>>, y)

LEMMA ReceiveTakeEffect ==
    ASSUME IInv, AllLawful, NEW p \in Procs, NEW s \in Sources[p], ReceiveTake(p, s)
    PROVE  \E y \in Procs : Unqueues(p, y)
<1>1. PICK i \in Suitable(p, s) :
        LET x == inq[p][i]
            d == desc[Home[p]][x]
        IN  /\ "SENDING" \in d.rts /\ d.sendto = p /\ Deliver(p, d.message)
            /\ desc' = [desc EXCEPT ![Home[p]][x] =
                        IF "RECEIVING" \in d.rts THEN EndSend(d)
                        ELSE EndSend(Acknowledging(d, p, x, "OK"))]
            /\ inq' = UnlinkIn(Home[p], x)
            /\ IF "RECEIVING" \in d.rts THEN UNCHANGED <<outq, sproxy>>
               ELSE SproxyEnqueue(<<Home[p], Home[x]>>, x)
  BY DEF ReceiveTake
<1> DEFINE x == inq[p][i]
           d == desc[Home[p]][x]
           c == Acknowledging(d, p, x, "OK")
           B == IF "RECEIVING" \in d.rts THEN EndSend(d) ELSE EndSend(c)
<1>2. x \in Procs /\ Home[x] # Home[p] /\ Home[p] \in Nodes /\ x \in ToSet(inq[p])
  BY QueuedFacts, HomeAssumption DEF Suitable, IInv, ToSet
<1>3. Change(Home[p], x, B) /\ Deliver(p, d.message)
      /\ "SENDING" \in d.rts /\ d.sendto = p
      /\ inq' = UnlinkIn(Home[p], x)
      /\ IF "RECEIVING" \in d.rts THEN UNCHANGED <<outq, sproxy>>
         ELSE SproxyEnqueue(<<Home[p], Home[x]>>, x)
  BY <1>1 DEF Change
<1> HIDE DEF x
<1>4. d \in Descriptors /\ Labelled(Home[p], x) /\ Sound(d, Home[p]) /\ x \in Images(Home[p])
  BY <1>2 DEF IInv, DescsFit, AllLawful, Images
<1>5. d.message \in Messages /\ (d.message.cmd # "NTFY_MSG" => d.message.src = x)
  BY <1>2, <1>3, <1>4 DEF Labelled
<1> HIDE DEF d
<1>6. c \in Descriptors
  BY <1>2, <1>4, AcknowledgingFacts DEF Sound
<1>7. /\ c.rts = d.rts \cup {"RMTOPER"} /\ c.message = d.message
      /\ c.rmtcmd = [cmd |-> "SEND_ACK", src |-> p, dst |-> x, rcode |-> "OK", msg |-> NONE]
  BY <1>4, AcknowledgingFields
<1> HIDE DEF c
<1>8. /\ B.message = d.message
      /\ IF "RECEIVING" \in d.rts
         THEN B.rts = d.rts \ {"SENDING"} /\ B.rmtcmd = d.rmtcmd
         ELSE B.rts = (d.rts \cup {"RMTOPER"}) \ {"SENDING"} /\ B.rmtcmd.rcode = "OK"
              /\ B.rmtcmd.cmd = "SEND_ACK" /\ B.rmtcmd.src = p /\ B.rmtcmd.dst = x
  BY <1>4, <1>6, <1>7, EndSendFields
<1> HIDE DEF B
<1>9. /\ desc'[Home[p]][x] = B
      /\ \A m \in Nodes, q \in Procs : m # Home[p] \/ q # x => desc'[m][q] = desc[m][q]
  BY <1>2, <1>3, OneChanged
<1>10. /\ got' = [got EXCEPT ![p] = d.message]
       /\ owed' = [owed EXCEPT ![p][d.message.src] =
                      IF d.message.cmd = "SNDREC_MSG" THEN d.message.n ELSE @]
       /\ taken' = [taken EXCEPT ![p][d.message.src] =
                      IF d.message.cmd = "NTFY_MSG" THEN @ ELSE Append(@, d.message.n)]
  BY <1>3 DEF Deliver
<1>11. d.message.src \in Procs /\ taken \in [Procs -> [Procs -> Seq(Nat)]]
  BY <1>5 DEF Messages, IInv, RestTyped
<1>12. /\ taken'[p][x] = IF d.message.cmd = "NTFY_MSG" THEN taken[p][x]
                         ELSE Append(taken[p][x], d.message.n)
       /\ \A q, r \in Procs : q # p \/ r # x => taken'[q][r] = taken[q][r]
  <2>1. CASE d.message.cmd = "NTFY_MSG"
    BY <1>2, <1>10, <1>11, <2>1
  <2>2. CASE d.message.cmd # "NTFY_MSG"
    BY <1>2, <1>5, <1>10, <1>11, <2>2
  <2>3. QED
    BY <2>1, <2>2
<1>13. /\ owed'[p][x] = IF d.message.cmd = "SNDREC_MSG" THEN d.message.n ELSE owed[p][x]
       /\ \A q, r \in Procs : q # p \/ r # x => owed'[q][r] = owed[q][r]
  <2>1. owed \in [Procs -> [Procs -> Nat]]
    BY DEF IInv, RestTyped
  <2>2. CASE d.message.cmd = "SNDREC_MSG"
    <3>1. d.message.src = x
      BY <1>5, <2>2
    <3>2. owed' = [owed EXCEPT ![p][x] = d.message.n]
      BY <1>10, <2>2, <3>1
    <3>3. QED
      BY <1>2, <2>1, <2>2, <3>2
  <2>3. CASE d.message.cmd # "SNDREC_MSG"
    <3> DEFINE y == d.message.src
    <3>1. y \in Procs /\ owed' = [owed EXCEPT ![p][y] = owed[p][y]]
      BY <1>10, <1>11, <2>3
    <3> HIDE DEF y
    <3>2. QED
      BY <1>2, <2>1, <2>3, <3>1
  <2>4. QED
    BY <2>2, <2>3
<1>14. QED
  BY <1>2, <1>3, <1>8, <1>9, <1>10, <1>12, <1>13 DEF d, Unqueues

LEMMA ReceiveTakeSeen ==
    ASSUME IInv, AllLawful, NEW p \in Procs, NEW s \in Sources[p], ReceiveTake(p, s),
           NEW l \in Links, NEW x \in Procs, Home[x] = l[1]
    PROVE  Shaped(l, x)
<1>1. PICK y \in Procs : Unqueues(p, y)
  BY ReceiveTakeEffect
<1>2. /\ pc' = [pc EXCEPT ![p] = "user"] /\ ret' = [ret EXCEPT ![p] = "OK"]
      /\ UNCHANGED net /\ EnterReceive(p, s)
  BY DEF ReceiveTake, Returns
<1>3. /\ pc'[p] = "user" /\ pc[p] = "user" /\ call'[p].op = "receive" /\ call'[p].n = call[p].n
      /\ \A q \in Procs : q # p => pc'[q] = pc[q] /\ call'[q] = call[q] /\ ret'[q] = ret[q]
                                   /\ got'[q] = got[q]
  BY <1>1, <1>2, SMTT(30) DEF IInv, DescsFit, RestTyped, EnterReceive, Enter, Unqueues
<1>4. NoMore(l, x)
  BY <1>2, SameNet
<1>5. /\ l[1] \in Nodes /\ l[2] \in Nodes /\ Home[x] # l[2] /\ l[1] # l[2]
      /\ (\A n \in Nodes : n = l[1] \/ n = l[2])
  BY EndFacts, LinkFacts
<1>6. CASE x = p
  <2>1. SameLocal(l, x) /\ SameImage(l, x) /\ SameTaken(x)
    BY <1>1, <1>5, <1>6, SameDescs DEF SameTaken, Unqueues
  <2>2. QED
    BY <1>3, <1>4, <1>6, <2>1 DEF Shaped, Receives
<1>7. CASE x = y
  <2>1. x # p /\ l[2] = Home[p] /\ SameLocal(l, x) /\ SameThread(x) /\ got'[x] = got[x]
    BY <1>1, <1>3, <1>5, <1>7, HomeAssumption, SameDescs DEF SameThread, Unqueues
  <2>2. IsTaken(l, x, p)
    BY <1>1, <1>4, <1>7, <2>1 DEF IsTaken, Image, Unqueues
  <2>3. QED
    BY <2>2 DEF Shaped
<1>8. CASE x # p /\ x # y
  <2>1. /\ desc'[l[1]][x] = desc[l[1]][x] /\ desc'[l[2]][x] = desc[l[2]][x]
        /\ \A q \in Procs : taken'[q][x] = taken[q][x]
    BY <1>1, <1>5, <1>8 DEF Unqueues
  <2>2. QED
    BY <1>3, <1>4, <1>8, <2>1, QuietSeen
<1>9. QED
  BY <1>6, <1>7, <1>8

-----------------------------------------------------------------------------
(* The shapes of the steps of a sender proxy *)

LEMMA UnmovedSeen ==
    ASSUME UNCHANGED <<desc, net, pc, call, ret, got, taken>>,
           NEW l \in Links, NEW x \in Procs
    PROVE  Shaped(l, x)
BY SameNet, QuietSeen

LEMMA SentFields ==
    ASSUME NEW d \in Descriptors, NEW image \in BOOLEAN,
           image => d.rmtcmd.cmd # "NTFY_MSG"
    PROVE  LET e == Sent(d, image)
               op == d.rmtcmd.cmd
           IN  /\ e.rmtcmd.cmd = "NONE" /\ e.message = d.message
               /\ image => e.rts = d.rts \ {"RMTOPER", "SENDING"}
               /\ ~image =>
                    /\ e.rts = d.rts \ ({"RMTOPER"} \cup
                                 IF op \in {"SNDREC_MSG", "NTFY_MSG"} THEN {"SENDING"} ELSE {})
                    /\ e.getfrom = d.getfrom /\ e.sendto \in {NONE, d.sendto}
                    /\ "SENDING" \in e.rts => e.sendto = d.sendto
                    /\ IF op = "NTFY_MSG" THEN Woken(d, e, "OK")
                       ELSE e.sem = d.sem /\ e.rcode = d.rcode
<1> DEFINE flags == d.rts \ {"RMTOPER"}
           c == [d.rmtcmd EXCEPT !.cmd = "NONE"]
           f == [d EXCEPT !.rts = flags, !.rmtcmd = c]
           op == d.rmtcmd.cmd
<1>1. d.rmtcmd \in Commands /\ flags \in SUBSET {"SENDING", "RECEIVING", "RMTOPER"}
  BY DEF Descriptors
<1>2. c \in Commands /\ c.cmd = "NONE"
  BY <1>1 DEF Commands
<1>3. Sent(d, image) = IF image \/ op = "SNDREC_MSG" THEN EndSend(f)
                       ELSE IF op = "NTFY_MSG" THEN Wake(EndSend(f), "OK") ELSE f
  <2>1. [d EXCEPT !.rts = @ \ {"RMTOPER"}, !.rmtcmd.cmd = "NONE"] = f
    BY DEF Descriptors
  <2> HIDE DEF f
  <2>2. Sent(d, image) = CASE image -> EndSend(f)
                           [] d.rmtcmd.cmd = "SNDREC_MSG" -> EndSend(f)
                           [] d.rmtcmd.cmd = "NTFY_MSG" -> Wake(EndSend(f), "OK")
                           [] OTHER -> f
    BY <2>1 DEF Sent
  <2>3. CASE image
    BY <2>2, <2>3
  <2>4. CASE ~image
    BY <2>2, <2>4
  <2>5. QED
    BY <2>3, <2>4
<1> HIDE DEF flags, c, op
<1>4. /\ f \in Descriptors /\ f.rts = flags /\ f.rmtcmd = c /\ f.message = d.message
      /\ f.getfrom = d.getfrom /\ f.sendto = d.sendto /\ f.sem = d.sem /\ f.rcode = d.rcode
  BY <1>1, <1>2 DEF Descriptors
<1> HIDE DEF f
<1>5. LET e == EndSend(f)
      IN  /\ e \in Descriptors
          /\ e.rts = f.rts \ {"SENDING"} /\ e.sendto = NONE /\ e.getfrom = f.getfrom
          /\ e.sem = f.sem /\ e.rcode = f.rcode /\ e.rmtcmd = f.rmtcmd
          /\ e.message = f.message
  BY <1>4, EndSendFields
<1>6. LET e == EndSend(f)
          w == Wake(e, "OK")
      IN  /\ w.rts = e.rts /\ w.sendto = e.sendto /\ w.getfrom = e.getfrom
          /\ w.rmtcmd = e.rmtcmd /\ w.message = e.message /\ Woken(e, w, "OK")
  BY <1>5, WakeFields
<1>7. CASE image
  BY <1>2, <1>3, <1>4, <1>5, <1>7 DEF flags
<1>8. CASE ~image /\ op = "SNDREC_MSG"
  BY <1>2, <1>3, <1>4, <1>5, <1>8 DEF flags, op
<1>9. CASE ~image /\ op = "NTFY_MSG"
  <2>1. Woken(d, Sent(d, image), "OK")
    BY <1>3, <1>4, <1>5, <1>6, <1>9 DEF Woken
  <2>2. QED
    BY <1>2, <1>3, <1>4, <1>5, <1>6, <1>9, <2>1 DEF flags, op
<1>10. CASE ~image /\ op \notin {"SNDREC_MSG", "NTFY_MSG"}
  BY <1>2, <1>3, <1>4, <1>10 DEF flags, op
<1>11. QED
  BY <1>7, <1>8, <1>9, <1>10

\* The descriptor the sender proxy of k has in its hands leaves them.
Dispatches(k) ==
    LET y == sproxy[k].xpp
        d == desc[k[1]][y]
        e == desc'[k[1]][y]
    IN  /\ y \in Procs /\ sproxy[k].at = "taken"
        /\ \A m \in Nodes, q \in Procs : m # k[1] \/ q # y => desc'[m][q] = desc[m][q]
        /\ IF d.rmtcmd.cmd # "NONE"
           THEN e = Sent(d, Home[y] # k[1]) /\ net' = [net EXCEPT ![k] = Append(@, d.rmtcmd)]
           ELSE e.rts = {} /\ e.rmtcmd = d.rmtcmd /\ UNCHANGED net

LEMMA DispatchEffect ==
    ASSUME IInv, NEW k \in Links, Get2rmtDispatch(k)
    PROVE  Dispatches(k)
<1> DEFINE y == sproxy[k].xpp
           d == desc[k[1]][y]
           image == IsImage(k[1], y)
           A == IF d.rmtcmd.cmd # "NONE" THEN Sent(d, image)
                ELSE IF image THEN [d EXCEPT !.rts = {}] ELSE ReadyUp(d, "error")
<1>1. y \in Procs /\ k[1] \in Nodes /\ sproxy[k].at = "taken"
  BY LinkFacts DEF Get2rmtDispatch, At, IInv, QueuesFit, SproxyFit
<1>2. Change(k[1], y, A)
      /\ IF d.rmtcmd.cmd # "NONE" THEN net' = [net EXCEPT ![k] = Append(@, d.rmtcmd)]
         ELSE UNCHANGED net
  BY DEF Get2rmtDispatch, Change
<1> HIDE DEF y
<1>3. d \in Descriptors
  BY <1>1 DEF IInv, DescsFit
<1>4. image = (Home[y] # k[1])
  BY DEF IsImage
<1> HIDE DEF d, image
<1>5. d.rmtcmd.cmd = "NONE" => A.rts = {} /\ A.rmtcmd = d.rmtcmd
  <2>1. /\ [d EXCEPT !.rts = {}].rts = {} /\ [d EXCEPT !.rts = {}].rmtcmd = d.rmtcmd
        /\ ReadyUp(d, "error").rts = {} /\ ReadyUp(d, "error").rmtcmd = d.rmtcmd
    BY <1>3 DEF ReadyUp, Descriptors
  <2>2. QED
    BY <2>1
<1>6. d.rmtcmd.cmd # "NONE" => A = Sent(d, image)
  OBVIOUS
<1> HIDE DEF A
<1>7. /\ desc'[k[1]][y] = A
      /\ \A m \in Nodes, q \in Procs : m # k[1] \/ q # y => desc'[m][q] = desc[m][q]
  BY <1>1, <1>2, OneChanged
<1>8. QED
  BY <1>1, <1>2, <1>4, <1>5, <1>6, <1>7 DEF Dispatches, y, d

LEMMA DispatchSeen ==
    ASSUME IInv, AllLawful, NEW k \in Links, Get2rmtDispatch(k),
           NEW l \in Links, NEW x \in Procs, Home[x] = l[1]
    PROVE  Shaped(l, x)
<1> DEFINE y == sproxy[k].xpp
           d == desc[k[1]][y]
           e == desc'[k[1]][y]
<1>1. /\ y \in Procs /\ sproxy[k].at = "taken"
      /\ \A m \in Nodes, q \in Procs : m # k[1] \/ q # y => desc'[m][q] = desc[m][q]
      /\ IF d.rmtcmd.cmd # "NONE"
         THEN e = Sent(d, Home[y] # k[1]) /\ net' = [net EXCEPT ![k] = Append(@, d.rmtcmd)]
         ELSE e.rts = {} /\ e.rmtcmd = d.rmtcmd /\ UNCHANGED net
  BY DispatchEffect DEF Dispatches
<1>2. UNCHANGED <<pc, call, ret, got, taken>>
  BY DEF Get2rmtDispatch
<1>3. SameThread(x) /\ got'[x] = got[x] /\ SameTaken(x)
  BY <1>2 DEF SameThread, SameTaken
<1> HIDE DEF y
<1>4. /\ l[1] \in Nodes /\ l[2] \in Nodes /\ Home[x] # l[2] /\ l[1] # l[2]
      /\ (k = l \/ k = Back(l)) /\ Back(l)[1] = l[2] /\ k[1] \in Nodes /\ l # Back(l)
      /\ Back(l) \in Links
  BY EndFacts, LinkFacts
<1>5. d \in Descriptors
  BY <1>1, <1>4 DEF IInv, DescsFit
<1>6. k = Back(l) => d.rmtcmd.cmd # "NTFY_MSG" \/ x # y
  BY <1>1, <1>4 DEF AllLawful, Labelled, MsgCmds
<1>7. CASE x # y
  <2>1. NoMore(l, x)
    <3>1. CASE d.rmtcmd.cmd # "NONE"
      BY <1>1, <1>7, <3>1, LongerNet
    <3>2. CASE d.rmtcmd.cmd = "NONE"
      BY <1>1, <3>2, SameNet
    <3>3. QED
      BY <3>1, <3>2
  <2>2. QED
    BY <1>1, <1>2, <1>4, <1>7, <2>1, QuietSeen
<1>8. CASE x = y /\ k = l
  <2>1. SameImage(l, x) /\ d = Local(l, x) /\ e = Local(l, x)'
    BY <1>1, <1>4, <1>8, SameDescs DEF Local
  <2>2. CASE d.rmtcmd.cmd # "NONE"
    <3>1. NoMoreAcks(l, x) /\ e = Sent(d, FALSE) /\ net' = [net EXCEPT ![l] = Append(@, d.rmtcmd)]
      <4>1. net' = [net EXCEPT ![k] = Append(@, d.rmtcmd)] /\ e = Sent(d, Home[y] # k[1])
        BY <1>1, <2>2
      <4>2. NoMoreAcks(l, x)
        BY <1>1, <1>8, <2>2, <4>1, LongerNet
      <4>3. e = Sent(d, FALSE)
        <5> HIDE DEF d, e
        <5>1. Home[y] = k[1]
          BY <1>8
        <5>2. QED
          BY <4>1, <5>1
      <4>4. QED
        BY <1>8, <4>1, <4>2, <4>3
    <3>2. net'[l] = Append(net[l], d.rmtcmd)
      BY <3>1, NetTyped
    <3> HIDE DEF d, e
    <3>3. /\ e.rmtcmd.cmd = "NONE"
          /\ e.rts = d.rts \ ({"RMTOPER"} \cup
                       IF d.rmtcmd.cmd \in {"SNDREC_MSG", "NTFY_MSG"} THEN {"SENDING"} ELSE {})
          /\ e.getfrom = d.getfrom /\ e.sendto \in {NONE, d.sendto}
          /\ "SENDING" \in e.rts => e.sendto = d.sendto
          /\ IF d.rmtcmd.cmd = "NTFY_MSG" THEN Woken(d, e, "OK")
             ELSE e.sem = d.sem /\ e.rcode = d.rcode
      BY <1>5, <3>1, SentFields
    <3>4. Departs(l, x)
      BY <1>1, <1>3, <1>8, <2>1, <2>2, <3>1, <3>2, <3>3 DEF Departs, y
    <3>5. QED
      BY <3>4 DEF Shaped
  <2>3. CASE d.rmtcmd.cmd = "NONE"
    <3>1. NoMore(l, x)
      BY <1>1, <2>3, SameNet
    <3>2. IsReadied(l, x)
      BY <1>1, <1>3, <1>8, <2>1, <2>3, <3>1 DEF IsReadied, y
    <3>3. QED
      BY <3>2 DEF Shaped
  <2>4. QED
    BY <2>2, <2>3
<1>9. CASE x = y /\ k = Back(l)
  <2>1. SameLocal(l, x) /\ d = Image(l, x) /\ e = Image(l, x)'
    BY <1>1, <1>4, <1>9, SameDescs DEF Image
  <2>2. CASE d.rmtcmd.cmd # "NONE"
    <3>1. NoMoreMail(l, x) /\ e = Sent(d, TRUE) /\ net' = [net EXCEPT ![k] = Append(@, d.rmtcmd)]
      <4>1. net' = [net EXCEPT ![k] = Append(@, d.rmtcmd)] /\ e = Sent(d, Home[y] # k[1])
        BY <1>1, <2>2
      <4>2. NoMoreMail(l, x)
        BY <1>1, <1>4, <1>9, <2>2, <4>1, LongerNet
      <4>3. e = Sent(d, TRUE)
        <5> HIDE DEF d, e
        <5>1. Home[y] # k[1]
          <6>1. l[1] # k[1]
            BY <1>4, <1>9, LinkFacts
          <6>2. QED
            BY <1>9, <6>1
        <5>2. QED
          BY <4>1, <5>1
      <4>4. QED
        BY <4>1, <4>2, <4>3
    <3>2. net'[k] = Append(net[k], d.rmtcmd)
      BY <3>1, NetTyped
    <3> HIDE DEF d, e
    <3>3. e.rmtcmd.cmd = "NONE" /\ e.message = d.message /\ e.rts = d.rts \ {"RMTOPER", "SENDING"}
      BY <1>5, <1>6, <1>9, <3>1, SentFields
    <3>4. AckDeparts(l, x)
      BY <1>1, <1>3, <1>9, <2>1, <2>2, <3>1, <3>2, <3>3 DEF AckDeparts, y
    <3>5. QED
      BY <3>4 DEF Shaped
  <2>3. CASE d.rmtcmd.cmd = "NONE"
    <3>1. NoMore(l, x)
      BY <1>1, <2>3, SameNet
    <3>2. IsCleared(l, x)
      BY <1>1, <1>3, <1>9, <2>1, <2>3, <3>1 DEF IsCleared, y
    <3>3. QED
      BY <3>2 DEF Shaped
  <2>4. QED
    BY <2>2, <2>3
<1>10. QED
  BY <1>4, <1>7, <1>8, <1>9

-----------------------------------------------------------------------------
(* The shapes of the steps of a receiver proxy *)

\* The header that arrives, and whose descriptors it is about.
LEMMA ArrivingFacts ==
    ASSUME IInv, AllLawful, NEW k \in Links, Arrives(k)
    PROVE  LET h == Header(k)
           IN  /\ h \in ToSet(net[k]) /\ h \in Commands /\ h.cmd # "NONE" /\ Lawful(h)
               /\ h.src \in Procs /\ h.dst \in Procs /\ h.src # h.dst
               /\ Home[h.src] = k[1] /\ Home[h.dst] = k[2] /\ h.rcode \in {"OK", "error"}
               /\ h.cmd \in MsgCmds => h.msg \in Messages /\ h \in Mail(h.src)
                                       /\ h.msg.src = h.src /\ h.msg.cmd = h.cmd
               /\ h.cmd \notin MsgCmds => h.cmd = "SEND_ACK" /\ h \in Acks(h.dst)
               /\ net[k] # <<>> /\ net'[k] = Tail(net[k])
               /\ \A l \in Links, p \in Procs : NoMore(l, p)
               /\ \A l \in Links : l # k => net'[l] = net[l]
<1> DEFINE h == Header(k)
<1>1. net[k] # <<>> /\ net' = [net EXCEPT ![k] = Tail(@)]
  BY DEF Arrives
<1>2. h \in ToSet(net[k]) /\ \A l \in Links, p \in Procs : NoMore(l, p)
  BY <1>1, NetTyped, ToSetTail, ShorterNet DEF Header
<1>3. Lawful(h)
  BY <1>2 DEF AllLawful
<1>4. /\ h.src \in Procs /\ h.dst \in Procs /\ h.src # h.dst /\ h \in Commands
      /\ Home[h.src] = k[1] /\ Home[h.dst] = k[2] /\ h.cmd # "NONE" /\ h.rcode \in {"OK", "error"}
      /\ h.cmd \in MsgCmds => h.msg \in Messages
  BY <1>1, HeaderFacts, EndsFacts DEF IInv
<1>5. /\ net'[k] = Tail(net[k])
      /\ \A l \in Links : l # k => net'[l] = net[l]
  BY <1>1, NetTyped
<1> HIDE DEF h
<1>6. h.cmd \notin MsgCmds => h.cmd = "SEND_ACK"
  BY <1>4 DEF Commands
<1>7. QED
  BY <1>1, <1>2, <1>3, <1>4, <1>5, <1>6 DEF h, Mail, Acks, Lawful

LEMMA DeliverFields ==
    ASSUME IInv, NEW q \in Procs, NEW m \in Messages, Deliver(q, m)
    PROVE  /\ got'[q] = m /\ \A r \in Procs : r # q => got'[r] = got[r]
           /\ taken'[q][m.src] = IF m.cmd = "NTFY_MSG" THEN taken[q][m.src]
                                 ELSE Append(taken[q][m.src], m.n)
           /\ \A r, s \in Procs : r # q \/ s # m.src => taken'[r][s] = taken[r][s]
           /\ owed'[q][m.src] = IF m.cmd = "SNDREC_MSG" THEN m.n ELSE owed[q][m.src]
           /\ \A r, s \in Procs : r # q \/ s # m.src => owed'[r][s] = owed[r][s]
<1>1. m.src \in Procs
  BY DEF Messages
<1>2. got'[q] = m /\ \A r \in Procs : r # q => got'[r] = got[r]
  BY DEF Deliver, IInv, RestTyped
<1>3. /\ owed'[q][m.src] = IF m.cmd = "SNDREC_MSG" THEN m.n ELSE owed[q][m.src]
      /\ \A r, s \in Procs : r # q \/ s # m.src => owed'[r][s] = owed[r][s]
  BY <1>1 DEF Deliver, IInv, RestTyped
<1>4. /\ taken'[q][m.src] = IF m.cmd = "NTFY_MSG" THEN taken[q][m.src]
                            ELSE Append(taken[q][m.src], m.n)
      /\ \A r, s \in Procs : r # q \/ s # m.src => taken'[r][s] = taken[r][s]
  BY <1>1 DEF Deliver, IInv, RestTyped
<1>5. QED
  BY <1>2, <1>3, <1>4

\* A destination that waits is woken.
LEMMA WokenFields ==
    ASSUME NEW d \in Descriptors
    PROVE  LET e == Wake(EndReceive(d), "OK")
           IN  /\ e.rts = d.rts \ {"RECEIVING"} /\ Woken(d, e, "OK")
               /\ e.sendto = d.sendto /\ e.rmtcmd = d.rmtcmd /\ e.message = d.message
<1> DEFINE f == EndReceive(d)
<1>1. /\ f \in Descriptors /\ f.rts = d.rts \ {"RECEIVING"} /\ f.sendto = d.sendto
      /\ f.sem = d.sem /\ f.rcode = d.rcode /\ f.rmtcmd = d.rmtcmd /\ f.message = d.message
  BY EndReceiveFields
<1> HIDE DEF f
<1>2. LET e == Wake(f, "OK")
      IN  /\ e.rts = f.rts /\ e.sendto = f.sendto /\ e.rmtcmd = f.rmtcmd
          /\ e.message = f.message /\ Woken(f, e, "OK")
  BY <1>1, WakeFields
<1>3. QED
  BY <1>1, <1>2 DEF Woken, f

LEMMA DroppedSeen ==
    ASSUME IInv, AllLawful, NEW k \in Links, Put2lclDropped(k),
           NEW l \in Links, NEW x \in Procs
    PROVE  Shaped(l, x)
<1>1. Arrives(k) /\ UNCHANGED <<desc, pc, call, ret, got, taken>>
  BY DEF Put2lclDropped
<1>2. NoMore(l, x)
  BY <1>1, ArrivingFacts
<1>3. QED
  BY <1>1, <1>2, QuietSeen

LEMMA DeniedSeen ==
    ASSUME IInv, AllLawful, NEW k \in Links, Put2lclDenied(k),
           NEW l \in Links, NEW x \in Procs, Home[x] = l[1]
    PROVE  Shaped(l, x)
<1> DEFINE h == Header(k)
           A == Acknowledging(desc[k[2]][h.src], h.dst, h.src, "error")
<1>1. Arrives(k) /\ UNCHANGED <<pc, call, ret, got, taken>> /\ h.dst \notin RmtIpcTo[h.src]
  BY DEF Put2lclDenied, Admitted
<1>2. /\ h.src \in Procs /\ Home[h.src] = k[1] /\ net[k] # <<>> /\ net'[k] = Tail(net[k])
      /\ h.cmd \in MsgCmds => h \in Mail(h.src)
      /\ h.cmd \notin MsgCmds => h.cmd = "SEND_ACK"
      /\ NoMore(l, x)
  BY <1>1, ArrivingFacts
<1>3. CASE h.cmd = "SEND_ACK"
  <2>1. UNCHANGED desc
    BY <1>3 DEF Put2lclDenied
  <2>2. QED
    BY <1>1, <1>2, <2>1, QuietSeen
<1>4. CASE h.cmd # "SEND_ACK"
  <2>1. Change(k[2], h.src, A)
    BY <1>4 DEF Put2lclDenied, Change
  <2>2. k[2] \in Nodes /\ k[1] # k[2]
    BY LinkFacts
  <2>3. /\ desc'[k[2]][h.src] = A
        /\ \A m \in Nodes, q \in Procs : m # k[2] \/ q # h.src => desc'[m][q] = desc[m][q]
    BY <1>2, <2>1, <2>2, OneChanged
  <2>4. /\ A.rts = desc[k[2]][h.src].rts \cup {"RMTOPER"} /\ A.sendto = desc[k[2]][h.src].sendto
        /\ A.message = desc[k[2]][h.src].message
        /\ A.rmtcmd = [cmd |-> "SEND_ACK", src |-> h.dst, dst |-> h.src, rcode |-> "error",
                       msg |-> NONE]
    <3>1. desc[k[2]][h.src] \in Descriptors
      BY <1>2, <2>2 DEF IInv, DescsFit
    <3>2. QED
      BY <3>1, AcknowledgingFields
  <2> HIDE DEF h, A
  <2>5. /\ l[1] \in Nodes /\ l[2] \in Nodes /\ l[1] # l[2] /\ (k = l \/ k = Back(l))
        /\ Back(l)[1] = l[2]
    BY EndFacts
  <2>6. CASE x = h.src
    <3>1. k = l /\ SameLocal(l, x) /\ SameThread(x) /\ got'[x] = got[x] /\ SameTaken(x)
      BY <1>1, <1>2, <2>3, <2>5, <2>2, <2>6, SameDescs DEF SameThread, SameTaken
    <3>2. Refused(l, x)
      BY <1>1, <1>2, <1>4, <2>3, <2>4, <2>6, <3>1 DEF Refused, Arriving, Image, h
    <3>3. QED
      BY <3>2 DEF Shaped
  <2>7. CASE x # h.src
    BY <1>1, <1>2, <2>3, <2>5, <2>7, QuietSeen
  <2>8. QED
    BY <2>6, <2>7
<1>5. QED
  BY <1>3, <1>4

\* What an acknowledgement or a message that does not queue is handed to.
LEMMA HearsSeen ==
    ASSUME IInv, AllLawful, NEW k \in Links, Arrives(k), Header(k).cmd \in MsgCmds,
           Waits(desc[k[2]][Header(k).dst], Header(k).src),
           desc'[k[2]][Header(k).dst] = Wake(EndReceive(desc[k[2]][Header(k).dst]), "OK"),
           desc'[k[1]][Header(k).dst] = desc[k[1]][Header(k).dst],
           UNCHANGED <<pc, call, ret>>, Deliver(Header(k).dst, Header(k).msg),
           NEW l \in Links, NEW x \in Procs, Home[x] = l[1], x = Header(k).dst
    PROVE  Shaped(l, x)
<1> DEFINE h == Header(k)
<1>1. /\ h.src \in Procs /\ h.dst \in Procs /\ h.src # h.dst /\ Home[h.dst] = k[2]
      /\ h.msg \in Messages /\ h.msg.src = h.src /\ NoMore(l, x)
      /\ net[k] # <<>> /\ net'[k] = Tail(net[k])
  BY ArrivingFacts
<1>2. /\ got'[h.dst] = h.msg
      /\ \A r, s \in Procs : r # h.dst \/ s # h.msg.src => taken'[r][s] = taken[r][s]
  BY <1>1, DeliverFields
<1>3. SameTaken(x) /\ SameThread(x)
  BY <1>1, <1>2 DEF SameTaken, SameThread
<1>4. k = Back(l) /\ k[2] = l[1] /\ k[1] = l[2] /\ desc[l[1]][x] \in Descriptors
  <2>1. (k = l \/ k = Back(l)) /\ l[1] # l[2] /\ Back(l)[1] = l[2] /\ Back(l)[2] = l[1]
        /\ desc[l[1]][x] \in Descriptors
    BY EndFacts
  <2>2. QED
    BY <1>1, <2>1
<1> DEFINE d == desc[l[1]][x]
           e == desc'[l[1]][x]
<1>5. /\ e.rts = d.rts \ {"RECEIVING"} /\ Woken(d, e, "OK")
      /\ e.sendto = d.sendto /\ e.rmtcmd = d.rmtcmd /\ SameImage(l, x)
  BY <1>4, WokenFields, SameDescs
<1> HIDE DEF h
<1>6. Hears(l, x)
  BY <1>1, <1>2, <1>3, <1>4, <1>5 DEF Hears, Local, h
<1>7. QED
  BY <1>6 DEF Shaped

LEMMA DeliverSeen ==
    ASSUME IInv, AllLawful, NEW k \in Links, Put2lclDeliver(k),
           NEW l \in Links, NEW x \in Procs, Home[x] = l[1]
    PROVE  Shaped(l, x)
<1> DEFINE h == Header(k)
           src == desc[k[2]][h.src]
           dst == desc[k[2]][h.dst]
           A1 == [src EXCEPT !.rts = @ \cup {"RECEIVING"}, !.getfrom = h.dst]
           A2 == Acknowledging(src, h.dst, h.src, "OK")
           A == IF h.cmd = "SNDREC_MSG" THEN A1 ELSE A2
           B == Wake(EndReceive(dst), "OK")
<1>1. /\ Arrives(k) /\ UNCHANGED <<pc, call, ret>> /\ IsMessage(h) /\ Waits(dst, h.src)
      /\ src.rts \cap {"SENDING", "RMTOPER"} = {} /\ Deliver(h.dst, h.msg)
  BY DEF Put2lclDeliver, Accepted, Unused
<1>2. /\ h.src \in Procs /\ h.dst \in Procs /\ h.src # h.dst
      /\ Home[h.src] = k[1] /\ Home[h.dst] = k[2]
      /\ h.cmd \in MsgCmds => h.msg \in Messages /\ h \in Mail(h.src) /\ h.msg.src = h.src
                              /\ h.msg.cmd = h.cmd
      /\ net[k] # <<>> /\ net'[k] = Tail(net[k]) /\ NoMore(l, x)
  BY <1>1, ArrivingFacts
<1>3. h.cmd \in MsgCmds /\ h.cmd # "NTFY_MSG" /\ h \in Letters(h.src)
  BY <1>1, <1>2 DEF IsMessage, MsgCmds, Letters
<1>4. ChangeTwo(k[2], h.src, A, h.dst, B)
  BY DEF Put2lclDeliver, ChangeTwo
<1>5. /\ l[1] \in Nodes /\ l[2] \in Nodes /\ l[1] # l[2] /\ (k = l \/ k = Back(l))
      /\ Back(l)[1] = l[2] /\ Back(l)[2] = l[1] /\ k[1] # k[2] /\ k[2] \in Nodes /\ k[1] \in Nodes
  BY EndFacts, LinkFacts
<1> HIDE DEF A, B
<1>6. /\ desc'[k[2]][h.src] = A /\ desc'[k[2]][h.dst] = B
      /\ \A m \in Nodes, q \in Procs :
            m # k[2] \/ (q # h.src /\ q # h.dst) => desc'[m][q] = desc[m][q]
  BY <1>2, <1>4, <1>5, TwoChanged
<1>7. src \in Descriptors
  BY <1>2, <1>5 DEF IInv, DescsFit
<1>8. /\ got'[h.dst] = h.msg /\ \A r \in Procs : r # h.dst => got'[r] = got[r]
      /\ taken'[h.dst][h.src] = Append(taken[h.dst][h.src], h.msg.n)
      /\ \A r, s \in Procs : r # h.dst \/ s # h.src => taken'[r][s] = taken[r][s]
      /\ owed'[h.dst][h.src] = IF h.cmd = "SNDREC_MSG" THEN h.msg.n ELSE owed[h.dst][h.src]
      /\ \A r, s \in Procs : r # h.dst \/ s # h.src => owed'[r][s] = owed[r][s]
  <2>1. h.msg \in Messages /\ h.msg.src = h.src /\ h.msg.cmd # "NTFY_MSG" /\ h.dst \in Procs
        /\ h.msg.cmd = h.cmd /\ Deliver(h.dst, h.msg)
    BY <1>1, <1>2, <1>3
  <2>2. PICK m \in Messages, q \in Procs : m = h.msg /\ q = h.dst
    BY <2>1
  <2>3. Deliver(q, m) /\ m.src = h.src /\ m.cmd # "NTFY_MSG" /\ m.cmd = h.cmd
    BY <2>1, <2>2
  <2> HIDE DEF h
  <2>4. got'[q] = m /\ \A r \in Procs : r # q => got'[r] = got[r]
    BY <2>3, DeliverFields
  <2>5. taken'[q][m.src] = Append(taken[q][m.src], m.n)
    BY <2>3, DeliverFields
  <2>6. \A r, s \in Procs : r # q \/ s # m.src => taken'[r][s] = taken[r][s]
    BY <2>3, DeliverFields
  <2>7. /\ owed'[q][m.src] = IF m.cmd = "SNDREC_MSG" THEN m.n ELSE owed[q][m.src]
        /\ \A r, s \in Procs : r # q \/ s # m.src => owed'[r][s] = owed[r][s]
    BY <2>3, DeliverFields
  <2>8. QED
    BY <2>2, <2>3, <2>4, <2>5, <2>6, <2>7
<1>9. CASE x = h.dst
  BY <1>1, <1>2, <1>3, <1>5, <1>6, <1>9, HearsSeen DEF B
<1>10. CASE x = h.src
  <2>1. k = l /\ SameLocal(l, x) /\ SameThread(x) /\ got'[x] = got[x]
    <3> HIDE DEF h
    <3>1. k = l /\ l[1] # k[2] /\ l[1] \in Nodes
      <4>1. Home[h.src] = k[1]
        BY <1>2
      <4>2. k[1] = l[1]
        BY <1>10, <4>1
      <4>3. QED
        BY <1>5, <4>2
    <3>2. desc'[l[1]][x] = desc[l[1]][x]
      BY <1>6, <3>1
    <3>3. got'[x] = got[x]
      BY <1>2, <1>8, <1>10
    <3>4. QED
      BY <1>1, <3>1, <3>2, <3>3, SameDescs DEF SameThread
  <2> HIDE DEF h, src
  <2>2. /\ A.sendto = src.sendto /\ A.message = src.message
        /\ IF h.cmd = "SNDREC_MSG"
           THEN A.rts = src.rts \cup {"RECEIVING"} /\ A.rmtcmd = src.rmtcmd
           ELSE A.rts = src.rts \cup {"RMTOPER"} /\ A.rmtcmd.rcode = "OK"
                /\ A.rmtcmd.cmd = "SEND_ACK" /\ A.rmtcmd.src = h.dst /\ A.rmtcmd.dst = x
    <3>1. CASE h.cmd = "SNDREC_MSG"
      BY <1>7, <3>1 DEF A, Descriptors
    <3>2. CASE h.cmd # "SNDREC_MSG"
      <4>1. A = Acknowledging(src, h.dst, h.src, "OK")
        BY <3>2 DEF A
      <4>2. /\ A.rts = src.rts \cup {"RMTOPER"} /\ A.sendto = src.sendto
            /\ A.message = src.message
            /\ A.rmtcmd = [cmd |-> "SEND_ACK", src |-> h.dst, dst |-> h.src, rcode |-> "OK",
                           msg |-> NONE]
        BY <1>7, <4>1, AcknowledgingFields
      <4>3. QED
        BY <1>10, <3>2, <4>2
    <3>3. QED
      BY <3>1, <3>2
  <2>3. Arriving(l, x)
    BY <1>2, <1>3, <1>10, <2>1 DEF Arriving, h
  <2>4. Image(l, x) = src /\ Image(l, x)' = A /\ Header(l) = h
    BY <1>6, <1>10, <2>1 DEF Image, src, h
  <2>5. h \in Letters(x) /\ src.rts \cap {"SENDING", "RMTOPER"} = {}
    BY <1>1, <1>3, <1>10 DEF h, src
  <2>6. /\ taken'[h.dst][x] = Append(taken[h.dst][x], h.msg.n)
        /\ \A q \in Procs : q # h.dst => taken'[q][x] = taken[q][x]
        /\ owed'[h.dst][x] = IF h.cmd = "SNDREC_MSG" THEN h.msg.n ELSE owed[h.dst][x]
    <3>1. x = h.src
      BY <1>10 DEF h
    <3>2. QED
      BY <1>8, <3>1 DEF h
  <2>7. Delivered(l, x)
    BY <2>2, <2>3, <2>4, <2>5, <2>6 DEF Delivered
  <2>8. QED
    BY <2>7 DEF Shaped
<1>11. CASE x # h.src /\ x # h.dst
  <2> HIDE DEF h
  <2>1. desc'[l[1]][x] = desc[l[1]][x] /\ desc'[l[2]][x] = desc[l[2]][x]
    BY <1>5, <1>6, <1>11
  <2>2. got'[x] = got[x] /\ \A q \in Procs : taken'[q][x] = taken[q][x]
    BY <1>8, <1>11
  <2>3. QED
    BY <1>1, <1>2, <2>1, <2>2, QuietSeen
<1>12. QED
  BY <1>9, <1>10, <1>11

LEMMA QueueSeen ==
    ASSUME IInv, AllLawful, NEW k \in Links, Put2lclQueue(k),
           NEW l \in Links, NEW x \in Procs, Home[x] = l[1]
    PROVE  Shaped(l, x)
<1> DEFINE h == Header(k)
           rec == h.cmd = "SNDREC_MSG"
           d == desc[k[2]][h.src]
           r == d.rts \cup {"SENDING"} \cup (IF rec THEN {"RECEIVING"} ELSE {})
           g == IF rec THEN h.dst ELSE d.getfrom
           A == [d EXCEPT !.message = h.msg, !.sendto = h.dst, !.rts = r, !.getfrom = g]
<1>1. /\ Arrives(k) /\ UNCHANGED <<pc, call, ret, got, taken>> /\ IsMessage(h)
      /\ ~Waits(desc[k[2]][h.dst], h.src) /\ d.rts \cap {"SENDING", "RMTOPER"} = {}
  BY DEF Put2lclQueue, Accepted, Unused
<1>2. Change(k[2], h.src, A)
  BY DEF Put2lclQueue, Change
<1>3. /\ h.src \in Procs /\ Home[h.src] = k[1]
      /\ h.cmd \in MsgCmds => h \in Mail(h.src)
      /\ net[k] # <<>> /\ net'[k] = Tail(net[k]) /\ NoMore(l, x)
  BY <1>1, ArrivingFacts
<1>4. h.cmd \in MsgCmds /\ h \in Letters(h.src)
  BY <1>1, <1>3 DEF IsMessage, MsgCmds, Letters
<1>5. /\ l[1] \in Nodes /\ l[2] \in Nodes /\ l[1] # l[2] /\ (k = l \/ k = Back(l))
      /\ Back(l)[1] = l[2] /\ k[2] \in Nodes
  BY EndFacts, LinkFacts
<1>6. d \in Descriptors
  BY <1>3, <1>5 DEF IInv, DescsFit
<1> HIDE DEF h, d, rec, r, g
<1>7. A.rts = r /\ A.sendto = h.dst /\ A.message = h.msg /\ A.rmtcmd = d.rmtcmd
  BY <1>6 DEF Descriptors
<1> HIDE DEF A
<1>8. /\ desc'[k[2]][h.src] = A
      /\ \A m \in Nodes, q \in Procs : m # k[2] \/ q # h.src => desc'[m][q] = desc[m][q]
  BY <1>2, <1>3, <1>5, OneChanged DEF h
<1>9. CASE x = h.src
  <2>1. k = l /\ SameLocal(l, x) /\ SameThread(x) /\ got'[x] = got[x] /\ SameTaken(x)
    BY <1>1, <1>3, <1>5, <1>8, <1>9, LinkFacts, SameDescs DEF SameThread, SameTaken
  <2>2. Arriving(l, x)
    BY <1>3, <1>4, <1>9, <2>1 DEF Arriving, h
  <2>3. Queues(l, x)
    BY <1>1, <1>4, <1>7, <1>8, <1>9, <2>1, <2>2 DEF Queues, Image, h, r, rec, d
  <2>4. QED
    BY <2>3 DEF Shaped
<1>10. CASE x # h.src
  BY <1>1, <1>3, <1>5, <1>8, <1>10, QuietSeen
<1>11. QED
  BY <1>9, <1>10

LEMMA NotifySeen ==
    ASSUME IInv, AllLawful, NEW k \in Links, Put2lclNotify(k),
           NEW l \in Links, NEW x \in Procs, Home[x] = l[1]
    PROVE  Shaped(l, x)
<1> DEFINE h == Header(k)
           d == desc[k[2]][h.dst]
           noted == d.pending \cup {h.src}
           A1 == Wake(EndReceive(d), "OK")
           A2 == [d EXCEPT !.notify = TRUE, !.pending = noted]
<1>1. /\ Arrives(k) /\ UNCHANGED <<pc, call, ret>> /\ h.cmd = "NTFY_MSG"
      /\ \/ Waits(d, h.src) /\ Deliver(h.dst, h.msg) /\ Change(k[2], h.dst, A1)
         \/ Change(k[2], h.dst, A2) /\ UNCHANGED <<got, taken>>
  BY DEF Put2lclNotify, Accepted, Change
<1>2. /\ h.src \in Procs /\ h.dst \in Procs /\ h.src # h.dst
      /\ Home[h.src] = k[1] /\ Home[h.dst] = k[2]
      /\ h.cmd \in MsgCmds => h.msg \in Messages /\ h.msg.src = h.src /\ h.msg.cmd = h.cmd
      /\ net[k] # <<>> /\ NoMore(l, x)
  BY <1>1, ArrivingFacts
<1>3. /\ l[1] \in Nodes /\ l[2] \in Nodes /\ l[1] # l[2] /\ (k = l \/ k = Back(l))
      /\ Back(l)[1] = l[2] /\ Back(l)[2] = l[1] /\ k[2] \in Nodes /\ k[1] \in Nodes /\ k[1] # k[2]
  BY EndFacts, LinkFacts
<1>4. d \in Descriptors
  BY <1>2, <1>3 DEF IInv, DescsFit
<1>5. h.cmd \in MsgCmds
  BY <1>1 DEF MsgCmds
<1>6. CASE Waits(d, h.src) /\ Deliver(h.dst, h.msg) /\ Change(k[2], h.dst, A1)
  <2> HIDE DEF A1
  <2>1. /\ desc'[k[2]][h.dst] = A1
        /\ \A m \in Nodes, q \in Procs : m # k[2] \/ q # h.dst => desc'[m][q] = desc[m][q]
    BY <1>2, <1>3, <1>6, OneChanged
  <2>2. CASE x = h.dst
    BY <1>1, <1>2, <1>3, <1>5, <1>6, <2>1, <2>2, HearsSeen DEF A1
  <2>3. CASE x # h.dst
    <3>1. PICK m \in Messages, q \in Procs : m = h.msg /\ q = h.dst
      BY <1>2, <1>5
    <3>2. Deliver(q, m) /\ m.cmd = "NTFY_MSG" /\ m.src \in Procs
      BY <1>1, <1>2, <1>5, <1>6, <3>1
    <3> HIDE DEF h
    <3>3. /\ \A r \in Procs : r # q => got'[r] = got[r]
          /\ taken'[q][m.src] = taken[q][m.src]
          /\ \A r, s \in Procs : r # q \/ s # m.src => taken'[r][s] = taken[r][s]
      BY <3>2, DeliverFields
    <3>4. \A r \in Procs : taken'[r][x] = taken[r][x]
      BY <3>2, <3>3
    <3>5. QED
      BY <1>1, <1>2, <1>3, <2>1, <2>3, <3>1, <3>3, <3>4, QuietSeen
  <2>4. QED
    BY <2>2, <2>3
<1>7. CASE Change(k[2], h.dst, A2) /\ UNCHANGED <<got, taken>>
  <2> HIDE DEF d, noted
  <2>1. /\ A2.rts = d.rts /\ A2.getfrom = d.getfrom /\ A2.sendto = d.sendto
        /\ A2.sem = d.sem /\ A2.rcode = d.rcode /\ A2.rmtcmd = d.rmtcmd
    BY <1>4 DEF Descriptors
  <2> HIDE DEF A2
  <2>2. /\ desc'[k[2]][h.dst] = A2
        /\ \A m \in Nodes, q \in Procs : m # k[2] \/ q # h.dst => desc'[m][q] = desc[m][q]
    BY <1>2, <1>3, <1>7, OneChanged
  <2>3. SameThread(x) /\ SameTaken(x) /\ got'[x] = got[x]
    BY <1>1, <1>7 DEF SameThread, SameTaken
  <2> HIDE DEF h
  <2>4. CASE x = h.dst
    <3>1. k[2] = l[1] /\ desc'[l[2]][x] = desc[l[2]][x]
      BY <1>2, <1>3, <2>2, <2>4
    <3>2. SameLocal(l, x) /\ SameImage(l, x)
      BY <2>1, <2>2, <2>4, <3>1, SameDescs DEF SameLocal, Local, d
    <3>3. QED
      BY <1>2, <2>3, <3>2 DEF Shaped, Quiet
  <2>5. CASE x # h.dst
    BY <1>1, <1>2, <1>3, <1>7, <2>2, <2>5, QuietSeen
  <2>6. QED
    BY <2>4, <2>5
<1>8. QED
  BY <1>1, <1>6, <1>7

LEMMA AckSeen ==
    ASSUME IInv, AllLawful, NEW k \in Links, Put2lclAck(k),
           NEW l \in Links, NEW x \in Procs, Home[x] = l[1]
    PROVE  Shaped(l, x)
<1> DEFINE h == Header(k)
           d == desc[k[2]][h.dst]
           waits == "SENDING" \in d.rts /\ d.sendto = h.src
           A == IF waits THEN Wake(EndSend(d), h.rcode) ELSE d
<1>1. /\ Arrives(k) /\ UNCHANGED <<pc, call, ret, got, taken>> /\ h.cmd = "SEND_ACK"
      /\ Change(k[2], h.dst, A)
  BY DEF Put2lclAck, Accepted, Change
<1>2. /\ h.src \in Procs /\ h.dst \in Procs /\ Home[h.dst] = k[2] /\ h.rcode \in {"OK", "error"}
      /\ h.cmd \notin MsgCmds => h \in Acks(h.dst)
      /\ net[k] # <<>> /\ net'[k] = Tail(net[k]) /\ NoMore(l, x)
  BY <1>1, ArrivingFacts
<1>3. /\ l[1] \in Nodes /\ l[2] \in Nodes /\ l[1] # l[2] /\ (k = l \/ k = Back(l))
      /\ Back(l)[1] = l[2] /\ Back(l)[2] = l[1] /\ k[2] \in Nodes
  BY EndFacts, LinkFacts
<1>4. d \in Descriptors /\ h \in Acks(h.dst)
  BY <1>1, <1>2, <1>3 DEF IInv, DescsFit, MsgCmds
<1> HIDE DEF d, waits, A
<1>5. /\ desc'[k[2]][h.dst] = A
      /\ \A m \in Nodes, q \in Procs : m # k[2] \/ q # h.dst => desc'[m][q] = desc[m][q]
  BY <1>1, <1>2, <1>3, OneChanged
<1>6. SameThread(x) /\ SameTaken(x) /\ got'[x] = got[x]
  BY <1>1 DEF SameThread, SameTaken
<1> HIDE DEF h
<1>7. CASE x = h.dst /\ waits
  <2>1. k = Back(l) /\ k[2] = l[1] /\ desc'[l[2]][x] = desc[l[2]][x]
    BY <1>2, <1>3, <1>5, <1>7, LinkFacts
  <2>2. LET e == EndSend(d)
        IN  /\ e \in Descriptors
            /\ e.rts = d.rts \ {"SENDING"} /\ e.sendto = NONE /\ e.getfrom = d.getfrom
            /\ e.sem = d.sem /\ e.rcode = d.rcode /\ e.rmtcmd = d.rmtcmd
    BY <1>4, EndSendFields
  <2>3. LET e == EndSend(d)
            w == Wake(e, h.rcode)
        IN  /\ w.rts = e.rts /\ w.sendto = e.sendto /\ w.getfrom = e.getfrom
            /\ w.rmtcmd = e.rmtcmd /\ Woken(e, w, h.rcode)
    BY <1>2, <2>2, WakeFields
  <2>4. /\ A.rts = d.rts \ {"SENDING"} /\ A.sendto = NONE /\ A.getfrom = d.getfrom
        /\ A.rmtcmd = d.rmtcmd /\ Woken(d, A, h.rcode)
    BY <1>7, <2>2, <2>3 DEF Woken, A
  <2>5. IsTold(l, x)
    BY <1>2, <1>4, <1>5, <1>6, <1>7, <2>1, <2>4, SameDescs DEF IsTold, Local, h, d, waits
  <2>6. QED
    BY <2>5 DEF Shaped
<1>8. CASE x = h.dst /\ ~waits
  <2>1. desc'[k[2]][h.dst] = desc[k[2]][h.dst]
    BY <1>5, <1>8 DEF A, d
  <2>2. QED
    BY <1>1, <1>2, <1>3, <1>5, <1>8, <2>1, QuietSeen
<1>9. CASE x # h.dst
  BY <1>1, <1>2, <1>3, <1>5, <1>9, QuietSeen
<1>10. QED
  BY <1>7, <1>8, <1>9

-----------------------------------------------------------------------------
(* Every step has one of the shapes for every process *)

LEMMA CallSeen ==
    ASSUME IInv, NEW p \in Procs, NEW d \in Procs,
           Send(p, d) \/ Sendrec(p, d) \/ Notify(p, d) \/ Reply(p, d)
    PROVE  \E op \in RemoteCalls :
              /\ Remote(p, op, d, Cmd(op), Answers(p, op, d))
              /\ op = "reply" => owed[p][d] > 0
              /\ owed' = IF op = "reply" THEN [owed EXCEPT ![p][d] = 0] ELSE owed
<1>1. CASE Send(p, d)
  <2>1. /\ Remote(p, "send", d, Cmd("send"), Answers(p, "send", d)) /\ UNCHANGED owed
    BY <1>1 DEF Send, Cmd, Answers
  <2>2. QED
    BY <2>1 DEF RemoteCalls
<1>2. CASE Sendrec(p, d)
  <2>1. /\ Remote(p, "sendrec", d, Cmd("sendrec"), Answers(p, "sendrec", d)) /\ UNCHANGED owed
    BY <1>2 DEF Sendrec, Cmd, Answers
  <2>2. QED
    BY <2>1 DEF RemoteCalls
<1>3. CASE Notify(p, d)
  <2>1. /\ Remote(p, "notify", d, Cmd("notify"), Answers(p, "notify", d)) /\ UNCHANGED owed
    BY <1>3 DEF Notify, Cmd, Answers
  <2>2. QED
    BY <2>1 DEF RemoteCalls
<1>4. CASE Reply(p, d)
  <2>1. /\ Remote(p, "reply", d, Cmd("reply"), Answers(p, "reply", d))
        /\ owed[p][d] > 0 /\ owed' = [owed EXCEPT ![p][d] = 0]
    BY <1>4 DEF Reply, Cmd, Answers
  <2>2. QED
    BY <2>1 DEF RemoteCalls
<1>5. QED
  BY <1>1, <1>2, <1>3, <1>4

LEMMA EveryStepShaped ==
    ASSUME IInv, AllLawful, [Next]_vars, NEW l \in Links, NEW x \in Procs, Home[x] = l[1]
    PROVE  Shaped(l, x)
<1>1. ASSUME NEW p \in Procs, NEW d \in Procs,
             Send(p, d) \/ Sendrec(p, d) \/ Notify(p, d) \/ Reply(p, d)
      PROVE  Shaped(l, x)
  BY <1>1, CallSeen, RemoteSeen
<1>2. ASSUME NEW p \in Procs, NEW s \in Sources[p], Receive(p, s)
      PROVE  Shaped(l, x)
  BY <1>2, ReceiveNotifySeen, ReceiveTakeSeen, ReceiveBlockSeen DEF Receive, ReceiveNow
<1>3. ASSUME NEW p \in Procs, Process(p)
      PROVE  Shaped(l, x)
  BY <1>1, <1>2, <1>3, CallDoneSeen, ReceiveDoneSeen, ExpireSeen DEF Process, Calling, Continue
<1>4. ASSUME NEW k \in Links, Get2rmt(k)
      PROVE  Shaped(l, x)
  <2>1. CASE Get2rmtLook(k) \/ Get2rmtSleep(k) \/ Get2rmtTake(k)
    BY <2>1, UnmovedSeen DEF Get2rmtLook, Get2rmtSleep, Get2rmtTake
  <2>2. QED
    BY <1>4, <2>1, DispatchSeen DEF Get2rmt
<1>5. ASSUME NEW k \in Links, Put2lcl(k)
      PROVE  Shaped(l, x)
  BY <1>5, DeniedSeen, DroppedSeen, DeliverSeen, QueueSeen, NotifySeen, AckSeen DEF Put2lcl
<1>6. CASE UNCHANGED vars
  BY <1>6, UnmovedSeen DEF vars
<1>7. QED
  BY <1>3, <1>4, <1>5, <1>6 DEF Next

-----------------------------------------------------------------------------
(* Commands and messages are lawful *)

LEMMA LinkOf ==
    ASSUME NEW p \in Procs
    PROVE  /\ \E l \in Links : Home[p] = l[1]
           /\ \A n \in Nodes : Home[p] # n => \E l \in Links : Home[p] = l[1] /\ n = l[2]
<1>1. PICK a \in Nodes, b \in Nodes : a # b /\ Nodes = {a, b}
  BY NodesAssumption
<1>2. <<a, b>> \in Links /\ <<b, a>> \in Links
  BY <1>1 DEF Links
<1>3. Home[p] \in Nodes
  BY HomeAssumption
<1>4. CASE Home[p] = a
  BY <1>1, <1>2, <1>4
<1>5. CASE Home[p] = b
  BY <1>1, <1>2, <1>5
<1>6. QED
  BY <1>1, <1>3, <1>4, <1>5

\* What a step does to the connection of l.
NetStep(l) ==
    \/ net'[l] = net[l]
    \/ net[l] # <<>> /\ net'[l] = Tail(net[l])
    \/ LET c == desc[l[1]][sproxy[l].xpp].rmtcmd
       IN  /\ sproxy[l].at = "taken" /\ sproxy[l].xpp \in Procs
           /\ c.cmd # "NONE" /\ net'[l] = Append(net[l], c)
           /\ UNCHANGED taken

LEMMA EveryNetStep ==
    ASSUME IInv, [Next]_vars, NEW l \in Links
    PROVE  NetStep(l)
<1>1. ASSUME NEW p \in Procs, Process(p) PROVE UNCHANGED net
  BY <1>1 DEF Process, Calling, Continue, Receive, ReceiveNow, Send, Sendrec, Notify, Reply,
       Remote, ReceiveNotify, ReceiveTake, ReceiveBlock, CallDone, ReceiveDone, Expire, wires
<1>2. ASSUME NEW k \in Links, Get2rmt(k) PROVE NetStep(l)
  <2>1. CASE Get2rmtDispatch(k)
    <3>1. /\ sproxy[k].at = "taken" /\ sproxy[k].xpp \in Procs
          /\ LET c == desc[k[1]][sproxy[k].xpp].rmtcmd
             IN  IF c.cmd # "NONE" THEN net' = [net EXCEPT ![k] = Append(@, c)]
                 ELSE UNCHANGED net
      BY <2>1, DispatchEffect DEF Dispatches
    <3>2. UNCHANGED taken
      BY <2>1 DEF Get2rmtDispatch
    <3>3. QED
      BY <3>1, <3>2, NetTyped DEF NetStep
  <2>2. CASE Get2rmtLook(k) \/ Get2rmtSleep(k) \/ Get2rmtTake(k)
    BY <2>2 DEF Get2rmtLook, Get2rmtSleep, Get2rmtTake, NetStep
  <2>3. QED
    BY <1>2, <2>1, <2>2 DEF Get2rmt
<1>3. ASSUME NEW k \in Links, Put2lcl(k) PROVE NetStep(l)
  <2>1. Arrives(k)
    BY <1>3 DEF Put2lcl, Put2lclDenied, Put2lclDropped, Put2lclDeliver, Put2lclQueue,
                Put2lclNotify, Put2lclAck, Accepted
  <2>2. QED
    BY <2>1, NetTyped DEF Arrives, NetStep
<1>4. CASE UNCHANGED vars
  BY <1>4 DEF vars, NetStep
<1>5. QED
  BY <1>1, <1>2, <1>3, <1>4 DEF Next, NetStep

\* Where the command and the message of a process come from.
LEMMA LocalCommand ==
    ASSUME NEW l \in Links, NEW p \in Procs, Shaped(l, p)
    PROVE  LET d == Local(l, p)
               e == Local(l, p)'
           IN  \/ e.rmtcmd = d.rmtcmd
               \/ e.rmtcmd.cmd = "NONE"
               \/ \E op \in RemoteCalls, q \in Procs : Begins(l, p, op, q)
<1>1. CASE Quiet(l, p) \/ Receives(l, p) \/ GivesUp(l, p)
  BY <1>1 DEF Quiet, Receives, GivesUp, SameLocal
<1>2. CASE Delivered(l, p) \/ Refused(l, p) \/ Queues(l, p)
  BY <1>2 DEF Delivered, Refused, Queues, Arriving, SameLocal
<1>3. CASE Awaiting(l, p) \/ Finishes(l, p) \/ Hears(l, p) \/ IsTold(l, p)
  BY <1>3 DEF Awaiting, Finishes, Hears, IsTold
<1>4. CASE Departs(l, p) \/ IsReadied(l, p)
  BY <1>4 DEF Departs, IsReadied
<1>5. CASE AckDeparts(l, p) \/ IsCleared(l, p)
  BY <1>5 DEF AckDeparts, IsCleared, SameLocal
<1>6. ASSUME NEW q \in Procs, IsTaken(l, p, q)
      PROVE  Local(l, p)'.rmtcmd = Local(l, p).rmtcmd
  BY <1>6 DEF IsTaken, SameLocal
<1>7. ASSUME NEW q \in Procs, NEW op \in RemoteCalls, IsCalled(l, p, q, op)
      PROVE  Local(l, p)'.rmtcmd = Local(l, p).rmtcmd
  BY <1>7 DEF IsCalled, SameLocal
<1>8. QED
  BY <1>1, <1>2, <1>3, <1>4, <1>5, <1>6, <1>7 DEF Shaped

LEMMA ImageCommand ==
    ASSUME NEW l \in Links, NEW p \in Procs, Shaped(l, p)
    PROVE  LET d == Image(l, p)
               e == Image(l, p)'
           IN  \/ e.rmtcmd = d.rmtcmd
               \/ e.rmtcmd.cmd = "NONE"
               \/ e.rmtcmd.cmd = "SEND_ACK" /\ e.rmtcmd.dst = p
<1>1. CASE Quiet(l, p) \/ Receives(l, p) \/ GivesUp(l, p)
  BY <1>1 DEF Quiet, Receives, GivesUp, SameImage
<1>2. CASE Delivered(l, p) \/ Refused(l, p) \/ Queues(l, p)
  BY <1>2 DEF Delivered, Refused, Queues
<1>3. CASE Awaiting(l, p) \/ Finishes(l, p) \/ Hears(l, p) \/ IsTold(l, p)
  BY <1>3 DEF Awaiting, Finishes, Hears, IsTold, SameImage
<1>4. CASE Departs(l, p) \/ IsReadied(l, p)
  BY <1>4 DEF Departs, IsReadied, SameImage
<1>5. CASE AckDeparts(l, p) \/ IsCleared(l, p)
  BY <1>5 DEF AckDeparts, IsCleared
<1>6. ASSUME NEW q \in Procs, IsTaken(l, p, q)
      PROVE  \/ Image(l, p)'.rmtcmd = Image(l, p).rmtcmd
             \/ Image(l, p)'.rmtcmd.cmd = "SEND_ACK" /\ Image(l, p)'.rmtcmd.dst = p
  BY <1>6 DEF IsTaken
<1>7. ASSUME NEW q \in Procs, NEW op \in RemoteCalls, IsCalled(l, p, q, op)
      PROVE  Image(l, p)'.rmtcmd = Image(l, p).rmtcmd
  BY <1>7 DEF IsCalled
<1>8. ASSUME NEW q \in Procs, NEW op \in RemoteCalls, Begins(l, p, op, q)
      PROVE  Image(l, p)'.rmtcmd = Image(l, p).rmtcmd
  BY <1>8 DEF Begins, SameImage
<1>9. QED
  BY <1>1, <1>2, <1>3, <1>4, <1>5, <1>6, <1>7, <1>8 DEF Shaped

\* The message an image has queued.
LEMMA ImageMessage ==
    ASSUME NEW l \in Links, NEW p \in Procs, Shaped(l, p), "SENDING" \in Image(l, p)'.rts
    PROVE  LET d == Image(l, p)
               e == Image(l, p)'
           IN  \/ "SENDING" \in d.rts /\ e.message = d.message
               \/ "SENDING" \in d.rts /\ e.message \in Messages /\ e.message.cmd = "NTFY_MSG"
               \/ Queues(l, p)
<1>1. CASE Quiet(l, p) \/ Receives(l, p) \/ GivesUp(l, p)
  BY <1>1 DEF Quiet, Receives, GivesUp, SameImage
<1>2. CASE Delivered(l, p) \/ Refused(l, p)
  BY <1>2 DEF Delivered, Refused
<1>3. CASE Awaiting(l, p) \/ Finishes(l, p) \/ Hears(l, p) \/ IsTold(l, p)
  BY <1>3 DEF Awaiting, Finishes, Hears, IsTold, SameImage
<1>4. CASE Departs(l, p) \/ IsReadied(l, p)
  BY <1>4 DEF Departs, IsReadied, SameImage
<1>5. CASE AckDeparts(l, p) \/ IsCleared(l, p)
  BY <1>5 DEF AckDeparts, IsCleared
<1>6. ASSUME NEW q \in Procs, IsTaken(l, p, q)
      PROVE  FALSE
  BY <1>6 DEF IsTaken
<1>7. ASSUME NEW q \in Procs, NEW op \in RemoteCalls, IsCalled(l, p, q, op)
      PROVE  /\ "SENDING" \in Image(l, p).rts
             /\ \/ Image(l, p)'.message = Image(l, p).message
                \/ Image(l, p)'.message \in Messages /\ Image(l, p)'.message.cmd = "NTFY_MSG"
  BY <1>7 DEF IsCalled
<1>8. ASSUME NEW q \in Procs, NEW op \in RemoteCalls, Begins(l, p, op, q)
      PROVE  "SENDING" \in Image(l, p).rts /\ Image(l, p)'.message = Image(l, p).message
  BY <1>8 DEF Begins, SameImage
<1>9. QED
  BY <1>1, <1>2, <1>3, <1>4, <1>5, <1>6, <1>7, <1>8 DEF Shaped

LEMMA MailLawful ==
    ASSUME AllLawful, NEW l \in Links, net[l] # <<>>, Header(l) \in Mail(Header(l).src),
           Header(l) \in ToSet(net[l])
    PROVE  Header(l).msg.src = Header(l).src /\ Header(l).msg.cmd = Header(l).cmd
BY DEF AllLawful, Lawful, Mail

LEMMA LabelledStep ==
    ASSUME IInv, AllLawful, NEW l \in Links, NEW x \in Procs, Home[x] = l[1], Shaped(l, x)
    PROVE  Labelled(l[1], x)' /\ Labelled(l[2], x)'
<1> DEFINE d == Local(l, x)
           e == Local(l, x)'
           i == Image(l, x)
           j == Image(l, x)'
<1>1. /\ l[1] \in Nodes /\ l[2] \in Nodes /\ Home[x] # l[2]
      /\ Labelled(l[1], x) /\ Labelled(l[2], x)
  BY EndFacts DEF AllLawful
<1>2. Lawful(e.rmtcmd) /\ (e.rmtcmd.cmd \in MsgCmds => e.rmtcmd.src = x)
      /\ e.rmtcmd.cmd # "SEND_ACK"
  <2>1. CASE e.rmtcmd = d.rmtcmd
    BY <1>1, <2>1 DEF Labelled, Local
  <2>2. CASE e.rmtcmd.cmd = "NONE"
    BY <2>2 DEF Lawful, MsgCmds
  <2>3. ASSUME NEW op \in RemoteCalls, NEW q \in Procs, Begins(l, x, op, q)
        PROVE  Lawful(e.rmtcmd) /\ e.rmtcmd.src = x /\ e.rmtcmd.cmd # "SEND_ACK"
    <3>1. e.rmtcmd = Commanding(x, op, q) /\ op \in DvkAllowed[x] /\ q \in IpcTo[x]
      BY <2>3 DEF Begins
    <3> HIDE DEF e
    <3>2. QED
      BY <3>1, CmdFacts DEF Lawful, Commanding, MsgCmds
  <2>4. QED
    BY <2>1, <2>2, <2>3, LocalCommand
<1>3. Lawful(j.rmtcmd) /\ j.rmtcmd.cmd \notin MsgCmds
      /\ (j.rmtcmd.cmd = "SEND_ACK" => j.rmtcmd.dst = x)
  <2>1. CASE j.rmtcmd = i.rmtcmd
    BY <1>1, <2>1 DEF Labelled, Image
  <2>2. CASE j.rmtcmd.cmd = "NONE" \/ (j.rmtcmd.cmd = "SEND_ACK" /\ j.rmtcmd.dst = x)
    BY <2>2 DEF Lawful, MsgCmds
  <2>3. QED
    BY <2>1, <2>2, ImageCommand
<1>4. "SENDING" \in j.rts => j.message \in Messages
                             /\ (j.message.cmd # "NTFY_MSG" => j.message.src = x)
  <2> SUFFICES ASSUME "SENDING" \in j.rts
               PROVE  j.message \in Messages /\ (j.message.cmd # "NTFY_MSG" => j.message.src = x)
    OBVIOUS
  <2>1. CASE "SENDING" \in i.rts /\ j.message = i.message
    BY <1>1, <2>1 DEF Labelled, Image
  <2>2. CASE j.message \in Messages /\ j.message.cmd = "NTFY_MSG"
    BY <2>2
  <2>3. CASE Queues(l, x)
    <3>1. /\ net[l] # <<>> /\ Header(l) \in Mail(x) /\ j.message = Header(l).msg
      BY <2>3 DEF Queues, Arriving
    <3>2. Header(l).src = x /\ Header(l).cmd \in MsgCmds /\ Header(l) \in ToSet(net[l])
      BY <3>1, NetTyped, ToSetTail DEF Mail, Header
    <3>3. Header(l).msg.src = x /\ Header(l).msg \in Messages
      BY <3>1, <3>2, MailLawful, HeaderFacts DEF IInv
    <3>4. QED
      BY <3>1, <3>3
  <2>4. QED
    BY <2>1, <2>2, <2>3, ImageMessage
<1>5. QED
  BY <1>1, <1>2, <1>3, <1>4 DEF Labelled, Local, Image, MsgCmds

LEMMA LawfulStep ==
    ASSUME IInv, AllLawful, [Next]_vars
    PROVE  AllLawful'
<1>1. ASSUME NEW n \in Nodes, NEW x \in Procs PROVE Labelled(n, x)'
  <2>1. PICK l \in Links : Home[x] = l[1]
    BY LinkOf
  <2>2. Labelled(l[1], x)' /\ Labelled(l[2], x)'
    BY <2>1, EveryStepShaped, LabelledStep
  <2>3. n = l[1] \/ n = l[2]
    BY LinkFacts
  <2>4. QED
    BY <2>2, <2>3
<1>2. ASSUME NEW l \in Links, NEW c \in ToSet(net'[l]) PROVE Lawful(c)
  <2>1. net[l] \in Seq(Commands) /\ l[1] \in Nodes
    BY NetTyped, LinkFacts
  <2>2. CASE net'[l] = net[l]
    BY <1>2, <2>2 DEF AllLawful
  <2>3. CASE net[l] # <<>> /\ net'[l] = Tail(net[l])
    BY <1>2, <2>1, <2>3, ToSetTail DEF AllLawful
  <2>4. ASSUME NEW y \in Procs, net'[l] = Append(net[l], desc[l[1]][y].rmtcmd)
        PROVE  Lawful(c)
    <3>1. Lawful(desc[l[1]][y].rmtcmd) /\ desc[l[1]][y].rmtcmd \in Commands
      BY <2>1 DEF AllLawful, Labelled, IInv, DescsFit, Descriptors
    <3>2. QED
      BY <1>2, <2>1, <2>4, <3>1, ToSetAppend DEF AllLawful
  <2>5. QED
    BY <2>2, <2>3, <2>4, EveryNetStep DEF NetStep
<1>3. QED
  BY <1>1, <1>2 DEF AllLawful, Lawful

LEMMA LawfulInit ==
    ASSUME Init
    PROVE  AllLawful
BY LinkFacts DEF Init, AllLawful, Labelled, Lawful, Clean, NoCommand, MsgCmds, ToSet

-----------------------------------------------------------------------------
(* The numbers of the messages of p, from those taken back to the last call: *)
(* each stage has lower numbers than the ones behind it.                     *)

Arrived(p) == UNION {ToSet(taken[q][p]) : q \in Procs}
Parked(d) ==                     \* d is the image of p
    IF "SENDING" \in d.rts /\ d.message.cmd # "NTFY_MSG" THEN {d.message.n} ELSE {}
Flying(p, l) == {c.msg.n : c \in MailOf(l, p)}
Posted(d) ==                     \* d is the LOCAL descriptor of p
    IF d.rmtcmd.cmd \in MsgCmds THEN {d.rmtcmd.msg.n} ELSE {}

Below(A, B) == \A a \in A, b \in B : a < b
Chained(A, B, C, D, n) ==
    /\ Below(A, B) /\ Below(A, C) /\ Below(A, D) /\ Below(B, C) /\ Below(B, D) /\ Below(C, D)
    /\ \A x \in A \cup B \cup C \cup D : x \in Nat /\ x <= n

Rising(s) == \A i, j \in DOMAIN s : i < j => s[i] < s[j]
InOrder(s, S) ==
    \A i, j \in DOMAIN s : i < j /\ s[i] \in S /\ s[j] \in S => s[i].msg.n < s[j].msg.n

Chain(l, p) ==
    /\ Chained(Arrived(p), Parked(Image(l, p)), Flying(p, l), Posted(Local(l, p)), call[p].n)
    /\ InOrder(net[l], Mail(p))
    /\ \A q \in Procs : Rising(taken[q][p])
Chains == \A l \in Links, p \in Procs : Home[p] = l[1] => Chain(l, p)

\* Messages are lost, ...
LEMMA ChainShrinks ==
    ASSUME NEW A, NEW B, NEW C, NEW D, NEW n \in Nat, Chained(A, B, C, D, n),
           NEW A2, NEW B2, NEW C2, NEW D2, NEW n2 \in Nat, n <= n2,
           A2 \subseteq A, B2 \subseteq B, C2 \subseteq C, D2 \subseteq D
    PROVE  Chained(A2, B2, C2, D2, n2)
BY DEF Chained, Below

\* ... a call is made, its command leaves, ...
LEMMA ChainBegins ==
    ASSUME NEW A, NEW B, NEW C, NEW D, NEW n \in Nat, Chained(A, B, C, D, n),
           NEW A2, NEW B2, NEW C2,
           A2 \subseteq A, B2 \subseteq B, C2 \subseteq C
    PROVE  Chained(A2, B2, C2, {n + 1}, n + 1)
BY DEF Chained, Below

LEMMA ChainDeparts ==
    ASSUME NEW A, NEW B, NEW C, NEW D, NEW n \in Nat, Chained(A, B, C, D, n),
           NEW A2, NEW B2, NEW C2,
           A2 \subseteq A, B2 \subseteq B, C2 \subseteq C \cup D
    PROVE  Chained(A2, B2, C2, {}, n)
BY DEF Chained, Below

\* ... it queues, it is taken from the queue, or it is delivered.
LEMMA ChainQueues ==
    ASSUME NEW A, NEW C, NEW D, NEW n \in Nat, Chained(A, {}, C, D, n),
           NEW A2, NEW C2, NEW m \in C, Below({m}, C2),
           A2 \subseteq A, C2 \subseteq C
    PROVE  Chained(A2, {m}, C2, D, n)
BY DEF Chained, Below

LEMMA ChainTaken ==
    ASSUME NEW A, NEW B, NEW C, NEW D, NEW n \in Nat, Chained(A, B, C, D, n),
           NEW A2, NEW C2,
           A2 \subseteq A \cup B, C2 \subseteq C
    PROVE  Chained(A2, {}, C2, D, n)
BY DEF Chained, Below

LEMMA ChainDelivered ==
    ASSUME NEW A, NEW C, NEW D, NEW n \in Nat, Chained(A, {}, C, D, n),
           NEW A2, NEW C2, NEW m \in C, Below({m}, C2),
           A2 \subseteq A \cup {m}, C2 \subseteq C
    PROVE  Chained(A2, {}, C2, D, n)
BY DEF Chained, Below

LEMMA RisingAppend ==
    ASSUME NEW s \in Seq(Nat), Rising(s), NEW n \in Nat, Below(ToSet(s), {n})
    PROVE  Rising(Append(s, n))
<1>1. SUFFICES ASSUME NEW i \in DOMAIN Append(s, n), NEW j \in DOMAIN Append(s, n), i < j
               PROVE  Append(s, n)[i] < Append(s, n)[j]
  BY DEF Rising
<1>2. DOMAIN Append(s, n) = 1 .. Len(s) + 1 /\ DOMAIN s = 1 .. Len(s) /\ Len(s) \in Nat
  OBVIOUS
<1>3. i \in 1 .. Len(s) /\ Append(s, n)[i] = s[i]
  BY <1>1, <1>2
<1>4. CASE j \in 1 .. Len(s)
  BY <1>1, <1>2, <1>3, <1>4 DEF Rising
<1>5. CASE j = Len(s) + 1
  <2>1. Append(s, n)[j] = n
    BY <1>5
  <2>2. s[i] \in ToSet(s)
    BY <1>2, <1>3 DEF ToSet
  <2>3. QED
    BY <1>3, <2>1, <2>2 DEF Below
<1>6. QED
  BY <1>1, <1>2, <1>4, <1>5

\* The messages of p in a connection that moves.
LEMMA InOrderTail ==
    ASSUME NEW S, NEW s \in Seq(Commands), s # <<>>, InOrder(s, S)
    PROVE  /\ InOrder(Tail(s), S)
           /\ Head(s) \in S => Below({Head(s).msg.n}, {c.msg.n : c \in ToSet(Tail(s)) \cap S})
<1>1. /\ DOMAIN s = 1 .. Len(s) /\ Len(s) \in Nat \ {0} /\ Head(s) = s[1]
      /\ DOMAIN Tail(s) = 1 .. Len(s) - 1
      /\ \A i \in DOMAIN Tail(s) : Tail(s)[i] = s[i + 1] /\ i + 1 \in DOMAIN s
  OBVIOUS
<1> DEFINE t == Tail(s)
<1>2. t = Tail(s)
  OBVIOUS
<1> HIDE DEF t
<1>3. InOrder(t, S)
  BY <1>1, <1>2 DEF InOrder
<1>4. ASSUME Head(s) \in S, NEW c \in ToSet(t) \cap S PROVE Head(s).msg.n < c.msg.n
  <2>1. PICK i \in DOMAIN t : c = t[i]
    BY <1>4 DEF ToSet
  <2>2. 1 \in DOMAIN s /\ i + 1 \in DOMAIN s /\ 1 < i + 1 /\ c = s[i + 1]
    BY <1>1, <1>2, <2>1
  <2>3. QED
    BY <1>1, <1>4, <2>2 DEF InOrder
<1>5. QED
  BY <1>2, <1>3, <1>4 DEF Below

LEMMA InOrderAppend ==
    ASSUME NEW S, NEW s \in Seq(Commands), InOrder(s, S), NEW c \in Commands,
           c \in S => Below({x.msg.n : x \in ToSet(s) \cap S}, {c.msg.n})
    PROVE  InOrder(Append(s, c), S)
<1>1. /\ DOMAIN s = 1 .. Len(s) /\ Len(s) \in Nat
      /\ DOMAIN Append(s, c) = 1 .. Len(s) + 1
      /\ \A i \in DOMAIN s : Append(s, c)[i] = s[i]
      /\ Append(s, c)[Len(s) + 1] = c
  OBVIOUS
<1> DEFINE t == Append(s, c)
<1> HIDE DEF t
<1>2. SUFFICES ASSUME NEW i \in DOMAIN t, NEW j \in DOMAIN t, i < j, t[i] \in S, t[j] \in S
               PROVE  t[i].msg.n < t[j].msg.n
  BY DEF InOrder, t
<1>3. i \in DOMAIN s /\ t[i] = s[i] /\ t[i] \in ToSet(s)
  <2>1. i \in DOMAIN s /\ t[i] = s[i]
    BY <1>1, <1>2 DEF t
  <2>2. QED
    BY <2>1 DEF ToSet
<1>4. CASE j \in DOMAIN s
  BY <1>1, <1>2, <1>3, <1>4 DEF InOrder, t
<1>5. CASE j = Len(s) + 1
  BY <1>1, <1>2, <1>3, <1>5 DEF Below, t
<1>6. QED
  BY <1>1, <1>2, <1>4, <1>5 DEF t

LEMMA InOrderStep ==
    ASSUME IInv, AllLawful, NEW l \in Links, NEW p \in Procs, Home[p] = l[1], Chain(l, p),
           NetStep(l)
    PROVE  InOrder(net'[l], Mail(p))
<1>1. net[l] \in Seq(Commands) /\ InOrder(net[l], Mail(p))
  BY NetTyped DEF Chain
<1>2. CASE net'[l] = net[l]
  BY <1>1, <1>2
<1>3. CASE net[l] # <<>> /\ net'[l] = Tail(net[l])
  BY <1>1, <1>3, InOrderTail
<1>4. ASSUME NEW y \in Procs, desc[l[1]][y].rmtcmd.cmd # "NONE",
             net'[l] = Append(net[l], desc[l[1]][y].rmtcmd)
      PROVE  InOrder(net'[l], Mail(p))
  <2> DEFINE c == desc[l[1]][y].rmtcmd
  <2>1. c \in Commands /\ Labelled(l[1], y)
    BY LinkFacts DEF AllLawful, IInv, DescsFit, Descriptors
  <2>2. c \in Mail(p) => p = y /\ c = Local(l, p).rmtcmd /\ c.cmd \in MsgCmds
    BY <2>1 DEF Labelled, Mail, Local
  <2>3. c \in Mail(p) => Below(Flying(p, l), {c.msg.n})
    BY <2>2 DEF Chain, Chained, Posted
  <2> HIDE DEF c
  <2>4. c \in Mail(p) => Below({x.msg.n : x \in ToSet(net[l]) \cap Mail(p)}, {c.msg.n})
    BY <2>3 DEF Flying, MailOf
  <2>5. InOrder(Append(net[l], c), Mail(p))
    BY <1>1, <2>1, <2>4, InOrderAppend
  <2>6. QED
    BY <1>4, <2>5 DEF c
<1>5. QED
  BY <1>2, <1>3, <1>4 DEF NetStep

LEMMA ArrivedFacts ==
    ASSUME IInv, NEW p \in Procs
    PROVE  /\ SameTaken(p) => Arrived(p)' = Arrived(p)
           /\ \A q \in Procs, n \in Nat :
                 /\ taken'[q][p] = Append(taken[q][p], n)
                 /\ \A r \in Procs : r # q => taken'[r][p] = taken[r][p]
                 => Arrived(p)' \subseteq Arrived(p) \cup {n}
           /\ \A q \in Procs : ToSet(taken[q][p]) \subseteq Arrived(p)
           /\ \A q \in Procs : taken[q][p] \in Seq(Nat)
<1>1. SameTaken(p) => Arrived(p)' = Arrived(p)
  BY DEF SameTaken, Arrived
<1>2. \A q \in Procs : ToSet(taken[q][p]) \subseteq Arrived(p)
  BY DEF Arrived
<1>3. \A q \in Procs : taken[q][p] \in Seq(Nat)
  BY DEF IInv, RestTyped
<1>4. ASSUME NEW q \in Procs, NEW n \in Nat, taken'[q][p] = Append(taken[q][p], n),
             \A r \in Procs : r # q => taken'[r][p] = taken[r][p]
      PROVE  Arrived(p)' \subseteq Arrived(p) \cup {n}
  <2>1. ToSet(taken'[q][p]) = ToSet(taken[q][p]) \cup {n}
    BY <1>3, <1>4, ToSetAppend
  <2>2. \A r \in Procs : ToSet(taken'[r][p]) \subseteq Arrived(p) \cup {n}
    BY <1>2, <1>4, <2>1
  <2>3. Arrived(p)' = UNION {ToSet(taken'[r][p]) : r \in Procs}
    BY DEF Arrived
  <2>4. QED
    BY <2>2, <2>3
<1>5. QED
  BY <1>1, <1>2, <1>3, <1>4

\* What most steps leave alone.
LEMMA Elsewhere ==
    ASSUME NEW l \in Links, NEW p \in Procs, Shaped(l, p)
    PROVE  /\ SameTaken(p) \/ Delivered(l, p) \/ \E q \in Procs : IsTaken(l, p, q)
           /\ NoMoreMail(l, p) \/ Departs(l, p)
           /\ call'[p].n = call[p].n \/ \E op \in RemoteCalls, q \in Procs : Begins(l, p, op, q)
<1>1. CASE Quiet(l, p)
  BY <1>1 DEF Quiet, NoMore, SameThread
<1>2. CASE Receives(l, p) \/ Awaiting(l, p) \/ GivesUp(l, p) \/ Finishes(l, p)
  BY <1>2 DEF Receives, Awaiting, GivesUp, Finishes, NoMore
<1>3. CASE Hears(l, p) \/ IsTold(l, p)
  BY <1>3 DEF Hears, IsTold, NoMore, SameThread
<1>4. CASE Departs(l, p) \/ IsReadied(l, p)
  BY <1>4 DEF Departs, IsReadied, NoMore, SameThread
<1>5. CASE Delivered(l, p) \/ Refused(l, p) \/ Queues(l, p)
  BY <1>5 DEF Delivered, Refused, Queues, Arriving, NoMore, SameThread
<1>6. CASE AckDeparts(l, p) \/ IsCleared(l, p)
  BY <1>6 DEF AckDeparts, IsCleared, NoMore, SameThread
<1>7. ASSUME NEW q \in Procs, IsTaken(l, p, q)
      PROVE  NoMoreMail(l, p) /\ call'[p].n = call[p].n
  BY <1>7 DEF IsTaken, NoMore, SameThread
<1>8. ASSUME NEW q \in Procs, NEW op \in RemoteCalls, IsCalled(l, p, q, op)
      PROVE  SameTaken(p) /\ NoMoreMail(l, p) /\ call'[p].n = call[p].n
  BY <1>8 DEF IsCalled, NoMore, SameThread
<1>9. ASSUME NEW q \in Procs, NEW op \in RemoteCalls, Begins(l, p, op, q)
      PROVE  SameTaken(p) /\ NoMoreMail(l, p)
  BY <1>9 DEF Begins, NoMore
<1>10. QED
  BY <1>1, <1>2, <1>3, <1>4, <1>5, <1>6, <1>7, <1>8, <1>9 DEF Shaped

LEMMA StagesShrink ==
    ASSUME NEW l \in Links, NEW p \in Procs, Shaped(l, p)
    PROVE  /\ NoMoreMail(l, p) => Flying(p, l)' \subseteq Flying(p, l)
           /\ ~Queues(l, p) => Parked(Image(l, p))' \subseteq Parked(Image(l, p))
           /\ \/ Posted(Local(l, p))' \subseteq Posted(Local(l, p))
              \/ \E op \in RemoteCalls, q \in Procs : Begins(l, p, op, q)
<1>1. NoMoreMail(l, p) => Flying(p, l)' \subseteq Flying(p, l)
  BY DEF NoMoreMail, Flying
<1>2. ~Queues(l, p) => Parked(Image(l, p))' \subseteq Parked(Image(l, p))
  BY ImageMessage DEF Parked
<1>3. \/ Posted(Local(l, p))' \subseteq Posted(Local(l, p))
      \/ \E op \in RemoteCalls, q \in Procs : Begins(l, p, op, q)
  <2>1. CASE Local(l, p)'.rmtcmd = Local(l, p).rmtcmd \/ Local(l, p)'.rmtcmd.cmd = "NONE"
    BY <2>1 DEF Posted, MsgCmds
  <2>2. QED
    BY <2>1, LocalCommand
<1>4. QED
  BY <1>1, <1>2, <1>3

\* A message that arrives is above those of its stage that stay.
LEMMA ArrivingNumber ==
    ASSUME IInv, AllLawful, NEW l \in Links, NEW p \in Procs, Chain(l, p), Arriving(l, p)
    PROVE  LET n == Header(l).msg.n
           IN  n \in Nat /\ n \in Flying(p, l) /\ Below({n}, Flying(p, l)')
<1> DEFINE h == Header(l)
<1>1. net[l] # <<>> /\ net'[l] = Tail(net[l]) /\ h \in Mail(p) /\ net[l] \in Seq(Commands)
  BY NetTyped DEF Arriving
<1>2. h = Head(net[l]) /\ h \in ToSet(net[l])
  BY <1>1, ToSetTail DEF Header
<1>3. h.msg \in Messages
  BY <1>1, HeaderFacts DEF IInv, Mail
<1>4. Below({h.msg.n}, {c.msg.n : c \in ToSet(Tail(net[l])) \cap Mail(p)})
  BY <1>1, <1>2, InOrderTail DEF Chain
<1> HIDE DEF h
<1>5. QED
  BY <1>1, <1>2, <1>3, <1>4 DEF Flying, MailOf, Messages, h

LEMMA ChainStep ==
    ASSUME IInv, IInv', AllLawful, NEW l \in Links, NEW p \in Procs, Home[p] = l[1],
           Chain(l, p), Shaped(l, p), NetStep(l)
    PROVE  Chain(l, p)'
<1> DEFINE A == Arrived(p)
           B == Parked(Image(l, p))
           C == Flying(p, l)
           D == Posted(Local(l, p))
           n == call[p].n
<1>1. Chained(A, B, C, D, n) /\ n \in Nat /\ n' \in Nat
  BY MineFacts DEF Chain, IInv, DescsFit
<1>2. InOrder(net'[l], Mail(p))
  BY InOrderStep
<1>3. /\ SameTaken(p) => A' = A
      /\ NoMoreMail(l, p) => C' \subseteq C
      /\ ~Queues(l, p) => B' \subseteq B
      /\ D' \subseteq D \/ \E op \in RemoteCalls, q \in Procs : Begins(l, p, op, q)
  BY ArrivedFacts, StagesShrink
<1>4. SameTaken(p) => \A q \in Procs : Rising(taken'[q][p])
  BY DEF SameTaken, Chain
<1>5. \A q \in Procs : taken[q][p] \in Seq(Nat) /\ Rising(taken[q][p]) /\ ToSet(taken[q][p]) \subseteq A
  BY ArrivedFacts DEF Chain
<1> SUFFICES Chained(A', B', C', D', n') /\ \A q \in Procs : Rising(taken'[q][p])
  BY <1>2 DEF Chain, Mail, Commands
<1>6. ASSUME NEW op \in RemoteCalls, NEW q \in Procs, Begins(l, p, op, q)
      PROVE  Chained(A', B', C', D', n') /\ SameTaken(p)
  <2>1. /\ SameTaken(p) /\ NoMoreMail(l, p) /\ SameImage(l, p)
        /\ Local(l, p)'.rmtcmd = Commanding(p, op, q) /\ n' = n + 1
    BY <1>6 DEF Begins, NoMore
  <2>2. B' \subseteq B
    BY <2>1 DEF SameImage, Parked
  <2>3. D' = {n + 1}
    BY <2>1, CmdFacts DEF Posted, Commanding
  <2> HIDE DEF A, B, C, D, n
  <2>4. QED
    BY <1>1, <1>3, <2>1, <2>2, <2>3, ChainBegins
<1>7. CASE Departs(l, p)
  <2> DEFINE c == Local(l, p).rmtcmd
  <2>1. /\ SameTaken(p) /\ SameImage(l, p) /\ n' = n
        /\ net'[l] = Append(net[l], c) /\ Local(l, p)'.rmtcmd.cmd = "NONE"
    BY <1>7 DEF Departs, SameThread
  <2>2. net[l] \in Seq(Commands) /\ c \in Commands
    BY NetTyped, EndFacts DEF Local, Descriptors
  <2> HIDE DEF c
  <2>3. ToSet(net'[l]) = ToSet(net[l]) \cup {c}
    BY <2>1, <2>2, ToSetAppend
  <2>4. C' \subseteq C \cup D
    BY <2>3 DEF Flying, MailOf, Posted, Mail, c
  <2>5. D' = {} /\ B' \subseteq B
    BY <2>1 DEF Posted, MsgCmds, SameImage, Parked
  <2> HIDE DEF A, B, C, D, n
  <2>6. Chained(A', B', C', D', n')
    BY <1>1, <1>3, <2>1, <2>4, <2>5, ChainDeparts
  <2>7. QED
    BY <1>4, <2>1, <2>6
<1>8. CASE Delivered(l, p)
  <2> DEFINE h == Header(l)
             m == h.msg.n
  <2>1. /\ Arriving(l, p) /\ Image(l, p).rts \cap {"SENDING", "RMTOPER"} = {}
        /\ taken'[h.dst][p] = Append(taken[h.dst][p], m)
        /\ \A q \in Procs : q # h.dst => taken'[q][p] = taken[q][p]
    BY <1>8 DEF Delivered
  <2>2. m \in Nat /\ m \in C /\ Below({m}, C')
    BY <2>1, ArrivingNumber
  <2>3. net[l] # <<>> /\ h.dst \in Procs
    BY <2>1, HeaderFacts DEF Arriving, IInv
  <2>4. B = {} /\ "SENDING" \notin Image(l, p)'.rts
    BY <1>8, <2>1 DEF Parked, Delivered
  <2>5. B' = {} /\ D' \subseteq D /\ C' \subseteq C /\ n' = n
    BY <1>3, <1>8, <2>1, <2>4 DEF Parked, Arriving, SameLocal, SameThread, NoMore, Posted
  <2>6. A' \subseteq A \cup {m}
    BY <2>1, <2>2, <2>3, ArrivedFacts
  <2> HIDE DEF A, B, C, D, n, h, m
  <2>7. Chained(A, {}, C, D, n) /\ Below(A, {m})
    BY <1>1, <2>2, <2>4 DEF Chained, Below
  <2>8. Chained(A', {}, C', D, n)
    BY <1>1, <2>2, <2>5, <2>6, <2>7, ChainDelivered
  <2>9. Chained(A', B', C', D', n')
    BY <1>1, <2>5, <2>8, ChainShrinks
  <2>10. ASSUME NEW q \in Procs PROVE Rising(taken'[q][p])
    <3>1. Below(ToSet(taken[q][p]), {m})
      BY <1>5, <2>7 DEF Below
    <3>2. QED
      BY <1>5, <2>1, <2>2, <3>1, RisingAppend DEF m
  <2>11. QED
    BY <2>9, <2>10
<1>9. CASE Queues(l, p)
  <2> DEFINE h == Header(l)
             m == h.msg.n
  <2>1. /\ Arriving(l, p) /\ Image(l, p).rts \cap {"SENDING", "RMTOPER"} = {} /\ SameTaken(p)
        /\ Image(l, p)'.message = h.msg
    BY <1>9 DEF Queues
  <2>2. m \in Nat /\ m \in C /\ Below({m}, C')
    BY <2>1, ArrivingNumber
  <2>3. B = {} /\ B' \subseteq {m}
    BY <2>1 DEF Parked
  <2>4. D' \subseteq D /\ C' \subseteq C /\ n' = n
    BY <1>3, <2>1 DEF Arriving, SameLocal, SameThread, NoMore, Posted
  <2> HIDE DEF A, B, C, D, n, h, m
  <2>5. Chained(A', {m}, C', D, n)
    BY <1>1, <1>3, <2>1, <2>2, <2>3, <2>4, ChainQueues
  <2>6. Chained(A', B', C', D', n')
    BY <1>1, <2>3, <2>4, <2>5, ChainShrinks
  <2>7. QED
    BY <1>4, <2>1, <2>6
<1>10. ASSUME NEW q \in Procs, IsTaken(l, p, q)
       PROVE  Chained(A', B', C', D', n') /\ \A r \in Procs : Rising(taken'[r][p])
  <2> DEFINE d == Image(l, p)
             m == d.message.n
  <2>1. /\ "SENDING" \in d.rts /\ SameLocal(l, p) /\ SameThread(p) /\ NoMoreMail(l, p)
        /\ "SENDING" \notin Image(l, p)'.rts
        /\ taken'[q][p] = IF d.message.cmd = "NTFY_MSG" THEN taken[q][p]
                          ELSE Append(taken[q][p], m)
        /\ \A r \in Procs : r # q => taken'[r][p] = taken[r][p]
    BY <1>10 DEF IsTaken, NoMore
  <2>2. B' = {} /\ D' \subseteq D /\ C' \subseteq C /\ n' = n
    BY <1>3, <2>1 DEF Parked, SameLocal, SameThread, Posted
  <2>3. CASE d.message.cmd = "NTFY_MSG"
    <3>1. SameTaken(p)
      BY <2>1, <2>3 DEF SameTaken
    <3> HIDE DEF A, B, C, D, n
    <3>2. Chained(A', B', C', D', n')
      BY <1>1, <1>3, <2>2, <3>1, ChainShrinks
    <3>3. QED
      BY <1>4, <3>1, <3>2
  <2>4. CASE d.message.cmd # "NTFY_MSG"
    <3>1. B = {m}
      BY <2>1, <2>4 DEF Parked
    <3> HIDE DEF A, B, C, D, n, d, m
    <3>2. m \in Nat /\ Below(A, {m})
      BY <1>1, <3>1 DEF Chained, Below
    <3>3. A' \subseteq A \cup B
      BY <2>1, <2>4, <3>1, <3>2, ArrivedFacts DEF A, m
    <3>4. Chained(A', {}, C', D, n)
      BY <1>1, <2>2, <3>3, ChainTaken
    <3>5. Chained(A', B', C', D', n')
      BY <1>1, <2>2, <3>4, ChainShrinks
    <3>6. ASSUME NEW r \in Procs PROVE Rising(taken'[r][p])
      <4>1. Below(ToSet(taken[r][p]), {m})
        BY <1>5, <3>2 DEF Below
      <4>2. QED
        BY <1>5, <2>1, <2>4, <3>2, <4>1, RisingAppend
    <3>7. QED
      BY <3>5, <3>6
  <2>5. QED
    BY <2>3, <2>4
<1>11. CASE /\ ~Departs(l, p) /\ ~Delivered(l, p) /\ ~Queues(l, p)
            /\ ~\E q \in Procs : IsTaken(l, p, q)
            /\ ~\E op \in RemoteCalls, q \in Procs : Begins(l, p, op, q)
  <2>1. SameTaken(p) /\ NoMoreMail(l, p) /\ n' = n
    BY <1>11, Elsewhere
  <2>2. A' \subseteq A /\ B' \subseteq B /\ C' \subseteq C /\ D' \subseteq D
    BY <1>3, <1>11, <2>1
  <2> HIDE DEF A, B, C, D, n
  <2>3. Chained(A', B', C', D', n')
    BY <1>1, <2>1, <2>2, ChainShrinks
  <2>4. QED
    BY <1>4, <2>1, <2>3
<1>12. QED
  BY <1>4, <1>6, <1>7, <1>8, <1>9, <1>10, <1>11

LEMMA ChainsStep ==
    ASSUME IInv, IInv', AllLawful, Chains, [Next]_vars
    PROVE  Chains'
<1>1. ASSUME NEW l \in Links, NEW p \in Procs, Home[p] = l[1] PROVE Chain(l, p)'
  BY <1>1, EveryStepShaped, EveryNetStep, ChainStep DEF Chains
<1>2. QED
  BY <1>1 DEF Chains

LEMMA ChainsInit ==
    ASSUME Init
    PROVE  Chains
<1>1. SUFFICES ASSUME NEW l \in Links, NEW p \in Procs, Home[p] = l[1] PROVE Chain(l, p)
  BY DEF Chains
<1>2. \A q \in Procs : taken[q][p] = <<>>
  BY DEF Init
<1>3. net[l] = <<>> /\ call[p].n = 0
  BY DEF Init
<1>4. Image(l, p) = Clean /\ Local(l, p) = Clean
  BY LinkFacts DEF Init, Image, Local
<1>5. Parked(Image(l, p)) = {} /\ Posted(Local(l, p)) = {}
  BY <1>4 DEF Clean, NoCommand, Parked, Posted, MsgCmds
<1>6. Arrived(p) = {} /\ Flying(p, l) = {}
  BY <1>2, <1>3 DEF Arrived, Flying, MailOf, ToSet
<1>7. InOrder(net[l], Mail(p)) /\ \A q \in Procs : Rising(taken[q][p])
  BY <1>2, <1>3 DEF InOrder, Rising
<1>8. Chained({}, {}, {}, {}, 0)
  BY DEF Chained, Below
<1>9. QED
  BY <1>3, <1>5, <1>6, <1>7, <1>8 DEF Chain

LEMMA ChainsInvariance == Spec => [](IInv /\ AllLawful /\ Chains)
<1>1. Init => AllLawful /\ Chains
  BY LawfulInit, ChainsInit
<1>2. IInv /\ IInv' /\ AllLawful /\ Chains /\ [Next]_vars => AllLawful' /\ Chains'
  BY LawfulStep, ChainsStep
<1>3. QED
  BY <1>1, <1>2, Invariance, PTL DEF Spec

\* The messages of one process to another arrive at most once and in the order
\* of the calls, for any processes, privileges and timeouts: a command may wait
\* at the sender proxy while its process gives up and calls again, a message be
\* refused or dropped, an acknowledgement come late, none overtakes another.
THEOREM InOrderOnce == Spec => []TakenInOrder
<1>1. Chains => TakenInOrder
  <2> SUFFICES ASSUME Chains, NEW p \in Procs, NEW q \in Procs PROVE Rising(taken[q][p])
    BY DEF TakenInOrder, Rising
  <2>1. PICK l \in Links : Home[p] = l[1]
    BY LinkOf
  <2>2. QED
    BY <2>1 DEF Chains, Chain
<1>2. QED
  BY <1>1, ChainsInvariance, PTL

-----------------------------------------------------------------------------
(* The lists                                                                 *)

LEMMA RemoveFacts ==
    ASSUME NEW S, NEW s \in Seq(S), NEW i \in 1 .. Len(s)
    PROVE  LET t == RemoveAt(s, i)
           IN  /\ t \in Seq(S) /\ Len(t) = Len(s) - 1
               /\ \A j \in 1 .. Len(s) - 1 : t[j] = IF j < i THEN s[j] ELSE s[j + 1]
<1> DEFINE a == SubSeq(s, 1, i - 1)
           b == SubSeq(s, i + 1, Len(s))
<1>1. Len(s) \in Nat /\ i \in Nat /\ 1 <= i /\ i <= Len(s)
  OBVIOUS
<1>2. a \in Seq(S) /\ Len(a) = i - 1 /\ \A j \in 1 .. i - 1 : a[j] = s[j]
  BY <1>1
<1>3. b \in Seq(S) /\ Len(b) = Len(s) - i /\ \A j \in 1 .. Len(s) - i : b[j] = s[i + j]
  BY <1>1
<1> HIDE DEF a, b
<1>4. a \o b \in Seq(S) /\ Len(a \o b) = Len(s) - 1
  <2>1. a \o b \in Seq(S) /\ Len(a \o b) = Len(a) + Len(b)
    BY <1>2, <1>3, ConcatProperties
  <2>2. QED
    BY <1>1, <1>2, <1>3, <2>1
<1>5. ASSUME NEW j \in 1 .. Len(s) - 1
      PROVE  (a \o b)[j] = IF j < i THEN s[j] ELSE s[j + 1]
  <2>1. CASE j < i
    BY <1>1, <1>2, <1>3, <2>1
  <2>2. CASE ~(j < i)
    <3>1. (a \o b)[j] = b[j - (i - 1)]
      BY <1>1, <1>2, <1>3, <2>2
    <3>2. j - (i - 1) \in 1 .. Len(s) - i /\ i + (j - (i - 1)) = j + 1
      BY <1>1, <2>2
    <3>3. QED
      BY <1>3, <2>2, <3>1, <3>2
  <2>3. QED
    BY <2>1, <2>2
<1>6. QED
  BY <1>4, <1>5 DEF RemoveAt, a, b

LEMMA InList ==
    ASSUME NEW S, NEW s \in Seq(S), NEW x
    PROVE  x \in ToSet(s) <=> \E i \in 1 .. Len(s) : s[i] = x
BY DEF ToSet

\* LIST_DEL_INIT takes nothing else out of a list, and y altogether where it is
\* linked once.
LEMMA WithoutQueue ==
    ASSUME NEW s \in Seq(Procs), NEW y
    PROVE  /\ \A x : x # y => (x \in ToSet(Without(s, y)) <=> x \in ToSet(s))
           /\ ToSet(Without(s, y)) \subseteq ToSet(s)
           /\ IsInjective(s) => y \notin ToSet(Without(s, y)) /\ IsInjective(Without(s, y))
<1>1. CASE y \notin ToSet(s)
  BY <1>1 DEF Without
<1>2. CASE y \in ToSet(s)
  <2> DEFINE i == CHOOSE i \in DOMAIN s : s[i] = y
             t == RemoveAt(s, i)
  <2>1. i \in 1 .. Len(s) /\ s[i] = y /\ Len(s) \in Nat
    BY <1>2 DEF ToSet
  <2>2. Without(s, y) = t
    BY <1>2 DEF Without
  <2> HIDE DEF i
  <2>3. /\ t \in Seq(Procs) /\ Len(t) = Len(s) - 1
        /\ \A j \in 1 .. Len(s) - 1 : t[j] = IF j < i THEN s[j] ELSE s[j + 1]
    BY <2>1, RemoveFacts
  <2> HIDE DEF t
  <2>4. ToSet(t) \subseteq ToSet(s)
    <3> SUFFICES ASSUME NEW x \in ToSet(t) PROVE x \in ToSet(s)
      OBVIOUS
    <3>1. PICK j \in 1 .. Len(s) - 1 : t[j] = x
      BY <2>3, InList
    <3>2. j \in 1 .. Len(s) /\ j + 1 \in 1 .. Len(s)
      BY <2>1
    <3>3. QED
      BY <2>3, <3>1, <3>2, InList
  <2>5. ASSUME NEW x, x # y, x \in ToSet(s)
        PROVE  x \in ToSet(t)
    <3>1. PICK j \in 1 .. Len(s) : s[j] = x
      BY <2>5, InList
    <3>2. j # i
      BY <2>1, <2>5, <3>1
    <3>3. CASE j < i
      <4>1. j \in 1 .. Len(s) - 1 /\ t[j] = x
        BY <2>1, <2>3, <3>1, <3>3
      <4>2. QED
        BY <2>3, <4>1, InList
    <3>4. CASE j > i
      <4>1. j - 1 \in 1 .. Len(s) - 1 /\ ~(j - 1 < i) /\ (j - 1) + 1 = j
        BY <2>1, <3>1, <3>4
      <4>2. t[j - 1] = x
        BY <2>3, <3>1, <4>1
      <4>3. QED
        BY <2>3, <4>1, <4>2, InList
    <3>5. QED
      BY <2>1, <3>2, <3>3, <3>4
  <2>6. ASSUME IsInjective(s)
        PROVE  y \notin ToSet(t) /\ IsInjective(t)
    <3>1. \A a, b \in 1 .. Len(s) : s[a] = s[b] => a = b
      BY <2>6 DEF IsInjective
    <3>2. ASSUME NEW j \in 1 .. Len(s) - 1
          PROVE  t[j] # y
      <4>1. j \in 1 .. Len(s) /\ j + 1 \in 1 .. Len(s) /\ j + 1 # j
        BY <2>1
      <4>2. CASE j < i
        BY <2>1, <2>3, <3>1, <4>1, <4>2
      <4>3. CASE ~(j < i)
        BY <2>1, <2>3, <3>1, <4>1, <4>3
      <4>4. QED
        BY <4>2, <4>3
    <3>3. ASSUME NEW a \in 1 .. Len(s) - 1, NEW b \in 1 .. Len(s) - 1, t[a] = t[b]
          PROVE  a = b
      <4>1. /\ a \in 1 .. Len(s) /\ a + 1 \in 1 .. Len(s)
            /\ b \in 1 .. Len(s) /\ b + 1 \in 1 .. Len(s)
        BY <2>1
      <4>2. /\ t[a] = IF a < i THEN s[a] ELSE s[a + 1]
            /\ t[b] = IF b < i THEN s[b] ELSE s[b + 1]
        BY <2>3
      <4>3. CASE a < i /\ b < i
        BY <3>1, <3>3, <4>1, <4>2, <4>3
      <4>4. CASE ~(a < i) /\ ~(b < i)
        <5>1. a + 1 = b + 1
          BY <3>1, <3>3, <4>1, <4>2, <4>4
        <5>2. QED
          BY <4>1, <5>1
      <4>5. CASE a < i /\ ~(b < i)
        <5>1. a = b + 1
          BY <3>1, <3>3, <4>1, <4>2, <4>5
        <5>2. QED
          BY <2>1, <4>1, <4>5, <5>1
      <4>6. CASE ~(a < i) /\ b < i
        <5>1. a + 1 = b
          BY <3>1, <3>3, <4>1, <4>2, <4>6
        <5>2. QED
          BY <2>1, <4>1, <4>6, <5>1
      <4>7. QED
        BY <4>3, <4>4, <4>5, <4>6
    <3>4. DOMAIN t = 1 .. Len(s) - 1
      BY <2>3
    <3>5. QED
      BY <2>3, <3>2, <3>3, <3>4, InList DEF IsInjective
  <2>7. QED
    BY <2>2, <2>4, <2>5, <2>6
<1>3. QED
  BY <1>1, <1>2

LEMMA AppendOnce ==
    ASSUME NEW s \in Seq(Procs), NEW y \in Procs, IsInjective(s), y \notin ToSet(s)
    PROVE  IsInjective(Append(s, y))
<1>1. /\ DOMAIN Append(s, y) = 1 .. Len(s) + 1 /\ Len(s) \in Nat
      /\ Append(s, y)[Len(s) + 1] = y
      /\ \A i \in 1 .. Len(s) : Append(s, y)[i] = s[i] /\ s[i] # y
  BY InList
<1>2. \A a, b \in 1 .. Len(s) : s[a] = s[b] => a = b
  BY DEF IsInjective
<1>3. \A i \in 1 .. Len(s) + 1 : i \in 1 .. Len(s) \/ i = Len(s) + 1
  BY <1>1
<1>4. QED
  BY <1>1, <1>2, <1>3 DEF IsInjective

-----------------------------------------------------------------------------
(* What a step does to the descriptor of x on the node of k, that is, to the *)
(* LOCAL one if k leaves the home of x and to its image else, and to its     *)
(* place in the queues of that node.                                         *)

Handled(k, x) == sproxy[k].at = "taken" /\ sproxy[k].xpp = x
Offered(k, x) == sproxy[k].at = "window" /\ sproxy[k].xpp = x
Here(k, x) == desc[k[1]][x]
Pictured(k, x) == Home[x] # k[1]          \* it is an image

CommandKept(k, x) ==
    LET d == Here(k, x)
        e == Here(k, x)'
    IN  /\ "RMTOPER" \in e.rts <=> "RMTOPER" \in d.rts
        /\ e.rmtcmd.cmd = d.rmtcmd.cmd
FlagsKept(k, x) ==
    LET d == Here(k, x)
        e == Here(k, x)'
    IN  /\ CommandKept(k, x)
        /\ Pictured(k, x) => /\ "SENDING" \in e.rts <=> "SENDING" \in d.rts
                             /\ e.sendto = d.sendto
PlaceKept(k, x) ==
    /\ x \in ToSet(outq'[k]) <=> x \in ToSet(outq[k])
    /\ Handled(k, x)' <=> Handled(k, x)
    /\ Offered(k, x)' => Offered(k, x) \/ x \in ToSet(outq[k])
LineKept(k, x) ==
    \A q \in Procs : Home[q] = k[1] => (x \in ToSet(inq'[q]) <=> x \in ToSet(inq[q]))

Still(k, x) == FlagsKept(k, x) /\ PlaceKept(k, x) /\ (Pictured(k, x) => LineKept(k, x))

\* It is given a command and joins the queue of the sender proxy: to make a
\* call, to bring an acknowledgement, or to bring a refusal.
Joins(k, x) ==
    LET e == Here(k, x)'
    IN  /\ "RMTOPER" \in e.rts /\ e.rmtcmd.cmd # "NONE"
        /\ x \in ToSet(outq'[k]) /\ (Handled(k, x)' <=> Handled(k, x))
Unbusy(k, x) == Here(k, x).rts \cap {"SENDING", "RMTOPER"} = {}
Asks(k, x) == ~Pictured(k, x) /\ Here(k, x).rts = {} /\ Joins(k, x)
Confirms(k, x) ==
    /\ Pictured(k, x) /\ Unbusy(k, x) /\ Joins(k, x)
    /\ "SENDING" \notin Here(k, x)'.rts /\ LineKept(k, x)
Refuses(k, x) ==
    /\ Pictured(k, x) /\ Joins(k, x) /\ LineKept(k, x)
    /\ "SENDING" \in Here(k, x)'.rts <=> "SENDING" \in Here(k, x).rts
    /\ net[Back(k)] # <<>> /\ Header(Back(k)) \in Mail(x) /\ ~Admitted(Header(Back(k)))

\* It queues at a busy process of the node, and that takes its message.
Parks(k, x) ==
    /\ Pictured(k, x) /\ Unbusy(k, x) /\ PlaceKept(k, x)
    /\ LET d == Here(k, x)
           e == Here(k, x)'
       IN  /\ "RMTOPER" \notin e.rts /\ e.rmtcmd = d.rmtcmd
           /\ "SENDING" \in e.rts /\ e.sendto \in RmtIpcTo[x] \cap IpcTo[x]
           /\ \A q \in Procs : Home[q] = k[1] =>
                 (x \in ToSet(inq'[q]) <=> x \in ToSet(inq[q]) \/ q = e.sendto)
Unparks(k, x) ==
    LET d == Here(k, x)
        e == Here(k, x)'
    IN  /\ Pictured(k, x) /\ "SENDING" \in d.rts /\ "SENDING" \notin e.rts
        /\ Joins(k, x) \/ (CommandKept(k, x) /\ PlaceKept(k, x))
        /\ x \notin ToSet(inq'[d.sendto])
        /\ \A q \in Procs : x \in ToSet(inq'[q]) => x \in ToSet(inq[q])

\* The sender proxy unlinks it, and sends its command.
Unlinks(k, x) ==
    /\ Offered(k, x) /\ Handled(k, x)' /\ x \notin ToSet(outq'[k]) /\ FlagsKept(k, x)
    /\ Pictured(k, x) => \A q \in Procs : x \in ToSet(inq'[q]) => x \in ToSet(inq[q])
Departing(k, x) ==
    LET d == Here(k, x)
        e == Here(k, x)'
    IN  /\ Handled(k, x) /\ ~Handled(k, x)' /\ ~Offered(k, x)'
        /\ "RMTOPER" \notin e.rts /\ e.rmtcmd.cmd = "NONE"
        /\ "SENDING" \in e.rts => "SENDING" \in d.rts
        /\ UNCHANGED <<outq, inq>>

\* A process gives up a call that has not ended.
Abandons(k, x) == ~Pictured(k, x) /\ pc[x] = "expired" /\ Here(k, x).rts # {}

QueueStep(k, x) ==
    \/ Still(k, x) \/ Asks(k, x) \/ Confirms(k, x) \/ Refuses(k, x)
    \/ Parks(k, x) \/ Unparks(k, x) \/ Unlinks(k, x) \/ Departing(k, x)
    \/ Abandons(k, x)

LEMMA QueuesTyped ==
    ASSUME IInv
    PROVE  /\ \A q \in Procs : inq[q] \in Seq(Procs) /\ \A x \in ToSet(inq[q]) : Home[x] # Home[q]
           /\ \A k \in Links : outq[k] \in Seq(Procs)
           /\ inq \in [Procs -> Seq(Procs)] /\ outq \in [Links -> Seq(Procs)]
<1>1. /\ inq \in [Procs -> Seq(Procs)] /\ outq \in [Links -> Seq(Procs)]
      /\ \A q \in Procs : inq[q] \in Seq(Carriers(Home[q]))
  BY DEF IInv, QueuesFit, InqFit, OutqFit
<1>2. ASSUME NEW q \in Procs, NEW x \in ToSet(inq[q])
      PROVE  Home[x] # Home[q]
  <2>1. PICK i \in 1 .. Len(inq[q]) : inq[q][i] = x
    BY <1>1, <1>2, InList
  <2>2. x \in Carriers(Home[q])
    BY <1>1, <2>1
  <2>3. QED
    BY <2>2 DEF Carriers, Images
<1>3. QED
  BY <1>1, <1>2

LEMMA EnqueueEffect ==
    ASSUME IInv, NEW l \in Links, NEW y \in Procs, SproxyEnqueue(l, y),
           NEW k \in Links, NEW x \in Procs
    PROVE  /\ outq'[k] = IF k = l THEN Append(outq[k], y) ELSE outq[k]
           /\ Handled(k, x)' <=> Handled(k, x)
           /\ Offered(k, x)' <=> Offered(k, x)
           /\ k # l \/ x # y => PlaceKept(k, x)
           /\ k = l => y \in ToSet(outq'[k])
<1>1. outq[k] \in Seq(Procs) /\ outq \in [Links -> Seq(Procs)]
  BY QueuesTyped
<1>2. outq'[k] = IF k = l THEN Append(outq[k], y) ELSE outq[k]
  BY <1>1 DEF SproxyEnqueue
<1>3. sproxy'[k].xpp = sproxy[k].xpp
      /\ sproxy'[k].at = IF k = l /\ sproxy[k].at = "sleep" THEN "look" ELSE sproxy[k].at
  BY DEF IInv, QueuesFit, SproxyFit, SproxyEnqueue
<1>4. (Handled(k, x)' <=> Handled(k, x)) /\ (Offered(k, x)' <=> Offered(k, x))
  BY <1>3 DEF Handled, Offered
<1>5. k = l => ToSet(outq'[k]) = ToSet(outq[k]) \cup {y}
  BY <1>1, <1>2, ToSetAppend
<1>6. QED
  BY <1>2, <1>4, <1>5 DEF PlaceKept

LEMMA UnlinkOutEffect ==
    ASSUME IInv, NEW n, NEW y, NEW k \in Links,
           outq' = UnlinkOut(n, y)
    PROVE  /\ k[1] # n => outq'[k] = outq[k]
           /\ k[1] = n => outq'[k] = Without(outq[k], y)
           /\ \A x : k[1] # n \/ x # y => (x \in ToSet(outq'[k]) <=> x \in ToSet(outq[k]))
           /\ k[1] = n /\ LinkedOnce => y \notin ToSet(outq'[k])
<1>1. outq[k] \in Seq(Procs)
  BY QueuesTyped
<1>2. outq'[k] = IF k[1] = n THEN Without(outq[k], y) ELSE outq[k]
  BY DEF UnlinkOut
<1>3. LinkedOnce => IsInjective(outq[k])
  BY DEF LinkedOnce
<1>4. QED
  BY <1>1, <1>2, <1>3, WithoutQueue

LEMMA UnlinkInEffect ==
    ASSUME IInv, NEW n, NEW y, NEW q \in Procs,
           inq' = UnlinkIn(n, y)
    PROVE  /\ Home[q] # n => inq'[q] = inq[q]
           /\ Home[q] = n => inq'[q] = Without(inq[q], y)
           /\ \A x : Home[q] # n \/ x # y => (x \in ToSet(inq'[q]) <=> x \in ToSet(inq[q]))
           /\ \A x : x \in ToSet(inq'[q]) => x \in ToSet(inq[q])
           /\ Home[q] = n /\ LinkedOnce => y \notin ToSet(inq'[q])
<1>1. inq[q] \in Seq(Procs)
  BY QueuesTyped
<1>2. inq'[q] = IF Home[q] = n THEN Without(inq[q], y) ELSE inq[q]
  BY DEF UnlinkIn
<1>3. LinkedOnce => IsInjective(inq[q])
  BY DEF LinkedOnce
<1>4. QED
  BY <1>1, <1>2, <1>3, WithoutQueue

LEMMA SameHere ==
    ASSUME NEW k, NEW x, desc'[k[1]][x] = desc[k[1]][x]
    PROVE  FlagsKept(k, x)
BY DEF FlagsKept, CommandKept, Here

LEMMA SamePlace ==
    ASSUME NEW k, NEW x, outq'[k] = outq[k], sproxy'[k] = sproxy[k]
    PROVE  PlaceKept(k, x)
BY DEF PlaceKept, Handled, Offered

LEMMA SameLine ==
    ASSUME NEW k, NEW x, UNCHANGED inq
    PROVE  LineKept(k, x)
BY DEF LineKept

LEMMA NoQueueMoved ==
    ASSUME UNCHANGED <<outq, inq, sproxy>>, NEW k, NEW x, FlagsKept(k, x)
    PROVE  QueueStep(k, x)
BY SamePlace, SameLine DEF QueueStep, Still

\* The LOCAL descriptor of p changes, but neither RMTOPER nor its command.
LEMMA OwnFlags ==
    ASSUME NEW p \in Procs, NEW k \in Links, NEW x \in Procs,
           \A m \in Nodes, q \in Procs : m # Home[p] \/ q # p => desc'[m][q] = desc[m][q],
           LET d == desc[Home[p]][p]
               e == desc'[Home[p]][p]
           IN  ("RMTOPER" \in e.rts <=> "RMTOPER" \in d.rts) /\ e.rmtcmd = d.rmtcmd
    PROVE  FlagsKept(k, x)
<1>1. k[1] \in Nodes
  BY LinkFacts
<1>2. CASE k[1] # Home[p] \/ x # p
  BY <1>1, <1>2, SameHere
<1>3. CASE k[1] = Home[p] /\ x = p
  BY <1>3 DEF FlagsKept, CommandKept, Here, Pictured
<1>4. QED
  BY <1>2, <1>3

-----------------------------------------------------------------------------
(* ... and every step is one of these: the threads                           *)

LEMMA RemoteQueues ==
    ASSUME IInv, NEW p \in Procs, NEW d \in Procs, NEW op \in RemoteCalls,
           Remote(p, op, d, Cmd(op), Answers(p, op, d)),
           NEW k \in Links, NEW x \in Procs
    PROVE  QueueStep(k, x)
<1>1. LET here == Home[p]
          e == desc'[here][p]
          i == desc'[here][d]
      IN  /\ here \in Nodes /\ Home[d] # here /\ p # d /\ Mine(p).rts = {}
          /\ e.rts = CallFlags(op) /\ e.rmtcmd = Commanding(p, op, d)
          /\ op = "sendrec" => i = desc[here][d]
          /\ op # "sendrec" => i.rts = desc[here][d].rts \ {"RECEIVING"}
          /\ i.sendto = desc[here][d].sendto /\ i.rmtcmd = desc[here][d].rmtcmd
          /\ \A m \in Nodes, q \in Procs :
                m # here \/ (q # p /\ q # d) => desc'[m][q] = desc[m][q]
  BY RemoteEffect
<1>2. PICK l \in Links : l = <<Home[p], Home[d]>>
  BY <1>1, HomeAssumption DEF Links
<1>3. SproxyEnqueue(l, p) /\ UNCHANGED inq
  BY <1>2 DEF Remote
<1>4. k[1] \in Nodes /\ k[2] \in Nodes /\ l[1] = Home[p] /\ (k[1] = l[1] => k = l)
  BY <1>1, <1>2, LinkFacts DEF Links
<1>5. LineKept(k, x)
  BY <1>3, SameLine
<1>6. CASE x # p \/ k # l
  <2>1. PlaceKept(k, x)
    BY <1>3, <1>6, EnqueueEffect
  <2>2. FlagsKept(k, x)
    <3>1. CASE x = d /\ k = l
      BY <1>1, <1>4, <3>1 DEF FlagsKept, CommandKept, Here
    <3>2. CASE x # d \/ k # l
      BY <1>1, <1>4, <1>6, <3>2, SameHere
    <3>3. QED
      BY <3>1, <3>2
  <2>3. QED
    BY <1>5, <2>1, <2>2 DEF QueueStep, Still
<1>7. CASE x = p /\ k = l
  <2>1. x \in ToSet(outq'[k]) /\ (Handled(k, x)' <=> Handled(k, x))
    BY <1>3, <1>7, EnqueueEffect
  <2>2. Here(k, x).rts = {} /\ Here(k, x)'.rts = CallFlags(op) /\ Here(k, x)'.rmtcmd = Commanding(p, op, d)
    BY <1>1, <1>4, <1>7 DEF Here, Mine
  <2>3. Joins(k, x)
    BY <2>1, <2>2, CmdFacts DEF Joins, CallFlags, Commanding, MsgCmds
  <2>4. ~Pictured(k, x)
    BY <1>4, <1>7 DEF Pictured
  <2>5. QED
    BY <2>2, <2>3, <2>4 DEF QueueStep, Asks
<1>8. QED
  BY <1>6, <1>7

LEMMA CallDoneQueues ==
    ASSUME IInv, NEW p \in Procs, CallDone(p), NEW k \in Links, NEW x \in Procs
    PROVE  QueueStep(k, x)
<1>1. /\ pc[p] # "user" /\ (pc[p] = "sleep" => Mine(p).rts = {})
      /\ desc'[Home[p]][p].rts = {} /\ desc'[Home[p]][p].rmtcmd = Mine(p).rmtcmd
      /\ \A m \in Nodes, q \in Procs : m # Home[p] \/ q # p => desc'[m][q] = desc[m][q]
  BY CallDoneEffect
<1>2. /\ UNCHANGED <<inq, sproxy>>
      /\ outq' = IF Fails(p) /\ "SENDING" \in Mine(p).rts THEN UnlinkOut(Home[p], p) ELSE outq
  BY DEF CallDone, wires
<1>3. LineKept(k, x) /\ (Handled(k, x)' <=> Handled(k, x)) /\ (Offered(k, x)' <=> Offered(k, x))
  BY <1>2, SameLine DEF Handled, Offered
<1>4. CASE Mine(p).rts = {}
  <2>1. FlagsKept(k, x)
    BY <1>1, <1>4, OwnFlags DEF Mine
  <2>2. QED
    BY <1>2, <1>4, <2>1, NoQueueMoved
<1>5. CASE Mine(p).rts # {} /\ x = p /\ k[1] = Home[p]
  <2>1. pc[x] = "expired"
    BY <1>1, <1>5 DEF IInv, DescsFit
  <2>2. QED
    BY <1>5, <2>1 DEF QueueStep, Abandons, Here, Mine, Pictured
<1>6. CASE Mine(p).rts # {} /\ (x # p \/ k[1] # Home[p])
  <2>1. FlagsKept(k, x)
    BY <1>1, <1>6, LinkFacts, SameHere
  <2>2. x \in ToSet(outq'[k]) <=> x \in ToSet(outq[k])
    <3>1. CASE outq' = UnlinkOut(Home[p], p)
      <4>1. \A y : k[1] # Home[p] \/ y # p => (y \in ToSet(outq'[k]) <=> y \in ToSet(outq[k]))
        BY <3>1, UnlinkOutEffect
      <4>2. QED
        BY <1>6, <4>1
    <3>2. CASE outq' = outq
      BY <3>2
    <3>3. QED
      BY <1>2, <3>1, <3>2
  <2>3. QED
    BY <1>3, <2>1, <2>2 DEF QueueStep, Still, PlaceKept
<1>7. QED
  BY <1>4, <1>5, <1>6

LEMMA ThreadQueuesKept ==
    ASSUME IInv, NEW p \in Procs,
           \/ Expire(p) \/ ReceiveDone(p)
           \/ \E s \in Sources[p] : ReceiveNotify(p, s) \/ ReceiveBlock(p, s),
           NEW k \in Links, NEW x \in Procs
    PROVE  QueueStep(k, x)
<1>1. CASE Expire(p)
  <2>1. UNCHANGED <<desc, outq, inq, sproxy>>
    BY <1>1 DEF Expire, wires
  <2>2. QED
    BY <2>1, SameHere, NoQueueMoved
<1>2. CASE ReceiveDone(p)
  <2>1. UNCHANGED <<outq, inq, sproxy>>
    BY <1>2 DEF ReceiveDone, wires
  <2>2. /\ Mine(p).rts \subseteq {"RECEIVING"}
        /\ desc'[Home[p]][p].rts = {} /\ desc'[Home[p]][p].rmtcmd = Mine(p).rmtcmd
        /\ \A n \in Nodes, q \in Procs : n # Home[p] \/ q # p => desc'[n][q] = desc[n][q]
    BY <1>2, ReceiveDoneEffect
  <2>3. FlagsKept(k, x)
    BY <2>2, OwnFlags DEF Mine
  <2>4. QED
    BY <2>1, <2>3, NoQueueMoved
<1>3. ASSUME NEW s \in Sources[p], ReceiveNotify(p, s)
      PROVE  QueueStep(k, x)
  <2>1. UNCHANGED <<outq, inq, sproxy>>
    BY <1>3 DEF ReceiveNotify, wires
  <2>2. /\ desc'[Home[p]][p].rts = Mine(p).rts /\ desc'[Home[p]][p].rmtcmd = Mine(p).rmtcmd
        /\ \A n \in Nodes, q \in Procs : n # Home[p] \/ q # p => desc'[n][q] = desc[n][q]
    BY <1>3, ReceiveNotifyEffect
  <2>3. FlagsKept(k, x)
    BY <2>2, OwnFlags DEF Mine
  <2>4. QED
    BY <2>1, <2>3, NoQueueMoved
<1>4. ASSUME NEW s \in Sources[p], ReceiveBlock(p, s)
      PROVE  QueueStep(k, x)
  <2>1. UNCHANGED <<outq, inq, sproxy>> /\ Mine(p).rts = {}
    BY <1>4 DEF ReceiveBlock, EnterReceive, Enter, wires
  <2>2. /\ desc'[Home[p]][p].rts = {"RECEIVING"} /\ desc'[Home[p]][p].rmtcmd = Mine(p).rmtcmd
        /\ \A n \in Nodes, q \in Procs : n # Home[p] \/ q # p => desc'[n][q] = desc[n][q]
    BY <1>4, ReceiveBlockEffect
  <2>3. FlagsKept(k, x)
    BY <2>1, <2>2, OwnFlags DEF Mine
  <2>4. QED
    BY <2>1, <2>3, NoQueueMoved
<1>5. QED
  BY <1>1, <1>2, <1>3, <1>4

LEMMA ReceiveTakeQueues ==
    ASSUME IInv, AllLawful, NEW p \in Procs, NEW s \in Sources[p], ReceiveTake(p, s),
           NEW k \in Links, NEW x \in Procs
    PROVE  QueueStep(k, x)
<1>1. PICK y \in Procs : Unqueues(p, y)
  BY ReceiveTakeEffect
<1>2. LinkedOnce /\ Home[p] \in Nodes
  BY HomeAssumption DEF ReceiveTake, EnterReceive, Enter
<1> DEFINE d == desc[Home[p]][y]
           e == desc'[Home[p]][y]
<1>3. /\ Home[y] # Home[p] /\ "SENDING" \in d.rts /\ d.sendto = p
      /\ IF "RECEIVING" \in d.rts
         THEN e.rts = d.rts \ {"SENDING"} /\ e.rmtcmd = d.rmtcmd
         ELSE e.rts = (d.rts \cup {"RMTOPER"}) \ {"SENDING"} /\ e.rmtcmd.cmd = "SEND_ACK"
      /\ \A m \in Nodes, q \in Procs :
              m # Home[p] \/ q # y => desc'[m][q] = desc[m][q]
      /\ inq' = UnlinkIn(Home[p], y)
      /\ IF "RECEIVING" \in d.rts THEN UNCHANGED <<outq, sproxy>>
         ELSE SproxyEnqueue(<<Home[p], Home[y]>>, y)
  BY <1>1 DEF Unqueues
<1>4. PICK l \in Links : l = <<Home[p], Home[y]>>
  BY <1>2, <1>3, HomeAssumption DEF Links
<1>5. l[1] = Home[p] /\ k[1] \in Nodes /\ (k[1] = l[1] => k = l)
  BY <1>3, <1>4, LinkFacts DEF Links
<1>6. \A q \in Procs :
        /\ Home[q] # Home[p] \/ x # y => (x \in ToSet(inq'[q]) <=> x \in ToSet(inq[q]))
        /\ x \in ToSet(inq'[q]) => x \in ToSet(inq[q])
        /\ Home[q] = Home[p] => y \notin ToSet(inq'[q])
  BY <1>2, <1>3, UnlinkInEffect
<1>7. CASE x # y \/ k # l
  <2>1. PlaceKept(k, x)
    <3>1. CASE "RECEIVING" \in d.rts
      BY <1>3, <3>1, SamePlace
    <3>2. CASE "RECEIVING" \notin d.rts
      <4>1. SproxyEnqueue(l, y)
        BY <1>3, <1>4, <3>2
      <4>2. QED
        BY <1>7, <4>1, EnqueueEffect
    <3>3. QED
      BY <3>1, <3>2
  <2>2. FlagsKept(k, x)
    BY <1>3, <1>5, <1>7, SameHere
  <2>3. LineKept(k, x)
    BY <1>5, <1>6, <1>7 DEF LineKept
  <2>4. QED
    BY <2>1, <2>2, <2>3 DEF QueueStep, Still
<1>8. CASE x = y /\ k = l
  <2>1. Here(k, x) = d /\ Here(k, x)' = e /\ Pictured(k, x)
    BY <1>3, <1>5, <1>8 DEF Here, Pictured
  <2> HIDE DEF d, e
  <2>2. CASE "RECEIVING" \in d.rts
    <3>1. PlaceKept(k, x) /\ CommandKept(k, x)
      BY <1>3, <2>1, <2>2, SamePlace DEF CommandKept
    <3>2. QED
      BY <1>3, <1>6, <1>8, <2>1, <2>2, <3>1 DEF QueueStep, Unparks
  <2>3. CASE "RECEIVING" \notin d.rts
    <3>1. SproxyEnqueue(l, y)
      BY <1>3, <1>4, <2>3
    <3>2. x \in ToSet(outq'[k]) /\ (Handled(k, x)' <=> Handled(k, x))
      BY <1>8, <3>1, EnqueueEffect
    <3>3. Joins(k, x)
      BY <1>3, <2>1, <2>3, <3>2 DEF Joins
    <3>4. QED
      BY <1>3, <1>6, <1>8, <2>1, <2>3, <3>3 DEF QueueStep, Unparks
  <2>4. QED
    BY <2>2, <2>3
<1>9. QED
  BY <1>7, <1>8

-----------------------------------------------------------------------------
(* ..., the sender proxies                                                   *)

\* The sender proxy of k is somewhere else, or has another descriptor in hand.
LEMMA OtherProxies ==
    ASSUME IInv, NEW l \in Links, NEW A, sproxy' = [sproxy EXCEPT ![l] = A], NEW k \in Links
    PROVE  sproxy'[k] = IF k = l THEN A ELSE sproxy[k]
<1>1. DOMAIN sproxy = Links
  BY DEF IInv, QueuesFit, SproxyFit
<1>2. QED
  BY <1>1

LEMMA LookQueues ==
    ASSUME IInv, NEW l \in Links, Get2rmtLook(l), NEW k \in Links, NEW x \in Procs
    PROVE  QueueStep(k, x)
<1>1. /\ UNCHANGED <<desc, inq, outq>> /\ outq[l] # <<>> /\ sproxy[l].at = "look"
      /\ sproxy' = [sproxy EXCEPT ![l] = [at |-> "window", xpp |-> Head(outq[l])]]
  BY DEF Get2rmtLook, At
<1>2. sproxy'[k] = IF k = l THEN [at |-> "window", xpp |-> Head(outq[l])] ELSE sproxy[k]
  <2>1. PICK A : A = [at |-> "window", xpp |-> Head(outq[l])]
    OBVIOUS
  <2>2. sproxy'[k] = IF k = l THEN A ELSE sproxy[k]
    <3>1. sproxy' = [sproxy EXCEPT ![l] = A]
      BY <1>1, <2>1
    <3>2. QED
      BY <3>1, OtherProxies
  <2>3. QED
    BY <2>1, <2>2
<1>3. Head(outq[l]) \in ToSet(outq[l])
  BY <1>1, QueuesTyped, ToSetTail
<1>4. FlagsKept(k, x) /\ LineKept(k, x)
  BY <1>1, SameHere, SameLine
<1>5. PlaceKept(k, x)
  BY <1>1, <1>2, <1>3 DEF PlaceKept, Handled, Offered
<1>6. QED
  BY <1>4, <1>5 DEF QueueStep, Still

LEMMA SleepQueues ==
    ASSUME IInv, NEW l \in Links, Get2rmtSleep(l), NEW k \in Links, NEW x \in Procs
    PROVE  QueueStep(k, x)
<1>1. /\ UNCHANGED <<desc, inq, outq>> /\ sproxy[l].at = "look"
      /\ sproxy' = [sproxy EXCEPT ![l].at = "sleep"]
  BY DEF Get2rmtSleep, At
<1>2. sproxy'[k].at = IF k = l THEN "sleep" ELSE sproxy[k].at
  BY <1>1 DEF IInv, QueuesFit, SproxyFit
<1>3. sproxy'[k].xpp = sproxy[k].xpp
  BY <1>1 DEF IInv, QueuesFit, SproxyFit
<1>4. FlagsKept(k, x) /\ LineKept(k, x)
  BY <1>1, SameHere, SameLine
<1>5. PlaceKept(k, x)
  BY <1>1, <1>2, <1>3 DEF PlaceKept, Handled, Offered
<1>6. QED
  BY <1>4, <1>5 DEF QueueStep, Still

LEMMA TakeQueues ==
    ASSUME IInv, NEW l \in Links, Get2rmtTake(l), NEW k \in Links, NEW x \in Procs
    PROVE  QueueStep(k, x)
<1>1. sproxy[l].at = "window" /\ LinkedOnce
  BY DEF Get2rmtTake, At
<1>2. PICK y \in Procs : y = sproxy[l].xpp
  BY <1>1 DEF IInv, QueuesFit, SproxyFit
<1>3. /\ outq' = UnlinkOut(l[1], y) /\ inq' = UnlinkIn(l[1], y) /\ UNCHANGED desc
      /\ sproxy' = [sproxy EXCEPT ![l].at = "taken"]
  BY <1>2 DEF Get2rmtTake
<1>4. /\ sproxy'[k].at = IF k = l THEN "taken" ELSE sproxy[k].at
      /\ sproxy'[k].xpp = sproxy[k].xpp
  BY <1>3 DEF IInv, QueuesFit, SproxyFit
<1>5. FlagsKept(k, x)
  BY <1>3, SameHere
<1>6. \A q \in Procs :
        /\ Home[q] # l[1] \/ x # y => (x \in ToSet(inq'[q]) <=> x \in ToSet(inq[q]))
        /\ x \in ToSet(inq'[q]) => x \in ToSet(inq[q])
  BY <1>3, UnlinkInEffect
<1>7. /\ k[1] # l[1] \/ x # y => (x \in ToSet(outq'[k]) <=> x \in ToSet(outq[k]))
      /\ k[1] = l[1] => y \notin ToSet(outq'[k])
  BY <1>1, <1>3, UnlinkOutEffect
<1>8. k[1] = l[1] => k = l
  BY LinkFacts DEF Links
<1>9. CASE k = l /\ x = y
  BY <1>1, <1>2, <1>4, <1>5, <1>6, <1>7, <1>9 DEF QueueStep, Unlinks, Handled, Offered
<1>10. CASE k # l \/ x # y
  <2>1. PlaceKept(k, x)
    BY <1>1, <1>2, <1>4, <1>7, <1>8, <1>10 DEF PlaceKept, Handled, Offered
  <2>2. LineKept(k, x)
    BY <1>6, <1>8, <1>10 DEF LineKept
  <2>3. QED
    BY <1>5, <2>1, <2>2 DEF QueueStep, Still
<1>11. QED
  BY <1>9, <1>10

LEMMA DispatchQueues ==
    ASSUME IInv, AllLawful, NEW l \in Links, Get2rmtDispatch(l), NEW k \in Links, NEW x \in Procs
    PROVE  QueueStep(k, x)
<1>1. PICK y \in Procs : y = sproxy[l].xpp
  BY DispatchEffect DEF Dispatches
<1> DEFINE d == desc[l[1]][y]
           e == desc'[l[1]][y]
<1>2. /\ sproxy[l].at = "taken"
      /\ \A m \in Nodes, q \in Procs : m # l[1] \/ q # y => desc'[m][q] = desc[m][q]
      /\ IF d.rmtcmd.cmd # "NONE" THEN e = Sent(d, Home[y] # l[1])
         ELSE e.rts = {} /\ e.rmtcmd = d.rmtcmd
  BY <1>1, DispatchEffect DEF Dispatches
<1>3. /\ UNCHANGED <<outq, inq>>
      /\ sproxy' = [sproxy EXCEPT ![l] = [at |-> "look", xpp |-> NONE]]
  BY DEF Get2rmtDispatch
<1>4. sproxy'[k] = IF k = l THEN [at |-> "look", xpp |-> NONE] ELSE sproxy[k]
  BY <1>3, OtherProxies
<1>5. /\ l[1] \in Nodes /\ k[1] \in Nodes /\ (k[1] = l[1] => k = l)
  BY LinkFacts DEF Links
<1>6. CASE k # l \/ x # y
  <2>1. PlaceKept(k, x) /\ LineKept(k, x)
    BY <1>1, <1>2, <1>3, <1>4, <1>6, SameLine DEF PlaceKept, Handled, Offered
  <2>2. FlagsKept(k, x)
    BY <1>2, <1>5, <1>6, SameHere
  <2>3. QED
    BY <2>1, <2>2 DEF QueueStep, Still
<1>7. CASE k = l /\ x = y
  <2>1. Handled(k, x) /\ ~Handled(k, x)' /\ ~Offered(k, x)'
    BY <1>1, <1>2, <1>4, <1>7 DEF Handled, Offered
  <2>2. d = Here(k, x) /\ e = Here(k, x)' /\ d \in Descriptors
    BY <1>5, <1>7 DEF Here, IInv, DescsFit
  <2>3. Home[y] # l[1] => d.rmtcmd.cmd # "NTFY_MSG"
    BY <1>5 DEF AllLawful, Labelled, MsgCmds
  <2> HIDE DEF d, e
  <2>4. "RMTOPER" \notin e.rts /\ e.rmtcmd.cmd = "NONE" /\ ("SENDING" \in e.rts => "SENDING" \in d.rts)
    <3>1. CASE d.rmtcmd.cmd # "NONE"
      <4>1. PICK image \in BOOLEAN : image = (Home[y] # l[1])
        OBVIOUS
      <4>2. e = Sent(d, image) /\ (image => d.rmtcmd.cmd # "NTFY_MSG")
        BY <1>2, <2>3, <3>1, <4>1
      <4>3. /\ e.rmtcmd.cmd = "NONE"
            /\ image => e.rts = d.rts \ {"RMTOPER", "SENDING"}
            /\ ~image => e.rts = d.rts \ ({"RMTOPER"} \cup
                           IF d.rmtcmd.cmd \in {"SNDREC_MSG", "NTFY_MSG"} THEN {"SENDING"} ELSE {})
        BY <2>2, <4>2, SentFields
      <4>4. QED
        BY <4>3
    <3>2. CASE d.rmtcmd.cmd = "NONE"
      BY <1>2, <3>2
    <3>3. QED
      BY <3>1, <3>2
  <2>5. QED
    BY <1>3, <2>1, <2>2, <2>4 DEF QueueStep, Departing
<1>8. QED
  BY <1>6, <1>7

-----------------------------------------------------------------------------
(* ... and the receiver proxies                                              *)

LEMMA DroppedQueues ==
    ASSUME NEW l \in Links, Put2lclDropped(l), NEW k \in Links, NEW x \in Procs
    PROVE  QueueStep(k, x)
<1>1. UNCHANGED <<desc, outq, inq, sproxy>>
  BY DEF Put2lclDropped
<1>2. QED
  BY <1>1, SameHere, NoQueueMoved

LEMMA DeniedQueues ==
    ASSUME IInv, AllLawful, NEW l \in Links, Put2lclDenied(l), NEW k \in Links, NEW x \in Procs
    PROVE  QueueStep(k, x)
<1> DEFINE h == Header(l)
           d == desc[l[2]][h.src]
           A == Acknowledging(d, h.dst, h.src, "error")
<1>1. Arrives(l) /\ UNCHANGED inq /\ ~Admitted(h)
  BY DEF Put2lclDenied
<1>2. /\ h.src \in Procs /\ Home[h.src] = l[1] /\ net[l] # <<>>
      /\ h.cmd \in MsgCmds => h \in Mail(h.src)
      /\ h.cmd \notin MsgCmds => h.cmd = "SEND_ACK"
  BY <1>1, ArrivingFacts
<1>3. CASE h.cmd = "SEND_ACK"
  <2>1. UNCHANGED <<desc, outq, sproxy>>
    BY <1>3 DEF Put2lclDenied
  <2>2. QED
    BY <1>1, <2>1, SameHere, NoQueueMoved
<1>4. CASE h.cmd # "SEND_ACK"
  <2>1. Change(l[2], h.src, A) /\ SproxyEnqueue(Back(l), h.src)
    BY <1>4 DEF Put2lclDenied, Change
  <2>2. /\ l[2] \in Nodes /\ l[1] # l[2] /\ Back(l) \in Links /\ k[1] \in Nodes
        /\ Back(l)[1] = l[2] /\ (k[1] = l[2] => k = Back(l)) /\ Back(Back(l)) = l
    BY LinkFacts DEF Links, Back
  <2>3. /\ desc'[l[2]][h.src] = A
        /\ \A m \in Nodes, q \in Procs : m # l[2] \/ q # h.src => desc'[m][q] = desc[m][q]
    BY <1>2, <2>1, <2>2, OneChanged
  <2>4. d \in Descriptors
    BY <1>2, <2>2 DEF IInv, DescsFit
  <2> HIDE DEF d
  <2>5. A.rts = d.rts \cup {"RMTOPER"} /\ A.sendto = d.sendto /\ A.rmtcmd.cmd = "SEND_ACK"
    <3>1. /\ A.rts = d.rts \cup {"RMTOPER"} /\ A.sendto = d.sendto
          /\ A.rmtcmd = [cmd |-> "SEND_ACK", src |-> h.dst, dst |-> h.src, rcode |-> "error",
                         msg |-> NONE]
      BY <2>4, AcknowledgingFields
    <3> HIDE DEF A
    <3>2. QED
      BY <3>1
  <2>6. PICK y \in Procs, b \in Links : y = h.src /\ b = Back(l)
    BY <1>2, <2>2
  <2> HIDE DEF h, A
  <2>7. SproxyEnqueue(b, y)
    BY <2>1, <2>6
  <2>8. LineKept(k, x)
    BY <1>1, SameLine
  <2>9. CASE k # b \/ x # y
    <3>1. PlaceKept(k, x)
      BY <2>7, <2>9, EnqueueEffect
    <3>2. FlagsKept(k, x)
      BY <2>2, <2>3, <2>6, <2>9, SameHere
    <3>3. QED
      BY <2>8, <3>1, <3>2 DEF QueueStep, Still
  <2>10. CASE k = b /\ x = y
    <3>1. x \in ToSet(outq'[k]) /\ (Handled(k, x)' <=> Handled(k, x))
      BY <2>7, <2>10, EnqueueEffect
    <3>2. Here(k, x)' = A /\ Here(k, x) = d
      BY <2>2, <2>3, <2>6, <2>10 DEF Here, d
    <3>3. Joins(k, x)
      BY <2>5, <3>1, <3>2 DEF Joins
    <3>4. Pictured(k, x)
      BY <1>2, <2>2, <2>6, <2>10 DEF Pictured
    <3>5. Header(Back(k)) = h /\ net[Back(k)] # <<>>
      BY <1>2, <2>2, <2>6, <2>10 DEF h
    <3>6. Refuses(k, x)
      BY <1>1, <1>2, <1>4, <2>5, <2>6, <2>8, <2>10, <3>2, <3>3, <3>4, <3>5 DEF Refuses
    <3>7. QED
      BY <3>6 DEF QueueStep
  <2>11. QED
    BY <2>9, <2>10
<1>5. QED
  BY <1>3, <1>4

LEMMA DeliverQueues ==
    ASSUME IInv, AllLawful, NEW l \in Links, Put2lclDeliver(l), NEW k \in Links, NEW x \in Procs
    PROVE  QueueStep(k, x)
<1> DEFINE h == Header(l)
           src == desc[l[2]][h.src]
           dst == desc[l[2]][h.dst]
           A1 == [src EXCEPT !.rts = @ \cup {"RECEIVING"}, !.getfrom = h.dst]
           A2 == Acknowledging(src, h.dst, h.src, "OK")
           A == IF h.cmd = "SNDREC_MSG" THEN A1 ELSE A2
           B == Wake(EndReceive(dst), "OK")
<1>1. /\ Arrives(l) /\ UNCHANGED inq /\ src.rts \cap {"SENDING", "RMTOPER"} = {}
      /\ IF h.cmd = "SNDREC_MSG" THEN UNCHANGED <<outq, sproxy>>
         ELSE SproxyEnqueue(Back(l), h.src)
  BY DEF Put2lclDeliver, Accepted, Unused
<1>2. /\ h.src \in Procs /\ h.dst \in Procs /\ h.src # h.dst
      /\ Home[h.src] = l[1] /\ Home[h.dst] = l[2]
  BY <1>1, ArrivingFacts
<1>3. ChangeTwo(l[2], h.src, A, h.dst, B)
  BY DEF Put2lclDeliver, ChangeTwo
<1>4. /\ l[2] \in Nodes /\ l[1] # l[2] /\ Back(l) \in Links /\ k[1] \in Nodes
      /\ Back(l)[1] = l[2] /\ (k[1] = l[2] => k = Back(l))
  BY LinkFacts DEF Links, Back
<1> HIDE DEF A, B
<1>5. /\ desc'[l[2]][h.src] = A /\ desc'[l[2]][h.dst] = B
      /\ \A m \in Nodes, q \in Procs :
            m # l[2] \/ (q # h.src /\ q # h.dst) => desc'[m][q] = desc[m][q]
  BY <1>2, <1>3, <1>4, TwoChanged
<1>6. src \in Descriptors /\ dst \in Descriptors
  BY <1>2, <1>4 DEF IInv, DescsFit
<1>7. B.rts = dst.rts \ {"RECEIVING"} /\ B.rmtcmd = dst.rmtcmd
  BY <1>6, WokenFields DEF B
<1>8. IF h.cmd = "SNDREC_MSG"
      THEN A.rts = src.rts \cup {"RECEIVING"} /\ A.rmtcmd = src.rmtcmd /\ A.sendto = src.sendto
      ELSE A.rts = src.rts \cup {"RMTOPER"} /\ A.rmtcmd.cmd = "SEND_ACK"
  <2> HIDE DEF src, h
  <2>1. CASE h.cmd = "SNDREC_MSG"
    BY <1>6, <2>1 DEF A, Descriptors
  <2>2. CASE h.cmd # "SNDREC_MSG"
    <3>1. A = Acknowledging(src, h.dst, h.src, "OK")
      BY <2>2 DEF A
    <3>2. /\ A.rts = src.rts \cup {"RMTOPER"}
          /\ A.rmtcmd = [cmd |-> "SEND_ACK", src |-> h.dst, dst |-> h.src, rcode |-> "OK",
                         msg |-> NONE]
      BY <1>6, <3>1, AcknowledgingFields
    <3>3. QED
      BY <2>2, <3>2
  <2>3. QED
    BY <2>1, <2>2
<1>9. PICK y \in Procs, z \in Procs, b \in Links : y = h.src /\ z = h.dst /\ b = Back(l)
  BY <1>2, <1>4
<1> HIDE DEF h, A, B
<1>10. LineKept(k, x)
  BY <1>1, SameLine
<1>11. CASE k # b \/ x # y
  <2>1. PlaceKept(k, x)
    <3>1. CASE h.cmd = "SNDREC_MSG"
      BY <1>1, <3>1, SamePlace
    <3>2. CASE h.cmd # "SNDREC_MSG"
      <4>1. SproxyEnqueue(b, y)
        BY <1>1, <1>9, <3>2
      <4>2. QED
        BY <1>11, <4>1, EnqueueEffect
    <3>3. QED
      BY <3>1, <3>2
  <2>2. FlagsKept(k, x)
    <3>1. CASE k = b /\ x = z
      <4>1. Here(k, x) = dst /\ Here(k, x)' = B /\ ~Pictured(k, x)
        BY <1>2, <1>4, <1>5, <1>9, <3>1 DEF Here, Pictured
      <4> HIDE DEF dst
      <4>2. QED
        BY <1>7, <4>1 DEF FlagsKept, CommandKept
    <3>2. CASE k # b \/ x # z
      BY <1>4, <1>5, <1>9, <1>11, <3>2, SameHere
    <3>3. QED
      BY <3>1, <3>2
  <2>3. QED
    BY <1>10, <2>1, <2>2 DEF QueueStep, Still
<1>12. CASE k = b /\ x = y
  <2>1. Here(k, x) = src /\ Here(k, x)' = A /\ Pictured(k, x)
    BY <1>2, <1>4, <1>5, <1>9, <1>12 DEF Here, Pictured
  <2> HIDE DEF src
  <2>2. CASE h.cmd = "SNDREC_MSG"
    <3>1. FlagsKept(k, x)
      BY <1>8, <2>1, <2>2 DEF FlagsKept, CommandKept
    <3>2. PlaceKept(k, x)
      BY <1>1, <2>2, SamePlace
    <3>3. QED
      BY <1>10, <3>1, <3>2 DEF QueueStep, Still
  <2>3. CASE h.cmd # "SNDREC_MSG"
    <3>1. SproxyEnqueue(b, y)
      BY <1>1, <1>9, <2>3
    <3>2. x \in ToSet(outq'[k]) /\ (Handled(k, x)' <=> Handled(k, x))
      BY <1>12, <3>1, EnqueueEffect
    <3>3. Confirms(k, x)
      BY <1>1, <1>8, <1>10, <2>1, <2>3, <3>2 DEF Confirms, Joins, Unbusy
    <3>4. QED
      BY <3>3 DEF QueueStep
  <2>4. QED
    BY <2>2, <2>3
<1>13. QED
  BY <1>11, <1>12

LEMMA ParkQueues ==
    ASSUME IInv, AllLawful, NEW l \in Links, Put2lclQueue(l), NEW k \in Links, NEW x \in Procs
    PROVE  QueueStep(k, x)
<1> DEFINE h == Header(l)
           rec == h.cmd = "SNDREC_MSG"
           d == desc[l[2]][h.src]
           r == d.rts \cup {"SENDING"} \cup (IF rec THEN {"RECEIVING"} ELSE {})
           g == IF rec THEN h.dst ELSE d.getfrom
           A == [d EXCEPT !.message = h.msg, !.sendto = h.dst, !.rts = r, !.getfrom = g]
<1>1. /\ Arrives(l) /\ UNCHANGED <<outq, sproxy>> /\ h.dst \in RmtIpcTo[h.src] /\ IsMessage(h)
      /\ d.rts \cap {"SENDING", "RMTOPER"} = {} /\ inq' = [inq EXCEPT ![h.dst] = Append(@, h.src)]
  BY DEF Put2lclQueue, Accepted, Unused, Admitted
<1>2. Change(l[2], h.src, A)
  BY DEF Put2lclQueue, Change
<1>3. /\ h.src \in Procs /\ h.dst \in Procs /\ h.src # h.dst
      /\ Home[h.src] = l[1] /\ Home[h.dst] = l[2] /\ Lawful(h)
  BY <1>1, ArrivingFacts
<1>4. h.dst \in IpcTo[h.src]
  BY <1>1, <1>3 DEF Lawful, IsMessage, MsgCmds
<1>5. /\ l[2] \in Nodes /\ l[1] # l[2] /\ Back(l) \in Links /\ k[1] \in Nodes
      /\ Back(l)[1] = l[2] /\ (k[1] = l[2] => k = Back(l))
  BY LinkFacts DEF Links, Back
<1>6. d \in Descriptors
  BY <1>3, <1>5 DEF IInv, DescsFit
<1> HIDE DEF h, d, rec, r, g
<1>7. A.rts = r /\ A.sendto = h.dst /\ A.rmtcmd = d.rmtcmd
  BY <1>6 DEF Descriptors
<1> HIDE DEF A
<1>8. /\ desc'[l[2]][h.src] = A
      /\ \A m \in Nodes, q \in Procs : m # l[2] \/ q # h.src => desc'[m][q] = desc[m][q]
  BY <1>2, <1>3, <1>5, OneChanged DEF h
<1>9. \A q \in Procs : inq'[q] = IF q = h.dst THEN Append(inq[q], h.src) ELSE inq[q]
  BY <1>1, <1>3, QueuesTyped
<1>10. ToSet(Append(inq[h.dst], h.src)) = ToSet(inq[h.dst]) \cup {h.src}
  BY <1>3, QueuesTyped, ToSetAppend
<1>11. PlaceKept(k, x)
  BY <1>1, SamePlace
<1>12. CASE x # h.src \/ k # Back(l)
  <2>1. FlagsKept(k, x)
    BY <1>5, <1>8, <1>12, SameHere
  <2>2. Pictured(k, x) => LineKept(k, x)
    <3>1. ASSUME NEW q \in Procs, Home[q] = k[1], Pictured(k, x)
          PROVE  x \in ToSet(inq'[q]) <=> x \in ToSet(inq[q])
      <4>1. CASE q # h.dst
        BY <1>9, <4>1
      <4>2. CASE q = h.dst
        BY <1>3, <1>5, <1>9, <1>10, <1>12, <3>1, <4>2
      <4>3. QED
        BY <4>1, <4>2
    <3>2. QED
      BY <3>1 DEF LineKept
  <2>3. QED
    BY <1>11, <2>1, <2>2 DEF QueueStep, Still
<1>13. CASE x = h.src /\ k = Back(l)
  <2>1. Here(k, x) = d /\ Here(k, x)' = A /\ Pictured(k, x)
    BY <1>3, <1>5, <1>8, <1>13 DEF Here, Pictured, d
  <2>2. \A q \in Procs : x \in ToSet(inq'[q]) <=> x \in ToSet(inq[q]) \/ q = h.dst
    BY <1>9, <1>10, <1>13
  <2>3. "SENDING" \in A.rts /\ "RMTOPER" \notin A.rts
    BY <1>1, <1>7 DEF r
  <2>4. Unbusy(k, x)
    BY <1>1, <2>1 DEF Unbusy
  <2>5. Parks(k, x)
    BY <1>1, <1>4, <1>7, <1>11, <1>13, <2>1, <2>2, <2>3, <2>4 DEF Parks
  <2>6. QED
    BY <2>5 DEF QueueStep
<1>14. QED
  BY <1>12, <1>13

LEMMA NotifyQueues ==
    ASSUME IInv, AllLawful, NEW l \in Links, Put2lclNotify(l), NEW k \in Links, NEW x \in Procs
    PROVE  QueueStep(k, x)
<1> DEFINE h == Header(l)
           d == desc[l[2]][h.dst]
           noted == d.pending \cup {h.src}
           A == IF desc' = [desc EXCEPT ![l[2]][h.dst] = Wake(EndReceive(d), "OK")]
                THEN Wake(EndReceive(d), "OK") ELSE [d EXCEPT !.notify = TRUE, !.pending = noted]
<1>1. Arrives(l) /\ UNCHANGED <<outq, inq, sproxy>>
  BY DEF Put2lclNotify, Accepted
<1>2. Change(l[2], h.dst, A)
  BY DEF Put2lclNotify, Change
<1>3. h.dst \in Procs /\ Home[h.dst] = l[2] /\ l[2] \in Nodes /\ k[1] \in Nodes
  BY <1>1, ArrivingFacts, LinkFacts
<1>4. d \in Descriptors
  BY <1>3 DEF IInv, DescsFit
<1>5. A.rmtcmd = d.rmtcmd /\ ("RMTOPER" \in A.rts <=> "RMTOPER" \in d.rts)
  <2> HIDE DEF noted, d
  <2>1. /\ Wake(EndReceive(d), "OK").rts = d.rts \ {"RECEIVING"}
        /\ Wake(EndReceive(d), "OK").rmtcmd = d.rmtcmd
    BY <1>4, WokenFields
  <2>2. /\ [d EXCEPT !.notify = TRUE, !.pending = noted].rts = d.rts
        /\ [d EXCEPT !.notify = TRUE, !.pending = noted].rmtcmd = d.rmtcmd
    BY <1>4 DEF Descriptors
  <2>3. QED
    BY <2>1, <2>2
<1> HIDE DEF A
<1>6. /\ desc'[l[2]][h.dst] = A
      /\ \A m \in Nodes, q \in Procs : m # l[2] \/ q # h.dst => desc'[m][q] = desc[m][q]
  BY <1>2, <1>3, OneChanged
<1>7. PICK y \in Procs : y = h.dst
  BY <1>3
<1>8. FlagsKept(k, x)
  <2>1. Home[y] = l[2]
    BY <1>3, <1>7
  <2> HIDE DEF h
  <2>2. \A m \in Nodes, q \in Procs : m # Home[y] \/ q # y => desc'[m][q] = desc[m][q]
    BY <1>6, <1>7, <2>1
  <2>3. /\ "RMTOPER" \in desc'[Home[y]][y].rts <=> "RMTOPER" \in desc[Home[y]][y].rts
        /\ desc'[Home[y]][y].rmtcmd = desc[Home[y]][y].rmtcmd
    BY <1>5, <1>6, <1>7, <2>1
  <2>4. QED
    BY <2>2, <2>3, OwnFlags
<1>9. QED
  BY <1>1, <1>8, NoQueueMoved

LEMMA AckQueues ==
    ASSUME IInv, AllLawful, NEW l \in Links, Put2lclAck(l), NEW k \in Links, NEW x \in Procs
    PROVE  QueueStep(k, x)
<1> DEFINE h == Header(l)
           d == desc[l[2]][h.dst]
           waits == "SENDING" \in d.rts /\ d.sendto = h.src
           A == IF waits THEN Wake(EndSend(d), h.rcode) ELSE d
<1>1. Arrives(l) /\ UNCHANGED <<outq, inq, sproxy>> /\ Change(l[2], h.dst, A)
  BY DEF Put2lclAck, Accepted, Change
<1>2. /\ h.dst \in Procs /\ Home[h.dst] = l[2] /\ l[2] \in Nodes /\ k[1] \in Nodes
      /\ h.rcode \in {"OK", "error"}
  BY <1>1, ArrivingFacts, LinkFacts
<1>3. d \in Descriptors
  BY <1>2 DEF IInv, DescsFit
<1>4. A.rmtcmd = d.rmtcmd /\ ("RMTOPER" \in A.rts <=> "RMTOPER" \in d.rts)
  <2>1. PICK rc \in {"OK", "error"} : rc = h.rcode
    BY <1>2
  <2> HIDE DEF d, waits
  <2>2. A = IF waits THEN Wake(EndSend(d), rc) ELSE d
    BY <2>1
  <2> HIDE DEF A
  <2>3. /\ EndSend(d) \in Descriptors /\ EndSend(d).rts = d.rts \ {"SENDING"}
        /\ EndSend(d).rmtcmd = d.rmtcmd
    BY <1>3, EndSendFields
  <2>4. /\ Wake(EndSend(d), rc).rts = EndSend(d).rts
        /\ Wake(EndSend(d), rc).rmtcmd = EndSend(d).rmtcmd
    BY <2>3, WakeFields
  <2>5. QED
    BY <2>2, <2>3, <2>4
<1> HIDE DEF A
<1>5. /\ desc'[l[2]][h.dst] = A
      /\ \A m \in Nodes, q \in Procs : m # l[2] \/ q # h.dst => desc'[m][q] = desc[m][q]
  BY <1>1, <1>2, OneChanged
<1>6. PICK y \in Procs : y = h.dst
  BY <1>2
<1>7. FlagsKept(k, x)
  <2>1. Home[y] = l[2]
    BY <1>2, <1>6
  <2> HIDE DEF h
  <2>2. \A m \in Nodes, q \in Procs : m # Home[y] \/ q # y => desc'[m][q] = desc[m][q]
    BY <1>5, <1>6, <2>1
  <2>3. /\ "RMTOPER" \in desc'[Home[y]][y].rts <=> "RMTOPER" \in desc[Home[y]][y].rts
        /\ desc'[Home[y]][y].rmtcmd = desc[Home[y]][y].rmtcmd
    BY <1>4, <1>5, <1>6, <2>1
  <2>4. QED
    BY <2>2, <2>3, OwnFlags
<1>8. QED
  BY <1>1, <1>7, NoQueueMoved

\* Every step moves a descriptor through the queues in one of these ways.
LEMMA EveryQueueStep ==
    ASSUME IInv, AllLawful, [Next]_vars, NEW k \in Links, NEW x \in Procs
    PROVE  QueueStep(k, x)
<1>1. CASE UNCHANGED vars
  <2>1. UNCHANGED <<desc, outq, inq, sproxy>>
    BY <1>1 DEF vars
  <2>2. QED
    BY <2>1, SameHere, NoQueueMoved
<1>2. ASSUME NEW p \in Procs, Process(p)
      PROVE  QueueStep(k, x)
  <2>1. ASSUME NEW d \in Procs, Send(p, d) \/ Sendrec(p, d) \/ Notify(p, d) \/ Reply(p, d)
        PROVE  QueueStep(k, x)
    BY <2>1, CallSeen, RemoteQueues
  <2>2. ASSUME NEW s \in Sources[p], Receive(p, s)
        PROVE  QueueStep(k, x)
    BY <2>2, ReceiveTakeQueues, ThreadQueuesKept DEF Receive, ReceiveNow
  <2>3. QED
    BY <1>2, <2>1, <2>2, CallDoneQueues, ThreadQueuesKept DEF Process, Calling, Continue
<1>3. ASSUME NEW l \in Links, Get2rmt(l)
      PROVE  QueueStep(k, x)
  BY <1>3, LookQueues, SleepQueues, TakeQueues, DispatchQueues DEF Get2rmt
<1>4. ASSUME NEW l \in Links, Put2lcl(l)
      PROVE  QueueStep(k, x)
  BY <1>4, DeniedQueues, DroppedQueues, DeliverQueues, ParkQueues, NotifyQueues, AckQueues
     DEF Put2lcl
<1>5. QED
  BY <1>1, <1>2, <1>3, <1>4 DEF Next

-----------------------------------------------------------------------------
(* The queues are exact                                                      *)

\* A descriptor has RMTOPER, and a command, exactly while it is at the sender
\* proxy of its node.
OutFits(k, x) ==
    LET d == Here(k, x)
    IN  /\ "RMTOPER" \in d.rts <=> x \in ToSet(outq[k]) \/ Handled(k, x)
        /\ "RMTOPER" \in d.rts <=> d.rmtcmd.cmd # "NONE"
        /\ Handled(k, x) => x \notin ToSet(outq[k])
        /\ Offered(k, x) => x \in ToSet(outq[k])

\* An image that sends is in the queue of the process it sends to, in no other,
\* and not at the sender proxy.
InFits(k, x) ==
    LET d == Here(k, x)
    IN  /\ "SENDING" \in d.rts => "RMTOPER" \notin d.rts
        /\ \A q \in Procs : Home[q] = k[1] =>
              (x \in ToSet(inq[q]) <=> "SENDING" \in d.rts /\ d.sendto = q)
Stands(k, x) == OutFits(k, x) /\ InFits(k, x)

\* The image of a process nobody lets in never sends.
Barred(k, x) ==
    /\ "SENDING" \notin Here(k, x).rts
    /\ \A q \in Procs : Home[q] = k[1] => x \notin ToSet(inq[q])

LetIn(x) == IpcTo[x] \subseteq RmtIpcTo[x]
ShutOut(x) == IpcTo[x] \cap RmtIpcTo[x] = {}

LEMMA StandsStep ==
    ASSUME NEW k \in Links, NEW x \in Procs, Pictured(k, x), Stands(k, x), QueueStep(k, x),
           Refuses(k, x) => Unbusy(k, x)
    PROVE  Stands(k, x)'
<1> DEFINE d == Here(k, x)
           e == Here(k, x)'
<1>1. /\ "RMTOPER" \in d.rts <=> x \in ToSet(outq[k]) \/ Handled(k, x)
      /\ "RMTOPER" \in d.rts <=> d.rmtcmd.cmd # "NONE"
      /\ Handled(k, x) => x \notin ToSet(outq[k])
      /\ Offered(k, x) => x \in ToSet(outq[k])
      /\ "SENDING" \in d.rts => "RMTOPER" \notin d.rts
      /\ \A q \in Procs : Home[q] = k[1] =>
            (x \in ToSet(inq[q]) <=> "SENDING" \in d.rts /\ d.sendto = q)
  BY DEF Stands, OutFits, InFits
<1> HIDE DEF d, e
<1>2. SUFFICES /\ "RMTOPER" \in e.rts <=> x \in ToSet(outq'[k]) \/ Handled(k, x)'
               /\ "RMTOPER" \in e.rts <=> e.rmtcmd.cmd # "NONE"
               /\ Handled(k, x)' => x \notin ToSet(outq'[k])
               /\ Offered(k, x)' => x \in ToSet(outq'[k])
               /\ "SENDING" \in e.rts => "RMTOPER" \notin e.rts
               /\ \A q \in Procs : Home[q] = k[1] =>
                     (x \in ToSet(inq'[q]) <=> "SENDING" \in e.rts /\ e.sendto = q)
  BY DEF Stands, OutFits, InFits, e
<1>3. CASE Still(k, x)
  BY <1>1, <1>3 DEF Still, FlagsKept, CommandKept, PlaceKept, LineKept, d, e
<1>4. CASE Confirms(k, x) \/ Refuses(k, x)
  <2>1. /\ Joins(k, x) /\ LineKept(k, x) /\ "SENDING" \notin d.rts /\ "RMTOPER" \notin d.rts
        /\ "SENDING" \notin e.rts
    BY <1>4 DEF Confirms, Refuses, Unbusy, d, e
  <2>2. Offered(k, x)' => x \in ToSet(outq'[k])
    BY <2>1 DEF Joins
  <2>3. QED
    BY <1>1, <2>1, <2>2 DEF Joins, LineKept, e
<1>5. CASE Parks(k, x)
  BY <1>1, <1>5 DEF Parks, Unbusy, PlaceKept, d, e
<1>6. CASE Unparks(k, x)
  <2>1. /\ "SENDING" \in d.rts /\ "SENDING" \notin e.rts /\ x \notin ToSet(inq'[d.sendto])
        /\ \A q \in Procs : x \in ToSet(inq'[q]) => x \in ToSet(inq[q])
        /\ Joins(k, x) \/ (CommandKept(k, x) /\ PlaceKept(k, x))
    BY <1>6 DEF Unparks, d, e
  <2>2. \A q \in Procs : Home[q] = k[1] => x \notin ToSet(inq'[q])
    BY <1>1, <2>1
  <2>3. CASE Joins(k, x)
    BY <1>1, <2>1, <2>2, <2>3 DEF Joins, e
  <2>4. CASE CommandKept(k, x) /\ PlaceKept(k, x)
    BY <1>1, <2>1, <2>2, <2>4 DEF CommandKept, PlaceKept, d, e
  <2>5. QED
    BY <2>1, <2>3, <2>4
<1>7. CASE Unlinks(k, x)
  <2>1. /\ Offered(k, x) /\ Handled(k, x)' /\ x \notin ToSet(outq'[k]) /\ FlagsKept(k, x)
        /\ \A q \in Procs : x \in ToSet(inq'[q]) => x \in ToSet(inq[q])
    BY <1>7 DEF Unlinks
  <2>2. ~Offered(k, x)'
    BY <2>1 DEF Offered, Handled
  <2>3. QED
    BY <1>1, <2>1, <2>2 DEF FlagsKept, CommandKept, d, e
<1>8. CASE Departing(k, x)
  BY <1>1, <1>8 DEF Departing, d, e
<1>9. QED
  BY <1>3, <1>4, <1>5, <1>6, <1>7, <1>8 DEF QueueStep, Asks, Abandons

LEMMA BarredStep ==
    ASSUME NEW k \in Links, NEW x \in Procs, Pictured(k, x), Barred(k, x), QueueStep(k, x),
           ShutOut(x)
    PROVE  Barred(k, x)'
<1>1. ~Parks(k, x)
  BY DEF Parks, ShutOut
<1>2. CASE Still(k, x)
  BY <1>2 DEF Still, FlagsKept, LineKept, Barred
<1>3. CASE Confirms(k, x) \/ Refuses(k, x)
  BY <1>3 DEF Confirms, Refuses, LineKept, Barred
<1>4. CASE Unparks(k, x)
  BY <1>4 DEF Unparks, Barred
<1>5. CASE Unlinks(k, x)
  BY <1>5 DEF Unlinks, FlagsKept, Barred
<1>6. CASE Departing(k, x)
  BY <1>6 DEF Departing, Barred
<1>7. QED
  BY <1>1, <1>2, <1>3, <1>4, <1>5, <1>6 DEF QueueStep, Asks, Abandons

LEMMA LocalFitsStep ==
    ASSUME NEW k \in Links, NEW x \in Procs, ~Pictured(k, x), OutFits(k, x), QueueStep(k, x),
           pc[x] # "expired"
    PROVE  OutFits(k, x)'
<1> DEFINE d == Here(k, x)
           e == Here(k, x)'
<1>1. /\ "RMTOPER" \in d.rts <=> x \in ToSet(outq[k]) \/ Handled(k, x)
      /\ "RMTOPER" \in d.rts <=> d.rmtcmd.cmd # "NONE"
      /\ Handled(k, x) => x \notin ToSet(outq[k])
      /\ Offered(k, x) => x \in ToSet(outq[k])
  BY DEF OutFits
<1> HIDE DEF d, e
<1>2. SUFFICES /\ "RMTOPER" \in e.rts <=> x \in ToSet(outq'[k]) \/ Handled(k, x)'
               /\ "RMTOPER" \in e.rts <=> e.rmtcmd.cmd # "NONE"
               /\ Handled(k, x)' => x \notin ToSet(outq'[k])
               /\ Offered(k, x)' => x \in ToSet(outq'[k])
  BY DEF OutFits, e
<1>3. CASE Still(k, x)
  BY <1>1, <1>3 DEF Still, FlagsKept, CommandKept, PlaceKept, d, e
<1>4. CASE Asks(k, x)
  BY <1>1, <1>4 DEF Asks, Joins, d, e
<1>5. CASE Unlinks(k, x)
  <2>1. ~Offered(k, x)'
    BY <1>5 DEF Unlinks, Offered, Handled
  <2>2. QED
    BY <1>1, <1>5, <2>1 DEF Unlinks, FlagsKept, CommandKept, d, e
<1>6. CASE Departing(k, x)
  BY <1>1, <1>6 DEF Departing, d, e
<1>7. QED
  BY <1>3, <1>4, <1>5, <1>6 DEF QueueStep, Confirms, Refuses, Parks, Unparks, Abandons

\* Whoever is let in wherever it may call is never refused.
LEMMA NeverRefused ==
    ASSUME IInv, AllLawful, NEW k \in Links, NEW x \in Procs, LetIn(x)
    PROVE  ~Refuses(k, x)
<1> SUFFICES ASSUME Refuses(k, x) PROVE FALSE
  OBVIOUS
<1> DEFINE h == Header(Back(k))
<1>1. net[Back(k)] # <<>> /\ h \in Mail(x) /\ ~Admitted(h) /\ Back(k) \in Links
  BY LinkFacts DEF Refuses
<1>2. h \in ToSet(net[Back(k)])
  BY <1>1, NetTyped, ToSetTail DEF Header
<1>3. Lawful(h)
  BY <1>1, <1>2 DEF AllLawful
<1>4. QED
  BY <1>1, <1>3 DEF Lawful, Mail, LetIn, Admitted

LEMMA QueuesInit ==
    ASSUME Init, NEW k \in Links, NEW x \in Procs
    PROVE  OutFits(k, x) /\ InFits(k, x) /\ Barred(k, x)
<1>1. /\ Here(k, x).rts = {} /\ Here(k, x).rmtcmd.cmd = "NONE" /\ outq[k] = <<>>
      /\ \A q \in Procs : inq[q] = <<>>
      /\ ~Handled(k, x) /\ ~Offered(k, x)
  BY LinkFacts DEF Init, Clean, NoCommand, Here, Handled, Offered
<1>2. ToSet(<<>>) = {}
  BY DEF ToSet
<1>3. QED
  BY <1>1, <1>2 DEF OutFits, InFits, Barred

ImagesStand ==
    \A k \in Links, x \in Procs : Pictured(k, x) =>
        /\ LetIn(x) => Stands(k, x)
        /\ ShutOut(x) => Barred(k, x)

LEMMA ImagesInvariance == Spec => []ImagesStand
<1>1. Init => ImagesStand
  BY QueuesInit DEF ImagesStand, Stands
<1>2. IInv /\ AllLawful /\ ImagesStand /\ [Next]_vars => ImagesStand'
  <2> SUFFICES ASSUME IInv, AllLawful, ImagesStand, [Next]_vars,
                      NEW k \in Links, NEW x \in Procs, Pictured(k, x)
               PROVE  (LetIn(x) => Stands(k, x)') /\ (ShutOut(x) => Barred(k, x)')
    BY DEF ImagesStand, Pictured
  <2>1. QueueStep(k, x)
    BY EveryQueueStep
  <2>2. QED
    BY <2>1, NeverRefused, StandsStep, BarredStep DEF ImagesStand
<1>3. QED
  BY <1>1, <1>2, ChainsInvariance, PTL DEF Spec

\* The queue of a process links exactly the images that send to it, for any
\* processes and timeouts, if each process is let in wherever it may call, or
\* nowhere.  (Else a refusal queues its image at the sender proxy while it may
\* still wait in the queue of a process that lets it in.)
THEOREM QueuesExact ==
    ASSUME \A x \in Procs : LetIn(x) \/ ShutOut(x)
    PROVE  Spec => []InqExact
<1>1. IInv /\ ImagesStand => InqExact
  <2> SUFFICES ASSUME IInv, ImagesStand, NEW q \in Procs, NEW x \in Procs
               PROVE  LET d == desc[Home[q]][x]
                      IN  x \in ToSet(inq[q]) <=>
                             IsImage(Home[q], x) /\ "SENDING" \in d.rts /\ d.sendto = q
    BY DEF InqExact
  <2>1. CASE Home[x] = Home[q]
    BY <2>1, QueuesTyped DEF IsImage
  <2>2. CASE Home[x] # Home[q]
    <3>1. PICK k \in Links : k[1] = Home[q]
      BY LinkOf
    <3>2. Stands(k, x) \/ Barred(k, x)
      BY <2>2, <3>1 DEF ImagesStand, Pictured
    <3>3. QED
      BY <2>2, <3>1, <3>2 DEF Stands, InFits, Barred, Here, IsImage
  <2>3. QED
    BY <2>1, <2>2
<1>2. QED
  BY <1>1, ImagesInvariance, Invariance, PTL

-----------------------------------------------------------------------------
(* The journey of a call                                                     *)

\* Calls neither time out nor are interrupted; who is not let in wherever it
\* may call makes plain calls only, whose refusals it hears; and who may ask by
\* sendrec is called by replies only.
Orderly ==
    /\ Impatient = {}
    /\ \A p \in Procs : LetIn(p) \/ DvkAllowed[p] \cap {"sendrec", "notify"} = {}
    /\ \A p, q \in Procs : p \in IpcTo[q] /\ "sendrec" \in DvkAllowed[p] =>
          DvkAllowed[q] \cap {"send", "sendrec", "notify"} = {}

\* Where the call of p is, whose way out is l: in its descriptor, in the
\* connection, in its image at the peer, and the answer in the image, or in the
\* other connection.
AtHome(l, p) == "RMTOPER" \in Local(l, p).rts
OnWay(l, p) == LettersOf(l, p) # {}
AtPeer(l, p) == "SENDING" \in Image(l, p).rts
AtReturn(l, p) == "RMTOPER" \in Image(l, p).rts
OnReturn(l, p) == AcksOf(l, p) # {}
Abroad(l, p) == OnWay(l, p) \/ AtPeer(l, p) \/ AtReturn(l, p) \/ OnReturn(l, p)

AtMostOne(s, S) == \A i, j \in DOMAIN s : s[i] \in S /\ s[j] \in S => i = j
OneAck(l, p) == AtMostOne(net[Back(l)], Acks(p))
Lone(l, p) ==
    /\ AtHome(l, p) => ~Abroad(l, p)
    /\ OnWay(l, p) => ~AtPeer(l, p) /\ ~AtReturn(l, p) /\ ~OnReturn(l, p)
    /\ AtPeer(l, p) => ~AtReturn(l, p) /\ ~OnReturn(l, p)
    /\ AtReturn(l, p) => ~OnReturn(l, p)

\* What the descriptor and the thread of p hold meanwhile.
Awaited(op) == IF op = "sendrec" THEN {"RECEIVING"} ELSE {"SENDING"}
Bears(p, c) ==       \* c is the command of the call of p
    /\ c.cmd = Cmd(call[p].op) /\ c.src = p /\ c.dst = call[p].peer /\ c.msg.n = call[p].n
Way(l, p) ==
    LET d == Local(l, p)
        i == Image(l, p)
        op == call[p].op
        peer == call[p].peer
    IN  /\ pc[p] # "expired"
        /\ op \in RemoteCalls => op \in DvkAllowed[p] /\ peer \in IpcTo[p] /\ call[p].n > 0
        /\ pc[p] = "sleep" => (d.rts # {} <=> d.sem = -1)
        /\ op = "sendrec" /\ d.rts # {} => d.getfrom = peer
        /\ AtHome(l, p) => /\ pc[p] = "sleep" /\ op \in RemoteCalls
                           /\ d.rts = CallFlags(op) /\ Bears(p, d.rmtcmd)
        /\ pc[p] = "sleep" /\ op \in RemoteCalls /\ ~AtHome(l, p) =>
              d.rts = {} \/ (op # "notify" /\ d.rts = Awaited(op))
        /\ Abroad(l, p) => /\ pc[p] = "sleep" /\ op \in {"send", "sendrec", "reply"}
                           /\ d.rts = Awaited(op)
        /\ \A c \in LettersOf(l, p) : Bears(p, c)
        /\ AtPeer(l, p) => /\ i.sendto = peer /\ ("RECEIVING" \in i.rts <=> op = "sendrec")
                           /\ \/ i.message.cmd = Cmd(op) /\ i.message.n = call[p].n
                              \/ op # "sendrec" /\ i.message.cmd = "NTFY_MSG"
        /\ AtReturn(l, p) \/ OnReturn(l, p) => op # "sendrec"

\* The client d awaits the reply of p to its request re: a server owes it, or
\* has it on its way.
Awaits(d, p, re) ==
    /\ pc[d] = "sleep" /\ call[d].op = "sendrec" /\ call[d].peer = p /\ call[d].n = re
    /\ Mine(d).rts = {"RECEIVING"} /\ Mine(d).getfrom = p
    /\ \A l \in Links : Home[d] = l[1] => ~Abroad(l, d)
Owing == \A p, d \in Procs : owed[p][d] # 0 => Awaits(d, p, owed[p][d])
ReplyOf(p, c) ==
    c.cmd = "REPLY_MSG" => Awaits(c.dst, p, c.msg.re) /\ owed[p][c.dst] = 0
Replying(l, p) ==
    /\ AtHome(l, p) => ReplyOf(p, Local(l, p).rmtcmd)
    /\ \A c \in LettersOf(l, p) : ReplyOf(p, c)

\* The image of a client receives while its request queues, or is owed a reply.
Expecting(l, p) ==
    "RECEIVING" \in Image(l, p).rts => AtPeer(l, p) \/ \E q \in Procs : owed[q][p] # 0

\* All of it, for p.
Travels(l, p) ==
    /\ OutFits(l, p) /\ Stands(Back(l), p)
    /\ OneAck(l, p) /\ Lone(l, p) /\ Way(l, p)
Journey(l, p) == Travels(l, p) /\ Replying(l, p) /\ Expecting(l, p)
Journeys == Owing /\ \A l \in Links, p \in Procs : Home[p] = l[1] => Journey(l, p)

-----------------------------------------------------------------------------
(* A step keeps what it is about                                             *)

LEMMA LettersShrink ==
    ASSUME NEW l, NEW p
    PROVE  /\ NoMoreMail(l, p) => LettersOf(l, p)' \subseteq LettersOf(l, p)
           /\ NoMoreAcks(l, p) => AcksOf(l, p)' \subseteq AcksOf(l, p)
BY DEF NoMoreMail, NoMoreAcks, MailOf, LettersOf, Letters

\* One side only: whatever may have been lost, nothing else changed.
LEMMA QuietJourney ==
    ASSUME NEW l \in Links, NEW p \in Procs, Lone(l, p), Way(l, p), Quiet(l, p)
    PROVE  Lone(l, p)' /\ Way(l, p)'
<1>1. /\ SameLocal(l, p) /\ SameImage(l, p) /\ SameThread(p)
      /\ LettersOf(l, p)' \subseteq LettersOf(l, p) /\ AcksOf(l, p)' \subseteq AcksOf(l, p)
  BY LettersShrink DEF Quiet, NoMore
<1>2. /\ AtHome(l, p)' <=> AtHome(l, p)
      /\ AtPeer(l, p)' <=> AtPeer(l, p)
      /\ AtReturn(l, p)' <=> AtReturn(l, p)
      /\ OnWay(l, p)' => OnWay(l, p)
      /\ OnReturn(l, p)' => OnReturn(l, p)
  BY <1>1 DEF SameLocal, SameImage, AtHome, AtPeer, AtReturn, OnWay, OnReturn
<1>3. Abroad(l, p)' => Abroad(l, p)
  BY <1>2 DEF Abroad
<1>4. \A c : Bears(p, c)' <=> Bears(p, c)
  BY <1>1 DEF SameThread, Bears
<1>5. Lone(l, p)'
  BY <1>2, <1>3 DEF Lone
<1>6. QED
  BY <1>1, <1>2, <1>3, <1>4, <1>5 DEF Way, SameLocal, SameImage, SameThread

-----------------------------------------------------------------------------
(* One acknowledgement at a time                                             *)

LEMMA AtMostOneTail ==
    ASSUME NEW T, NEW s \in Seq(T), s # <<>>, NEW S, AtMostOne(s, S)
    PROVE  /\ AtMostOne(Tail(s), S)
           /\ Head(s) \in S => ToSet(Tail(s)) \cap S = {}
<1>1. /\ Len(s) \in Nat /\ Len(s) > 0 /\ Head(s) = s[1] /\ DOMAIN s = 1 .. Len(s)
      /\ DOMAIN Tail(s) = 1 .. Len(s) - 1
      /\ \A i \in 1 .. Len(s) - 1 : Tail(s)[i] = s[i + 1]
  OBVIOUS
<1>2. \A i \in 1 .. Len(s) - 1 : i + 1 \in 1 .. Len(s) /\ i + 1 # 1
  BY <1>1
<1>3. \A i, j \in 1 .. Len(s) : s[i] \in S /\ s[j] \in S => i = j
  BY <1>1 DEF AtMostOne
<1>4. ASSUME NEW i \in 1 .. Len(s) - 1, NEW j \in 1 .. Len(s) - 1,
             Tail(s)[i] \in S, Tail(s)[j] \in S
      PROVE  i = j
  <2>1. i + 1 = j + 1
    BY <1>1, <1>2, <1>3, <1>4
  <2>2. QED
    BY <2>1
<1>5. ASSUME Head(s) \in S, NEW c \in ToSet(Tail(s)) \cap S
      PROVE  FALSE
  <2>1. PICK i \in 1 .. Len(s) - 1 : Tail(s)[i] = c
    BY <1>1, <1>5 DEF ToSet
  <2>2. 1 \in 1 .. Len(s)
    BY <1>1
  <2>3. QED
    BY <1>1, <1>2, <1>3, <1>5, <2>1, <2>2
<1>6. QED
  BY <1>1, <1>4, <1>5 DEF AtMostOne

LEMMA AtMostOneAppend ==
    ASSUME NEW T, NEW s \in Seq(T), NEW c \in T, NEW S, AtMostOne(s, S),
           c \in S => ToSet(s) \cap S = {}
    PROVE  AtMostOne(Append(s, c), S)
<1>1. /\ DOMAIN Append(s, c) = 1 .. Len(s) + 1 /\ Len(s) \in Nat /\ DOMAIN s = 1 .. Len(s)
      /\ Append(s, c)[Len(s) + 1] = c
      /\ \A i \in 1 .. Len(s) : Append(s, c)[i] = s[i] /\ s[i] \in ToSet(s)
  BY DEF ToSet
<1>2. \A i \in 1 .. Len(s) + 1 : i \in 1 .. Len(s) \/ i = Len(s) + 1
  BY <1>1
<1>3. QED
  BY <1>1, <1>2 DEF AtMostOne

\* An acknowledgement leaves only from the image of its process.
LEMMA OneAckStep ==
    ASSUME IInv, AllLawful, [Next]_vars, NEW l \in Links, NEW p \in Procs, Home[p] = l[1],
           Travels(l, p)
    PROVE  OneAck(l, p)'
<1> DEFINE k == Back(l)
<1>1. k \in Links /\ net[k] \in Seq(Commands) /\ NetStep(k) /\ k[1] = l[2] /\ l[2] \in Nodes
  BY EndFacts, NetTyped, EveryNetStep
<1>2. AtMostOne(net[k], Acks(p))
  BY DEF Travels, OneAck
<1>3. CASE net'[k] = net[k]
  BY <1>2, <1>3 DEF OneAck
<1>4. CASE net[k] # <<>> /\ net'[k] = Tail(net[k])
  BY <1>1, <1>2, <1>4, AtMostOneTail DEF OneAck
<1>5. ASSUME sproxy[k].at = "taken", sproxy[k].xpp \in Procs,
             desc[k[1]][sproxy[k].xpp].rmtcmd.cmd # "NONE",
             net'[k] = Append(net[k], desc[k[1]][sproxy[k].xpp].rmtcmd)
      PROVE  AtMostOne(net'[k], Acks(p))
  <2> DEFINE x == sproxy[k].xpp
             c == desc[k[1]][x].rmtcmd
  <2>1. x \in Procs /\ c \in Commands /\ Labelled(k[1], x)
    BY <1>1, <1>5 DEF IInv, DescsFit, Descriptors, AllLawful
  <2>2. c \in Acks(p) => x = p
    BY <2>1 DEF Labelled, Acks
  <2>3. x = p => ToSet(net[k]) \cap Acks(p) = {}
    <3>1. x = p => Handled(k, p)
      BY <1>5 DEF Handled
    <3>2. Handled(k, p) => "RMTOPER" \in Here(k, p).rts
      BY DEF Travels, Stands, OutFits
    <3>3. "RMTOPER" \in Here(k, p).rts => ~OnReturn(l, p)
      BY <1>1 DEF Travels, Lone, AtReturn, Image, Here
    <3>4. QED
      BY <3>1, <3>2, <3>3 DEF OnReturn, AcksOf
  <2> HIDE DEF x
  <2>4. c \in Acks(p) => ToSet(net[k]) \cap Acks(p) = {}
    BY <2>2, <2>3
  <2>5. net'[k] = Append(net[k], c)
    BY <1>5 DEF x
  <2> HIDE DEF c, k
  <2>6. QED
    BY <1>1, <1>2, <2>1, <2>4, <2>5, AtMostOneAppend
<1>6. QED
  BY <1>1, <1>3, <1>4, <1>5 DEF NetStep, OneAck

-----------------------------------------------------------------------------
(* The steps at the home of p                                                *)

LEMMA NothingNew ==
    ASSUME NEW l, NEW p, SameImage(l, p), NoMore(l, p)
    PROVE  /\ AtPeer(l, p)' <=> AtPeer(l, p)
           /\ AtReturn(l, p)' <=> AtReturn(l, p)
           /\ OnWay(l, p)' => OnWay(l, p)
           /\ OnReturn(l, p)' => OnReturn(l, p)
           /\ Abroad(l, p)' => Abroad(l, p)
           /\ LettersOf(l, p)' \subseteq LettersOf(l, p)
<1>1. LettersOf(l, p)' \subseteq LettersOf(l, p) /\ AcksOf(l, p)' \subseteq AcksOf(l, p)
  BY LettersShrink DEF NoMore
<1>2. QED
  BY <1>1 DEF SameImage, AtPeer, AtReturn, OnWay, OnReturn, Abroad

\* A call that is somewhere sleeps.
LEMMA AtRest ==
    ASSUME NEW l, NEW p, Travels(l, p), pc[p] # "sleep" \/ Local(l, p).rts = {}
    PROVE  ~AtHome(l, p) /\ ~Abroad(l, p)
<1>1. Awaited(call[p].op) # {}
  BY DEF Awaited
<1>2. QED
  BY <1>1 DEF Travels, Way, AtHome

LEMMA BeginsTravels ==
    ASSUME IInv, NEW l \in Links, NEW p \in Procs, Home[p] = l[1], Travels(l, p),
           NEW op \in RemoteCalls, NEW d \in Procs, Begins(l, p, op, d)
    PROVE  Lone(l, p)' /\ Way(l, p)'
<1> DEFINE e == Local(l, p)'
           c == Commanding(p, op, d)
<1>1. /\ pc[p] = "user" /\ op \in DvkAllowed[p] /\ d \in IpcTo[p] /\ pc'[p] = "sleep"
      /\ call'[p] = [op |-> op, peer |-> d, n |-> call[p].n + 1]
      /\ e.rts = CallFlags(op) /\ e.sem = -1 /\ e.rmtcmd = c
      /\ op = "sendrec" => e.getfrom = d
      /\ SameImage(l, p) /\ NoMore(l, p)
  BY DEF Begins
<1>2. ~Abroad(l, p)'
  BY <1>1, AtRest, NothingNew
<1>3. Lone(l, p)'
  BY <1>2 DEF Lone, Abroad
<1>4. /\ call'[p].op = op /\ call'[p].peer = d /\ call'[p].n = call[p].n + 1
      /\ call[p].n \in Nat
  BY <1>1 DEF IInv, DescsFit
<1>5. c.cmd = Cmd(op) /\ c.src = p /\ c.dst = d /\ c.msg.n = call[p].n + 1
  BY DEF Commanding
<1> HIDE DEF c, e
<1>6. Bears(p, Local(l, p).rmtcmd)'
  BY <1>1, <1>4, <1>5 DEF Bears, e
<1>7. "RMTOPER" \in e.rts
  BY <1>1 DEF CallFlags
<1>8. LettersOf(l, p)' = {} /\ ~AtPeer(l, p)' /\ ~AtReturn(l, p)' /\ ~OnReturn(l, p)'
  BY <1>2 DEF Abroad, OnWay
<1>9. Way(l, p)'
  BY <1>1, <1>2, <1>4, <1>6, <1>7, <1>8 DEF Way, AtHome, e
<1>10. QED
  BY <1>3, <1>9

\* A receive, and the end of a call.
LEMMA RestingTravels ==
    ASSUME IInv, NEW l \in Links, NEW p \in Procs, Home[p] = l[1], Travels(l, p),
           Receives(l, p) \/ Awaiting(l, p) \/ Finishes(l, p)
    PROVE  Lone(l, p)' /\ Way(l, p)'
<1> DEFINE e == Local(l, p)'
<1>1. SameImage(l, p) /\ NoMore(l, p)
  BY DEF Receives, Awaiting, Finishes
<1>2. pc[p] # "sleep" \/ Local(l, p).rts = {}
  BY DEF Receives, Awaiting, Finishes
<1>3. ~Abroad(l, p)' /\ ~AtHome(l, p)
  BY <1>1, <1>2, AtRest, NothingNew
<1>4. Lone(l, p)'
  BY <1>3 DEF Lone, Abroad
<1>5. LettersOf(l, p)' = {} /\ ~AtPeer(l, p)' /\ ~AtReturn(l, p)' /\ ~OnReturn(l, p)'
  BY <1>3 DEF Abroad, OnWay
<1>6. /\ pc'[p] = "user" \/ (pc'[p] = "sleep" /\ e.rts = {"RECEIVING"} /\ e.sem = -1)
      /\ call'[p].op = "receive" \/ (call'[p] = call[p] /\ e.rts = {})
      /\ pc'[p] = "sleep" => call'[p].op = "receive"
      /\ "RMTOPER" \notin e.rts
  BY <1>3 DEF Receives, Awaiting, Finishes, SameLocal, AtHome
<1> HIDE DEF e
<1>7. Way(l, p)'
  BY <1>3, <1>5, <1>6 DEF Way, AtHome, e, RemoteCalls, Travels
<1>8. QED
  BY <1>4, <1>7

\* The command leaves.
LEMMA DepartsTravels ==
    ASSUME IInv, NEW l \in Links, NEW p \in Procs, Home[p] = l[1], Travels(l, p), Departs(l, p)
    PROVE  Lone(l, p)' /\ Way(l, p)'
<1> DEFINE d == Local(l, p)
           e == Local(l, p)'
           op == call[p].op
           c == d.rmtcmd
           sent == d.rts \ ({"RMTOPER"} \cup
                            IF c.cmd \in {"SNDREC_MSG", "NTFY_MSG"} THEN {"SENDING"} ELSE {})
<1>1. /\ Handled(l, p) /\ net'[l] = Append(net[l], c)
      /\ e.rts = sent /\ e.getfrom = d.getfrom
      /\ IF c.cmd = "NTFY_MSG" THEN Woken(d, e, "OK") ELSE e.sem = d.sem /\ e.rcode = d.rcode
      /\ SameThread(p) /\ SameImage(l, p) /\ NoMoreAcks(l, p)
  BY DEF Departs, Handled
<1>2. /\ OutFits(l, p) /\ Lone(l, p)
      /\ AtHome(l, p) => pc[p] = "sleep" /\ op \in RemoteCalls /\ d.rts = CallFlags(op) /\ Bears(p, c)
      /\ pc[p] = "sleep" => (d.rts # {} <=> d.sem = -1)
      /\ op \in RemoteCalls => op \in DvkAllowed[p] /\ call[p].peer \in IpcTo[p] /\ call[p].n > 0
      /\ op = "sendrec" /\ d.rts # {} => d.getfrom = call[p].peer
  BY DEF Travels, Way
<1>3. AtHome(l, p)
  BY <1>1, <1>2 DEF OutFits, AtHome, Here, Local
<1>4. /\ pc[p] = "sleep" /\ op \in RemoteCalls /\ d.rts = CallFlags(op) /\ Bears(p, c)
      /\ ~Abroad(l, p) /\ c \in Commands /\ net[l] \in Seq(Commands) /\ d.sem = -1
  <2>1. d \in Descriptors
    BY EndFacts DEF Local
  <2>2. CallFlags(op) # {}
    BY DEF CallFlags
  <2>3. QED
    BY <1>2, <1>3, <2>1, <2>2, NetTyped DEF Lone, Descriptors
<1>5. /\ c.cmd = Cmd(op) /\ (c.cmd = "NTFY_MSG" <=> op = "notify")
      /\ (c.cmd = "SNDREC_MSG" <=> op = "sendrec")
  BY <1>4, CmdFacts DEF Bears
<1> HIDE DEF d, e, c, op
<1>6. e.rts = IF op = "notify" THEN {} ELSE Awaited(op)
  BY <1>1, <1>4, <1>5 DEF CallFlags, Awaited, RemoteCalls
<1>7. e.rts # {} <=> e.sem = -1
  <2>1. CASE op = "notify"
    BY <1>1, <1>4, <1>5, <1>6, <2>1 DEF Woken
  <2>2. CASE op # "notify"
    <3>1. e.sem = -1
      BY <1>1, <1>4, <1>5, <2>2
    <3>2. e.rts # {}
      BY <1>6, <2>2 DEF Awaited
    <3>3. QED
      BY <3>1, <3>2
  <2>3. QED
    BY <2>1, <2>2
<1>8. ToSet(net'[l]) = ToSet(net[l]) \cup {c}
  BY <1>1, <1>4, ToSetAppend
<1>9. LettersOf(l, p)' \subseteq {c} /\ (op = "notify" => LettersOf(l, p)' = {})
  BY <1>4, <1>5, <1>8 DEF LettersOf, Letters, Abroad, OnWay
<1>10. ~AtPeer(l, p)' /\ ~AtReturn(l, p)' /\ ~OnReturn(l, p)'
  <2>1. AcksOf(l, p)' = {}
    BY <1>1, <1>4, LettersShrink DEF Abroad, OnReturn
  <2>2. QED
    BY <1>1, <1>4, <2>1 DEF Abroad, AtPeer, AtReturn, OnReturn, SameImage
<1>11. ~AtHome(l, p)'
  BY <1>6 DEF AtHome, Awaited, e
<1>12. Lone(l, p)'
  BY <1>10, <1>11 DEF Lone
<1>13. Abroad(l, p)' => op \in {"send", "sendrec", "reply"} /\ e.rts = Awaited(op)
  BY <1>4, <1>6, <1>9, <1>10 DEF Abroad, OnWay, RemoteCalls
<1>14. \A b \in LettersOf(l, p)' : Bears(p, b)'
  BY <1>1, <1>4, <1>9 DEF Bears, SameThread
<1>15. op = "sendrec" => e.getfrom = call[p].peer
  BY <1>1, <1>2, <1>4, <1>6 DEF CallFlags
<1>16. call'[p] = call[p] /\ pc'[p] = pc[p]
  BY <1>1 DEF SameThread
<1>17. Way(l, p)'
  BY <1>2, <1>4, <1>6, <1>7, <1>10, <1>11, <1>13, <1>14, <1>15, <1>16 DEF Way, e, op
<1>18. QED
  BY <1>12, <1>17

\* Whoever waits for the reply to its request hears nothing else, and hears it
\* when nothing of its own call is under way.
LEMMA AskedReply ==
    ASSUME IInv, AllLawful, Orderly, Journeys, NEW l \in Links, NEW p \in Procs, Home[p] = l[1],
           Hears(l, p), call[p].op = "sendrec"
    PROVE  LET h == Header(Back(l))
           IN  /\ h.cmd = "REPLY_MSG" /\ h.src = call[p].peer /\ h.src \in Procs
               /\ Home[h.src] = l[2] /\ h \in LettersOf(Back(l), h.src)
               /\ Awaits(p, h.src, h.msg.re) /\ owed[h.src][p] = 0
<1> DEFINE h == Header(Back(l))
           d == Local(l, p)
<1>1. /\ net[Back(l)] # <<>> /\ h.cmd \in MsgCmds /\ h.dst = p /\ Waits(d, h.src)
  BY DEF Hears
<1>2. /\ Back(l) \in Links /\ Back(l)[1] = l[2] /\ net[Back(l)] \in Seq(Commands)
  BY EndFacts, NetTyped
<1>3. /\ h \in Commands /\ h \in ToSet(net[Back(l)]) /\ h.src \in Procs /\ Home[h.src] = l[2]
  BY <1>1, <1>2, HeaderFacts, ToSetTail DEF IInv, Header
<1>4. Lawful(h) /\ Journey(l, p) /\ Journey(Back(l), h.src)
  BY <1>2, <1>3 DEF AllLawful, Journeys
<1>5. /\ "sendrec" \in DvkAllowed[p] /\ call[p].peer \in IpcTo[p]
      /\ d.rts # {} => d.getfrom = call[p].peer
  BY <1>4 DEF Journey, Travels, Way, RemoteCalls
<1> HIDE DEF h, d
<1>6. p \in IpcTo[h.src] /\ CallOf[h.cmd] \in DvkAllowed[h.src]
  BY <1>1, <1>4 DEF Lawful
<1>7. CallOf[h.cmd] \notin {"send", "sendrec", "notify"}
  BY <1>3, <1>5, <1>6 DEF Orderly
<1>8. h.cmd = "REPLY_MSG"
  BY <1>1, <1>7 DEF CallOf, MsgCmds
<1>9. h.src = call[p].peer
  <2>1. d.getfrom \in {ANY, h.src} /\ d.getfrom = call[p].peer
    BY <1>1, <1>5 DEF Waits
  <2>2. call[p].peer \in Procs
    BY <1>5, PrivAssumption
  <2>3. QED
    BY <2>1, <2>2, NamesAssumption
<1>10. h \in LettersOf(Back(l), h.src)
  BY <1>1, <1>3, <1>8 DEF LettersOf, Letters, Mail
<1>11. ReplyOf(h.src, h)
  BY <1>4, <1>10 DEF Journey, Replying
<1>12. QED
  BY <1>1, <1>3, <1>8, <1>9, <1>10, <1>11 DEF ReplyOf, h

LEMMA HearsTravels ==
    ASSUME IInv, AllLawful, Orderly, Journeys, NEW l \in Links, NEW p \in Procs, Home[p] = l[1],
           Hears(l, p)
    PROVE  Lone(l, p)' /\ Way(l, p)'
<1> DEFINE h == Header(Back(l))
           d == Local(l, p)
           e == Local(l, p)'
           op == call[p].op
<1>1. /\ "RECEIVING" \in d.rts /\ "SENDING" \notin d.rts
      /\ e.rts = d.rts \ {"RECEIVING"} /\ Woken(d, e, "OK")
      /\ SameThread(p) /\ SameImage(l, p) /\ NoMore(l, p)
  BY DEF Hears, Waits
<1>2. /\ Travels(l, p) /\ Fits(d, pc[p], op) /\ d.sem \in Int
  <2>1. d = Mine(p) /\ d \in Descriptors
    BY EndFacts DEF Local
  <2>2. QED
    BY <2>1, MineFacts DEF Journeys, Journey, IInv, Descriptors
<1>3. /\ pc[p] = "sleep" /\ (d.rts # {} <=> d.sem = -1) /\ op \in RemoteCalls \cup {"receive"}
  <2>1. /\ pc[p] # "user" /\ pc[p] # "expired" /\ pc[p] \in {"user", "sleep", "expired"}
        /\ op \in Calls \cup {"none"} /\ op # "none"
    BY <1>1, <1>2 DEF Fits, Travels, Way, IInv, DescsFit
  <2>2. QED
    BY <1>2, <2>1 DEF Travels, Way, Calls, RemoteCalls
<1>4. /\ op \in {"receive", "sendrec"} /\ d.rts = {"RECEIVING"} /\ ~AtHome(l, p) /\ ~Abroad(l, p)
  <2>1. CASE op = "receive"
    BY <1>1, <1>2, <2>1 DEF Fits, Waiting, Travels, Way, AtHome
  <2>2. CASE op = "sendrec"
    <3>1. Awaits(p, h.src, h.msg.re)
      BY <2>2, AskedReply
    <3>2. d.rts = {"RECEIVING"} /\ ~Abroad(l, p)
      BY <3>1, EndFacts DEF Awaits, Local
    <3>3. QED
      BY <2>2, <3>2 DEF AtHome
  <2>3. CASE op \in {"send", "reply", "notify"}
    <3>1. "RECEIVING" \notin CallFlags(op) /\ op # "receive"
      BY <2>3 DEF CallFlags
    <3>2. QED
      BY <1>1, <1>2, <1>3, <3>1 DEF Fits, Waiting
  <2>4. QED
    BY <1>3, <2>1, <2>2, <2>3 DEF RemoteCalls
<1>5. e.rts = {} /\ e.sem = 0
  BY <1>1, <1>3, <1>4 DEF Woken
<1> HIDE DEF h, d, e, op
<1>6. ~Abroad(l, p)' /\ ~AtHome(l, p)'
  BY <1>1, <1>4, <1>5, NothingNew DEF AtHome, e
<1>7. Lone(l, p)'
  BY <1>6 DEF Lone, Abroad
<1>8. LettersOf(l, p)' = {} /\ ~AtPeer(l, p)' /\ ~AtReturn(l, p)' /\ ~OnReturn(l, p)'
  BY <1>6 DEF Abroad, OnWay
<1>9. call'[p] = call[p] /\ pc'[p] = pc[p]
  BY <1>1 DEF SameThread
<1>10. Way(l, p)'
  BY <1>2, <1>3, <1>5, <1>6, <1>8, <1>9 DEF Way, Travels, e, op
<1>11. QED
  BY <1>7, <1>10

\* The acknowledgement is the only one.
LEMMA IsToldTravels ==
    ASSUME IInv, NEW l \in Links, NEW p \in Procs, Home[p] = l[1], Travels(l, p), IsTold(l, p)
    PROVE  Lone(l, p)' /\ Way(l, p)'
<1> DEFINE k == Back(l)
           d == Local(l, p)
           e == Local(l, p)'
           op == call[p].op
<1>1. /\ net[k] # <<>> /\ net'[k] = Tail(net[k]) /\ Header(k) \in Acks(p)
      /\ e.rts = d.rts \ {"SENDING"} /\ Woken(d, e, Header(k).rcode)
      /\ "SENDING" \in d.rts
      /\ SameThread(p) /\ SameImage(l, p) /\ NoMore(l, p)
  BY DEF IsTold
<1>2. k \in Links /\ net[k] \in Seq(Commands) /\ AtMostOne(net[k], Acks(p)) /\ d.sem \in Int
  BY EndFacts, NetTyped DEF Travels, OneAck, Local, Descriptors
<1>3. OnReturn(l, p) /\ AcksOf(l, p)' = {}
  <2>1. Header(k) \in ToSet(net[k]) /\ ToSet(net'[k]) \cap Acks(p) = {}
    BY <1>1, <1>2, AtMostOneTail, ToSetTail DEF Header
  <2>2. QED
    BY <1>1, <2>1 DEF OnReturn, AcksOf
<1>4. /\ pc[p] = "sleep" /\ op \in {"send", "reply"} /\ d.rts = {"SENDING"} /\ d.sem = -1
      /\ ~AtHome(l, p) /\ ~OnWay(l, p) /\ ~AtPeer(l, p) /\ ~AtReturn(l, p)
  <2>1. Abroad(l, p) /\ Lone(l, p) /\ Way(l, p)
    BY <1>3 DEF Abroad, Travels
  <2>2. /\ pc[p] = "sleep" /\ op \in {"send", "sendrec", "reply"} /\ d.rts = Awaited(op)
        /\ op # "sendrec" /\ (d.rts # {} => d.sem = -1)
    BY <1>3, <2>1 DEF Way
  <2>3. QED
    BY <1>3, <2>1, <2>2 DEF Lone, Awaited
<1>5. e.rts = {} /\ e.sem = 0
  BY <1>1, <1>4 DEF Woken
<1>6. ~Abroad(l, p)' /\ ~AtHome(l, p)'
  <2>1. ~AtPeer(l, p)' /\ ~AtReturn(l, p)' /\ ~OnWay(l, p)'
    BY <1>1, <1>4, NothingNew
  <2>2. ~OnReturn(l, p)'
    BY <1>3 DEF OnReturn
  <2>3. QED
    BY <1>5, <2>1, <2>2 DEF Abroad, AtHome
<1> HIDE DEF k, d, e, op
<1>7. Lone(l, p)'
  BY <1>6 DEF Lone, Abroad
<1>8. LettersOf(l, p)' = {} /\ ~AtPeer(l, p)' /\ ~AtReturn(l, p)' /\ ~OnReturn(l, p)'
  BY <1>6 DEF Abroad, OnWay
<1>9. call'[p] = call[p] /\ pc'[p] = pc[p]
  BY <1>1 DEF SameThread
<1>10. Way(l, p)'
  BY <1>4, <1>5, <1>6, <1>8, <1>9 DEF Way, Travels, e, op
<1>11. QED
  BY <1>7, <1>10

-----------------------------------------------------------------------------
(* The steps away from it                                                    *)

\* The thread and the descriptor of p stay as they are: what of Way is to show.
LEMMA AwayWay ==
    ASSUME NEW l, NEW p, Way(l, p), SameLocal(l, p), SameThread(p),
           Abroad(l, p)' => Abroad(l, p),
           LettersOf(l, p)' \subseteq LettersOf(l, p),
           AtPeer(l, p)' =>
              LET i == Image(l, p)'
                  op == call[p].op
              IN  /\ i.sendto = call[p].peer /\ ("RECEIVING" \in i.rts <=> op = "sendrec")
                  /\ \/ i.message.cmd = Cmd(op) /\ i.message.n = call[p].n
                     \/ op # "sendrec" /\ i.message.cmd = "NTFY_MSG",
           AtReturn(l, p)' \/ OnReturn(l, p)' => call[p].op # "sendrec"
    PROVE  Way(l, p)'
<1>1. /\ pc'[p] = pc[p] /\ call'[p] = call[p]
      /\ AtHome(l, p)' <=> AtHome(l, p)
      /\ \A c : Bears(p, c)' <=> Bears(p, c)
  BY DEF SameThread, SameLocal, AtHome, Bears
<1>2. LET d == Local(l, p)
          e == Local(l, p)'
      IN  e.rts = d.rts /\ e.sem = d.sem /\ e.getfrom = d.getfrom /\ e.rmtcmd = d.rmtcmd
  BY DEF SameLocal
<1>3. QED
  BY <1>1, <1>2 DEF Way

\* A message of p that arrives is the one under way, and leaves it empty.
LEMMA ArrivingLetter ==
    ASSUME IInv, AllLawful, Orderly, NEW l \in Links, NEW p \in Procs, Home[p] = l[1],
           Chain(l, p), Travels(l, p), Arriving(l, p),
           Header(l) \in Letters(p) \/ Header(l).dst \notin RmtIpcTo[p]
    PROVE  LET h == Header(l)
           IN  /\ h \in LettersOf(l, p) /\ Bears(p, h) /\ Lawful(h) /\ h.msg \in Messages
               /\ h.msg.cmd = h.cmd /\ (h.cmd = "SNDREC_MSG" <=> call[p].op = "sendrec")
               /\ pc[p] = "sleep" /\ call[p].op \in {"send", "sendrec", "reply"}
               /\ ~AtHome(l, p) /\ ~AtPeer(l, p) /\ ~AtReturn(l, p) /\ ~OnReturn(l, p)
               /\ ~OnWay(l, p)' /\ ~OnReturn(l, p)'
<1> DEFINE h == Header(l)
<1>1. /\ net[l] # <<>> /\ h \in Mail(p) /\ NoMore(l, p) /\ net[l] \in Seq(Commands)
  BY NetTyped DEF Arriving
<1>2. h \in ToSet(net[l]) /\ h.msg \in Messages
  BY <1>1, HeaderFacts, ToSetTail DEF Header, IInv, Mail
<1>3. Lawful(h)
  BY <1>2 DEF AllLawful
<1>4. Below({h.msg.n}, Flying(p, l)') /\ h.msg.n \in Nat
  BY ArrivingNumber
<1>5. h \in Letters(p)
  <2>1. CASE h.dst \notin RmtIpcTo[p]
    <3>1. ~LetIn(p) /\ CallOf[h.cmd] \in DvkAllowed[p]
      BY <1>1, <1>3, <2>1 DEF LetIn, Lawful, Mail
    <3>2. CallOf[h.cmd] \notin {"sendrec", "notify"}
      BY <3>1 DEF Orderly
    <3>3. h.cmd # "NTFY_MSG"
      BY <3>2 DEF CallOf
    <3>4. QED
      BY <1>1, <3>3 DEF Letters
  <2>2. QED
    BY <2>1
<1> HIDE DEF h
<1>6. h \in LettersOf(l, p) /\ OnWay(l, p)
  BY <1>2, <1>5 DEF LettersOf, OnWay
<1>7. /\ Way(l, p) /\ Lone(l, p)
  BY DEF Travels
<1>8. /\ Bears(p, h) /\ pc[p] = "sleep" /\ call[p].op \in {"send", "sendrec", "reply"}
      /\ \A c \in LettersOf(l, p) : Bears(p, c)
  BY <1>6, <1>7 DEF Way, Abroad
<1>9. ~AtHome(l, p) /\ ~AtPeer(l, p) /\ ~AtReturn(l, p) /\ ~OnReturn(l, p)
  BY <1>6, <1>7 DEF Lone, Abroad
<1>10. h.msg.cmd = h.cmd /\ (h.cmd = "SNDREC_MSG" <=> call[p].op = "sendrec")
  BY <1>1, <1>3, <1>8, CmdFacts DEF Lawful, Mail, Bears, RemoteCalls
<1>11. ~OnWay(l, p)'
  <2> SUFFICES ASSUME NEW c \in LettersOf(l, p)' PROVE FALSE
    BY DEF OnWay
  <2>1. c \in LettersOf(l, p) /\ c \in MailOf(l, p)'
    BY <1>1, LettersShrink DEF NoMore, LettersOf, MailOf, Letters
  <2>2. c.msg.n \in Flying(p, l)' /\ c.msg.n = call[p].n /\ h.msg.n = call[p].n
    BY <1>8, <2>1 DEF Flying, Bears
  <2>3. QED
    BY <1>4, <2>2 DEF Below, h
<1>12. ~OnReturn(l, p)'
  BY <1>1, <1>9, LettersShrink DEF NoMore, OnReturn
<1>13. QED
  BY <1>3, <1>2, <1>6, <1>8, <1>9, <1>10, <1>11, <1>12 DEF h

LEMMA DeliveredTravels ==
    ASSUME IInv, AllLawful, Orderly, NEW l \in Links, NEW p \in Procs, Home[p] = l[1],
           Chain(l, p), Travels(l, p), Delivered(l, p) \/ Refused(l, p)
    PROVE  Lone(l, p)' /\ Way(l, p)'
<1> DEFINE h == Header(l)
           i == Image(l, p)
           j == Image(l, p)'
           op == call[p].op
<1>1. Arriving(l, p) /\ (h \in Letters(p) \/ h.dst \notin RmtIpcTo[p])
  BY DEF Delivered, Refused
<1>2. /\ h \in LettersOf(l, p) /\ Bears(p, h)
      /\ (h.cmd = "SNDREC_MSG" <=> op = "sendrec")
      /\ ~AtHome(l, p) /\ ~AtPeer(l, p) /\ ~AtReturn(l, p)
      /\ ~OnWay(l, p)' /\ ~OnReturn(l, p)'
  BY <1>1, ArrivingLetter
<1>3. SameLocal(l, p) /\ SameThread(p) /\ NoMore(l, p)
  BY <1>1 DEF Arriving
<1>4. "SENDING" \notin i.rts /\ "RMTOPER" \notin i.rts
  BY <1>2 DEF AtPeer, AtReturn
<1>5. "SENDING" \notin j.rts /\ ("RMTOPER" \in j.rts => op # "sendrec")
  <2>1. CASE Delivered(l, p)
    BY <1>2, <1>4, <2>1 DEF Delivered
  <2>2. CASE Refused(l, p)
    <3>1. ~LetIn(p) /\ j.rts = i.rts \cup {"RMTOPER"}
      <4>1. Lawful(h) /\ h.cmd \in MsgCmds /\ h.src = p
        BY <1>1, ArrivingLetter DEF Arriving, Mail
      <4>2. QED
        BY <2>2, <4>1 DEF Refused, Lawful, LetIn
    <3>2. op # "sendrec"
      <4>1. op = "sendrec" => op \in DvkAllowed[p]
        BY DEF Travels, Way, RemoteCalls
      <4>2. QED
        BY <3>1, <4>1 DEF Orderly
    <3>3. QED
      BY <1>4, <3>1, <3>2
  <2>3. QED
    BY <2>1, <2>2
<1>6. ~AtPeer(l, p)' /\ (AtReturn(l, p)' => op # "sendrec") /\ ~AtHome(l, p)'
  BY <1>2, <1>3, <1>5 DEF AtPeer, AtReturn, AtHome, SameLocal
<1>7. Lone(l, p)'
  BY <1>2, <1>6 DEF Lone
<1>8. Abroad(l, p) /\ Way(l, p) /\ LettersOf(l, p)' \subseteq LettersOf(l, p)
  BY <1>2, <1>3, LettersShrink DEF Abroad, OnWay, Travels, NoMore
<1>9. Way(l, p)'
  BY <1>2, <1>3, <1>6, <1>8, AwayWay
<1>10. QED
  BY <1>7, <1>9

LEMMA QueuesTravels ==
    ASSUME IInv, AllLawful, Orderly, Journeys, NEW l \in Links, NEW p \in Procs, Home[p] = l[1],
           Chain(l, p), Queues(l, p)
    PROVE  Lone(l, p)' /\ Way(l, p)'
<1> DEFINE h == Header(l)
           i == Image(l, p)
           j == Image(l, p)'
           op == call[p].op
<1>1. /\ Arriving(l, p) /\ h \in Letters(p)
      /\ j.rts = i.rts \cup {"SENDING"} \cup (IF h.cmd = "SNDREC_MSG" THEN {"RECEIVING"} ELSE {})
      /\ j.sendto = h.dst /\ j.message = h.msg
  BY DEF Queues
<1>2. Travels(l, p) /\ Expecting(l, p) /\ Owing /\ Way(l, p)
  BY DEF Journeys, Journey, Travels
<1>3. /\ h \in LettersOf(l, p) /\ Bears(p, h) /\ h.msg.cmd = h.cmd
      /\ (h.cmd = "SNDREC_MSG" <=> op = "sendrec")
      /\ ~AtHome(l, p) /\ ~AtPeer(l, p) /\ ~AtReturn(l, p)
      /\ ~OnWay(l, p)' /\ ~OnReturn(l, p)'
  BY <1>1, <1>2, ArrivingLetter
<1>4. SameLocal(l, p) /\ SameThread(p) /\ NoMore(l, p)
  BY <1>1 DEF Arriving
<1>5. "RECEIVING" \notin i.rts
  <2> SUFFICES ASSUME "RECEIVING" \in i.rts PROVE FALSE
    OBVIOUS
  <2>1. PICK q \in Procs : owed[q][p] # 0
    BY <1>2, <1>3 DEF Expecting
  <2>2. Awaits(p, q, owed[q][p])
    BY <1>2, <2>1 DEF Owing
  <2>3. QED
    BY <1>3, <2>2 DEF Awaits, Abroad, OnWay
<1>6. /\ h.cmd = Cmd(op) /\ h.dst = call[p].peer /\ h.msg.n = call[p].n
  BY <1>3 DEF Bears
<1> HIDE DEF h, i, j, op
<1>7. /\ ~AtReturn(l, p)' /\ ~AtHome(l, p)'
  BY <1>1, <1>3, <1>4 DEF AtReturn, AtHome, SameLocal, i, j
<1>8. /\ j.sendto = call[p].peer /\ ("RECEIVING" \in j.rts <=> op = "sendrec")
      /\ j.message.cmd = Cmd(op) /\ j.message.n = call[p].n
  BY <1>1, <1>3, <1>5, <1>6
<1>9. Lone(l, p)'
  BY <1>3, <1>7 DEF Lone
<1>10. Abroad(l, p) /\ LettersOf(l, p)' \subseteq LettersOf(l, p)
  BY <1>3, <1>4, LettersShrink DEF Abroad, OnWay, NoMore
<1>11. Way(l, p)'
  BY <1>2, <1>3, <1>4, <1>7, <1>8, <1>10, AwayWay DEF op, j
<1>12. QED
  BY <1>9, <1>11

LEMMA IsTakenTravels ==
    ASSUME NEW l \in Links, NEW p \in Procs, Travels(l, p), NEW q \in Procs, IsTaken(l, p, q)
    PROVE  Lone(l, p)' /\ Way(l, p)'
<1> DEFINE i == Image(l, p)
           j == Image(l, p)'
           op == call[p].op
<1>1. /\ "SENDING" \in i.rts /\ SameLocal(l, p) /\ SameThread(p) /\ NoMore(l, p)
      /\ IF "RECEIVING" \in i.rts THEN j.rts = i.rts \ {"SENDING"}
         ELSE j.rts = (i.rts \cup {"RMTOPER"}) \ {"SENDING"}
  BY DEF IsTaken
<1>2. AtPeer(l, p) /\ Abroad(l, p) /\ Lone(l, p) /\ Way(l, p)
  BY <1>1 DEF AtPeer, Abroad, Travels
<1>3. /\ ~AtHome(l, p) /\ ~OnWay(l, p) /\ ~AtReturn(l, p) /\ ~OnReturn(l, p)
      /\ "RECEIVING" \in i.rts <=> op = "sendrec"
  BY <1>2 DEF Lone, Way
<1>4. LettersOf(l, p)' \subseteq LettersOf(l, p) /\ ~OnWay(l, p)' /\ ~OnReturn(l, p)'
  BY <1>1, <1>3, LettersShrink DEF NoMore, OnWay, OnReturn
<1>5. ~AtPeer(l, p)' /\ ~AtHome(l, p)' /\ (AtReturn(l, p)' => op # "sendrec")
  BY <1>1, <1>3 DEF AtPeer, AtReturn, AtHome, SameLocal
<1>6. Lone(l, p)'
  BY <1>4, <1>5 DEF Lone
<1>7. Way(l, p)'
  BY <1>1, <1>2, <1>4, <1>5, AwayWay
<1>8. QED
  BY <1>6, <1>7

LEMMA AckDepartsTravels ==
    ASSUME IInv, NEW l \in Links, NEW p \in Procs, Home[p] = l[1], Travels(l, p),
           AckDeparts(l, p)
    PROVE  Lone(l, p)' /\ Way(l, p)'
<1> DEFINE i == Image(l, p)
           j == Image(l, p)'
           op == call[p].op
<1>1. /\ Handled(Back(l), p) /\ i.rmtcmd.cmd # "NONE"
      /\ j.rts = i.rts \ {"RMTOPER", "SENDING"}
      /\ SameLocal(l, p) /\ SameThread(p) /\ NoMoreMail(l, p)
  BY DEF AckDeparts, Handled
<1>2. AtReturn(l, p)
  BY <1>1, EndFacts DEF Travels, Stands, OutFits, AtReturn, Here, Image
<1>3. Abroad(l, p) /\ Lone(l, p) /\ Way(l, p)
  BY <1>2 DEF Abroad, Travels
<1>4. ~AtHome(l, p) /\ ~OnWay(l, p) /\ op # "sendrec"
  BY <1>2, <1>3 DEF Lone, Way
<1>5. LettersOf(l, p)' \subseteq LettersOf(l, p) /\ ~OnWay(l, p)'
  BY <1>1, <1>4, LettersShrink DEF OnWay
<1>6. ~AtPeer(l, p)' /\ ~AtReturn(l, p)' /\ ~AtHome(l, p)'
  BY <1>1, <1>4 DEF AtPeer, AtReturn, AtHome, SameLocal
<1>7. Lone(l, p)'
  BY <1>5, <1>6 DEF Lone
<1>8. Way(l, p)'
  BY <1>1, <1>3, <1>4, <1>5, <1>6, AwayWay
<1>9. QED
  BY <1>7, <1>8

\* A call of a process of the peer's node: who asks by sendrec is only replied
\* to, and not while its request queues.
LEMMA IsCalledTravels ==
    ASSUME Orderly, Journeys, NEW l \in Links, NEW p \in Procs, Home[p] = l[1],
           NEW q \in Procs, NEW op \in RemoteCalls, IsCalled(l, p, q, op)
    PROVE  Lone(l, p)' /\ Way(l, p)'
<1> DEFINE i == Image(l, p)
           j == Image(l, p)'
<1>1. /\ p \in IpcTo[q] /\ op \in DvkAllowed[q] /\ op \in {"send", "reply", "notify"}
      /\ op = "reply" => owed[q][p] > 0
      /\ j.rts = i.rts \ {"RECEIVING"} /\ j.sendto = i.sendto
      /\ IF op = "notify" THEN j.message.cmd = "NTFY_MSG" ELSE j.message = i.message
      /\ SameLocal(l, p) /\ SameThread(p) /\ NoMore(l, p)
  BY DEF IsCalled
<1>2. Travels(l, p) /\ Lone(l, p) /\ Way(l, p) /\ Owing
  BY DEF Journeys, Journey, Travels
<1>3. /\ AtPeer(l, p)' <=> AtPeer(l, p)
      /\ AtReturn(l, p)' <=> AtReturn(l, p)
      /\ AtHome(l, p)' <=> AtHome(l, p)
      /\ OnWay(l, p)' => OnWay(l, p)
      /\ OnReturn(l, p)' => OnReturn(l, p)
      /\ LettersOf(l, p)' \subseteq LettersOf(l, p)
  BY <1>1, LettersShrink DEF AtPeer, AtReturn, AtHome, OnWay, OnReturn, SameLocal, NoMore
<1>4. Abroad(l, p)' => Abroad(l, p)
  BY <1>3 DEF Abroad
<1>5. Lone(l, p)'
  BY <1>2, <1>3, <1>4 DEF Lone
<1>6. AtPeer(l, p) => call[p].op # "sendrec"
  <2> SUFFICES ASSUME AtPeer(l, p), call[p].op = "sendrec" PROVE FALSE
    OBVIOUS
  <2>1. "sendrec" \in DvkAllowed[p]
    BY <1>2 DEF Way, RemoteCalls
  <2>2. op = "reply"
    BY <1>1, <2>1 DEF Orderly
  <2>3. Awaits(p, q, owed[q][p])
    BY <1>1, <1>2, <2>2 DEF Owing
  <2>4. QED
    BY <2>3 DEF Awaits, Abroad
<1>7. AtPeer(l, p)' =>
         /\ j.sendto = call[p].peer /\ ("RECEIVING" \in j.rts <=> call[p].op = "sendrec")
         /\ \/ j.message.cmd = Cmd(call[p].op) /\ j.message.n = call[p].n
            \/ call[p].op # "sendrec" /\ j.message.cmd = "NTFY_MSG"
  BY <1>1, <1>2, <1>3, <1>6 DEF Way
<1>8. AtReturn(l, p)' \/ OnReturn(l, p)' => call[p].op # "sendrec"
  BY <1>2, <1>3 DEF Way
<1>9. Way(l, p)'
  BY <1>1, <1>2, <1>3, <1>4, <1>7, <1>8, AwayWay
<1>10. QED
  BY <1>5, <1>9

LEMMA TravelsStep ==
    ASSUME IInv, AllLawful, Chains, Orderly, Journeys, [Next]_vars,
           NEW l \in Links, NEW p \in Procs, Home[p] = l[1]
    PROVE  Travels(l, p)'
<1>1. Shaped(l, p) /\ Travels(l, p) /\ Chain(l, p)
  BY EveryStepShaped DEF Journeys, Journey, Chains
<1>2. /\ Back(l) \in Links /\ Back(l)[1] = l[2] /\ l[1] # l[2] /\ Back(Back(l)) = l
      /\ Here(Back(l), p) = Image(l, p) /\ Here(l, p) = Local(l, p)
      /\ Pictured(Back(l), p) /\ ~Pictured(l, p)
  BY EndFacts DEF Here, Image, Local, Pictured
<1>3. Lone(l, p)' /\ Way(l, p)'
  <2>1. ~GivesUp(l, p) /\ ~IsReadied(l, p) /\ ~IsCleared(l, p)
    <3>1. ~GivesUp(l, p)
      BY DEF GivesUp, Orderly
    <3>2. ~IsReadied(l, p)
      BY <1>1, <1>2 DEF IsReadied, Travels, OutFits, Handled
    <3>3. ~IsCleared(l, p)
      BY <1>1, <1>2 DEF IsCleared, Travels, Stands, OutFits, Handled
    <3>4. QED
      BY <3>1, <3>2, <3>3
  <2>2. CASE Quiet(l, p)
    BY <1>1, <2>2, QuietJourney DEF Travels
  <2>3. ASSUME NEW op \in RemoteCalls, NEW d \in Procs, Begins(l, p, op, d)
        PROVE  Lone(l, p)' /\ Way(l, p)'
    BY <1>1, <2>3, BeginsTravels
  <2>4. CASE Receives(l, p) \/ Awaiting(l, p) \/ Finishes(l, p)
    BY <1>1, <2>4, RestingTravels
  <2>5. CASE Hears(l, p)
    BY <2>5, HearsTravels
  <2>6. CASE IsTold(l, p)
    BY <1>1, <2>6, IsToldTravels
  <2>7. CASE Departs(l, p)
    BY <1>1, <2>7, DepartsTravels
  <2>8. CASE Delivered(l, p) \/ Refused(l, p)
    BY <1>1, <2>8, DeliveredTravels
  <2>9. CASE Queues(l, p)
    BY <1>1, <2>9, QueuesTravels
  <2>10. ASSUME NEW q \in Procs, IsTaken(l, p, q)
         PROVE  Lone(l, p)' /\ Way(l, p)'
    BY <1>1, <2>10, IsTakenTravels
  <2>11. CASE AckDeparts(l, p)
    BY <1>1, <2>11, AckDepartsTravels
  <2>12. ASSUME NEW q \in Procs, NEW op \in RemoteCalls, IsCalled(l, p, q, op)
         PROVE  Lone(l, p)' /\ Way(l, p)'
    BY <2>12, IsCalledTravels
  <2>13. QED
    BY <1>1, <2>1, <2>2, <2>3, <2>4, <2>5, <2>6, <2>7, <2>8, <2>9, <2>10, <2>11, <2>12 DEF Shaped
<1>4. OutFits(l, p)'
  <2>1. QueueStep(l, p)
    BY EveryQueueStep
  <2>2. QED
    BY <1>1, <1>2, <2>1, LocalFitsStep DEF Travels, Way
<1>5. Stands(Back(l), p)'
  <2> DEFINE k == Back(l)
  <2>1. QueueStep(k, p)
    BY <1>2, EveryQueueStep
  <2>2. Refuses(k, p) => Unbusy(k, p)
    <3> SUFFICES ASSUME Refuses(k, p) PROVE Unbusy(k, p)
      OBVIOUS
    <3>1. net[l] # <<>> /\ Header(l) \in Mail(p) /\ ~Admitted(Header(l))
      BY <1>2 DEF Refuses
    <3>2. OnWay(l, p)
      <4> DEFINE h == Header(l)
      <4>1. h \in ToSet(net[l])
        BY <3>1, NetTyped, ToSetTail DEF Header
      <4>2. Lawful(h) /\ h.src = p /\ h.cmd \in MsgCmds /\ h \in Mail(p)
        BY <3>1, <4>1 DEF AllLawful, Mail
      <4> HIDE DEF h
      <4>3. h.dst \in IpcTo[p] /\ CallOf[h.cmd] \in DvkAllowed[p] /\ h.dst \notin RmtIpcTo[p]
        BY <3>1, <4>2 DEF Lawful, Admitted, h
      <4>4. CallOf[h.cmd] \notin {"sendrec", "notify"}
        BY <4>3 DEF Orderly, LetIn
      <4>5. h.cmd # "NTFY_MSG"
        BY <4>4 DEF CallOf
      <4>6. QED
        BY <4>1, <4>2, <4>5 DEF OnWay, LettersOf, Letters, h
    <3>3. ~AtPeer(l, p) /\ ~AtReturn(l, p)
      BY <1>1, <3>2 DEF Travels, Lone
    <3>4. QED
      BY <1>2, <3>3 DEF Unbusy, AtPeer, AtReturn
  <2>3. QED
    BY <1>1, <1>2, <2>1, <2>2, StandsStep DEF Travels
<1>6. OneAck(l, p)'
  BY <1>1, OneAckStep
<1>7. QED
  BY <1>3, <1>4, <1>5, <1>6 DEF Travels

-----------------------------------------------------------------------------
(* What a server owes                                                        *)

NewReply(q, p) ==
    pc[q] = "user" /\ pc'[q] = "sleep" /\ call'[q].op = "reply" /\ call'[q].peer = p
OwedStep(l, p, q) ==
    \/ owed'[q][p] = owed[q][p] /\ ~NewReply(q, p)
    \/ owed'[q][p] = 0 /\ "RECEIVING" \notin Image(l, p)'.rts
    \/ taken'[q][p] # taken[q][p]

LEMMA DeliverOwes ==
    ASSUME IInv, NEW q \in Procs, NEW m \in Messages, Deliver(q, m),
           NEW r \in Procs, NEW s \in Procs
    PROVE  owed'[r][s] = owed[r][s] \/ taken'[r][s] # taken[r][s]
<1>1. CASE r # q \/ s # m.src
  BY <1>1, DeliverFields
<1>2. CASE r = q /\ s = m.src
  <2>1. CASE m.cmd = "SNDREC_MSG"
    <3>1. taken'[q][m.src] = Append(taken[q][m.src], m.n) /\ m.n \in Nat
      BY <2>1, DeliverFields DEF Messages
    <3>2. taken'[r][s] = Append(taken[r][s], m.n) /\ taken[r][s] \in Seq(Nat) /\ m.n \in Nat
      BY <1>2, <3>1 DEF IInv, RestTyped
    <3>3. Len(taken'[r][s]) # Len(taken[r][s])
      BY <3>2
    <3>4. QED
      BY <3>3
  <2>2. CASE m.cmd # "SNDREC_MSG"
    BY <1>2, <2>2, DeliverFields
  <2>3. QED
    BY <2>1, <2>2
<1>3. QED
  BY <1>1, <1>2

LEMMA ThreadOwed ==
    ASSUME IInv, AllLawful, NEW x \in Procs, Process(x),
           NEW l \in Links, NEW p \in Procs, Home[p] = l[1], NEW q \in Procs
    PROVE  OwedStep(l, p, q)
<1>1. /\ pc \in [Procs -> {"user", "sleep", "expired"}] /\ owed \in [Procs -> [Procs -> Nat]]
      /\ call \in [Procs -> [op : Calls \cup {"none"}, peer : Procs \cup {ANY, NONE}, n : Nat]]
  BY DEF IInv, DescsFit, RestTyped
<1>2. ASSUME NEW d \in Procs, Send(x, d) \/ Sendrec(x, d) \/ Notify(x, d) \/ Reply(x, d)
      PROVE  OwedStep(l, p, q)
  <2>1. PICK op \in RemoteCalls :
           /\ Remote(x, op, d, Cmd(op), Answers(x, op, d))
           /\ owed' = IF op = "reply" THEN [owed EXCEPT ![x][d] = 0] ELSE owed
    BY <1>2, CallSeen
  <2>2. /\ call' = [call EXCEPT ![x] = [op |-> op, peer |-> d, n |-> call[x].n + 1]]
        /\ pc' = [pc EXCEPT ![x] = "sleep"]
    BY <2>1 DEF Remote
  <2>3. CASE op = "reply" /\ q = x /\ p = d
    <3>1. Home[d] # Home[x] /\ desc'[Home[x]][d].rts = desc[Home[x]][d].rts \ {"RECEIVING"}
      BY <2>1, <2>3, RemoteEffect
    <3>2. Home[x] = l[2]
      BY <2>3, <3>1, LinkFacts, HomeAssumption
    <3>3. owed'[q][p] = 0
      BY <1>1, <2>1, <2>3
    <3>4. QED
      BY <2>3, <3>1, <3>2, <3>3 DEF OwedStep, Image
  <2>4. CASE ~(op = "reply" /\ q = x /\ p = d)
    <3>1. owed'[q][p] = owed[q][p]
      BY <1>1, <2>1, <2>4
    <3>2. ~NewReply(q, p)
      BY <1>1, <2>2, <2>4 DEF NewReply
    <3>3. QED
      BY <3>1, <3>2 DEF OwedStep
  <2>5. QED
    BY <2>3, <2>4
<1>3. ASSUME NEW s \in Sources[x], ReceiveNotify(x, s)
      PROVE  OwedStep(l, p, q)
  <2>1. pc' = [pc EXCEPT ![x] = "user"]
    BY <1>3 DEF ReceiveNotify, Returns
  <2>2. PICK i \in Procs : Deliver(x, [cmd |-> "NTFY_MSG", src |-> i, n |-> 0, re |-> 0])
    BY <1>3, MineTyped DEF ReceiveNotify, IInv
  <2>3. owed'[q][p] = owed[q][p]
    BY <1>1, <2>2 DEF Deliver
  <2>4. QED
    BY <1>1, <2>1, <2>3 DEF OwedStep, NewReply
<1>4. ASSUME NEW s \in Sources[x], ReceiveTake(x, s)
      PROVE  OwedStep(l, p, q)
  <2>1. PICK y \in Procs : Unqueues(x, y)
    BY <1>4, ReceiveTakeEffect
  <2>2. pc' = [pc EXCEPT ![x] = "user"]
    BY <1>4 DEF ReceiveTake, Returns
  <2>3. owed'[q][p] = owed[q][p] \/ taken'[q][p] # taken[q][p]
    <3>1. CASE q # x \/ p # y
      BY <2>1, <3>1 DEF Unqueues
    <3>2. CASE q = x /\ p = y
      <4> DEFINE m == desc[Home[x]][y].message
      <4>1. /\ taken'[x][y] = IF m.cmd = "NTFY_MSG" THEN taken[x][y] ELSE Append(taken[x][y], m.n)
            /\ owed'[x][y] = IF m.cmd = "SNDREC_MSG" THEN m.n ELSE owed[x][y]
        BY <2>1 DEF Unqueues
      <4>2. m \in Messages
        <5>1. "SENDING" \in desc[Home[x]][y].rts /\ Home[y] # Home[x] /\ Labelled(Home[x], y)
          BY <2>1, HomeAssumption DEF Unqueues, AllLawful
        <5>2. QED
          BY <5>1 DEF Labelled
      <4> HIDE DEF m
      <4>3. taken[x][y] \in Seq(Nat) /\ m.n \in Nat
        BY <4>2 DEF IInv, RestTyped, Messages
      <4>4. Len(Append(taken[x][y], m.n)) # Len(taken[x][y])
        BY <4>3
      <4>5. QED
        BY <3>2, <4>1, <4>4
    <3>3. QED
      BY <3>1, <3>2
  <2>4. QED
    BY <1>1, <2>2, <2>3 DEF OwedStep, NewReply
<1>5. ASSUME NEW s \in Sources[x], ReceiveBlock(x, s)
      PROVE  OwedStep(l, p, q)
  <2>1. UNCHANGED owed /\ pc' = [pc EXCEPT ![x] = "sleep"] /\ call'[x].op = "receive"
    BY <1>1, <1>5 DEF ReceiveBlock, EnterReceive
  <2>2. QED
    BY <1>1, <2>1 DEF OwedStep, NewReply
<1>6. CASE CallDone(x) \/ ReceiveDone(x) \/ Expire(x)
  <2>1. /\ UNCHANGED owed
        /\ pc' = [pc EXCEPT ![x] = "user"] \/ pc' = [pc EXCEPT ![x] = "expired"]
    BY <1>6 DEF CallDone, ReceiveDone, Expire, Returns
  <2>2. QED
    BY <1>1, <2>1 DEF OwedStep, NewReply
<1>7. QED
  BY <1>2, <1>3, <1>4, <1>5, <1>6 DEF Process, Calling, Continue, Receive, ReceiveNow

LEMMA EveryOwedStep ==
    ASSUME IInv, AllLawful, [Next]_vars,
           NEW l \in Links, NEW p \in Procs, Home[p] = l[1], NEW q \in Procs
    PROVE  OwedStep(l, p, q)
<1>1. ASSUME NEW k \in Links, Put2lclDeliver(k) \/ Put2lclNotify(k)
      PROVE  OwedStep(l, p, q)
  <2> DEFINE h == Header(k)
  <2>1. /\ Arrives(k) /\ UNCHANGED pc /\ h.cmd \in MsgCmds
        /\ Deliver(h.dst, h.msg) \/ UNCHANGED <<owed, taken>>
    BY <1>1 DEF Put2lclDeliver, Put2lclNotify, Accepted, IsMessage, MsgCmds
  <2>2. h.dst \in Procs /\ h.msg \in Messages
    BY <2>1, ArrivingFacts
  <2>3. PICK r \in Procs, m \in Messages : r = h.dst /\ m = h.msg
    BY <2>2
  <2> HIDE DEF h
  <2>4. Deliver(r, m) \/ UNCHANGED <<owed, taken>>
    BY <2>1, <2>3
  <2>5. QED
    BY <2>1, <2>4, DeliverOwes DEF OwedStep, NewReply
<1>2. ASSUME UNCHANGED <<pc, owed>>
      PROVE  OwedStep(l, p, q)
  BY <1>2 DEF OwedStep, NewReply
<1>3. ASSUME NEW k \in Links, Get2rmt(k) \/ Put2lcl(k)
      PROVE  OwedStep(l, p, q)
  BY <1>1, <1>2, <1>3 DEF Get2rmt, Get2rmtLook, Get2rmtSleep, Get2rmtTake, Get2rmtDispatch,
       Put2lcl, Put2lclDenied, Put2lclDropped, Put2lclQueue, Put2lclAck
<1>4. QED
  BY <1>2, <1>3, ThreadOwed DEF Next, vars

-----------------------------------------------------------------------------
(* A client waits until the reply comes                                      *)

\* Nothing under way, nothing arrives.
LEMMA NothingArrives ==
    ASSUME IInv, AllLawful, Orderly, NEW l \in Links, NEW p \in Procs, Home[p] = l[1],
           Chain(l, p), Travels(l, p), ~AtHome(l, p), ~Abroad(l, p)
    PROVE  /\ ~Departs(l, p) /\ ~IsReadied(l, p)
           /\ ~Delivered(l, p) /\ ~Refused(l, p) /\ ~Queues(l, p)
           /\ \A q \in Procs : ~IsTaken(l, p, q)
           /\ ~AckDeparts(l, p) /\ ~IsCleared(l, p)
<1>1. /\ LettersOf(l, p) = {} /\ ~AtPeer(l, p) /\ ~AtReturn(l, p)
  BY DEF Abroad, OnWay
<1>2. ~Handled(l, p) /\ ~Handled(Back(l), p)
  <2>1. OutFits(l, p) /\ OutFits(Back(l), p)
    BY DEF Travels, Stands
  <2>2. "RMTOPER" \notin desc[l[1]][p].rts /\ "RMTOPER" \notin desc[Back(l)[1]][p].rts
    BY <1>1, EndFacts DEF AtHome, AtReturn, Local, Image
  <2>3. QED
    BY <2>1, <2>2 DEF OutFits, Here
<1>3. ~Delivered(l, p) /\ ~Queues(l, p)
  BY <1>1, ArrivingLetter DEF Delivered, Queues
<1>4. ~Refused(l, p)
  BY <1>1, ArrivingLetter DEF Refused
<1>5. \A q \in Procs : ~IsTaken(l, p, q)
  BY <1>1 DEF IsTaken, AtPeer
<1>6. QED
  BY <1>2, <1>3, <1>4, <1>5 DEF Departs, IsReadied, AckDeparts, IsCleared, Handled

\* The client d still awaits the reply, or it hears it.
LEMMA AwaitsKept ==
    ASSUME IInv, AllLawful, Chains, Orderly, Journeys, [Next]_vars,
           NEW l \in Links, NEW d \in Procs, Home[d] = l[1], NEW p \in Procs, NEW re,
           Awaits(d, p, re)
    PROVE  \/ Awaits(d, p, re)' /\ ~Abroad(l, d)'
           \/ /\ Hears(l, d) /\ owed[p][d] = 0
              /\ Header(Back(l)) \in LettersOf(Back(l), p)
<1>1. /\ pc[d] = "sleep" /\ call[d].op = "sendrec" /\ call[d].peer = p /\ call[d].n = re
      /\ Local(l, d).rts = {"RECEIVING"} /\ Local(l, d).getfrom = p /\ ~Abroad(l, d)
  BY EndFacts DEF Awaits, Local
<1>2. Travels(l, d) /\ Chain(l, d) /\ ~AtHome(l, d)
  BY <1>1 DEF Journeys, Journey, Chains, AtHome
<1>3. \A k \in Links : Home[d] = k[1] => k = l
  BY EndFacts
<1>4. SameLocal(l, d) /\ SameThread(d) /\ ~Abroad(l, d)' => Awaits(d, p, re)'
  <2>1. Mine(d) = Local(l, d) /\ Mine(d)' = Local(l, d)'
    BY DEF Mine, Local
  <2>2. QED
    BY <1>1, <1>3, <2>1 DEF Awaits, SameLocal, SameThread
<1>5. CASE Quiet(l, d)
  BY <1>1, <1>4, <1>5, NothingNew DEF Quiet
<1>6. ASSUME NEW q \in Procs, NEW op \in RemoteCalls, IsCalled(l, d, q, op)
      PROVE  Awaits(d, p, re)' /\ ~Abroad(l, d)'
  <2>1. /\ SameLocal(l, d) /\ SameThread(d) /\ NoMore(l, d)
        /\ Image(l, d)'.rts \subseteq Image(l, d).rts
    BY <1>6 DEF IsCalled
  <2>2. ~Abroad(l, d)'
    BY <1>1, <2>1, LettersShrink DEF Abroad, OnWay, AtPeer, AtReturn, OnReturn, NoMore
  <2>3. QED
    BY <1>4, <2>1, <2>2
<1>7. CASE Hears(l, d)
  <2>1. LET h == Header(Back(l))
        IN  h.src = call[d].peer /\ h \in LettersOf(Back(l), h.src) /\ owed[h.src][d] = 0
    BY <1>1, <1>7, AskedReply
  <2>2. QED
    BY <1>1, <1>7, <2>1
<1>8. /\ \A op \in RemoteCalls, q \in Procs : ~Begins(l, d, op, q)
      /\ ~Receives(l, d) /\ ~Awaiting(l, d) /\ ~GivesUp(l, d) /\ ~Finishes(l, d)
      /\ ~IsTold(l, d)
  BY <1>1 DEF Begins, Receives, Awaiting, GivesUp, Finishes, IsTold, Orderly
<1>9. QED
  BY <1>1, <1>2, <1>5, <1>6, <1>7, <1>8, EveryStepShaped, NothingArrives DEF Shaped

\* A server comes to owe a reply by taking the request: from the connection, or
\* from the image of the client.
LEMMA RequestTaken ==
    ASSUME IInv, AllLawful, Orderly, NEW l \in Links, NEW d \in Procs, Home[d] = l[1],
           Chain(l, d), Travels(l, d), NEW p \in Procs,
           \/ Delivered(l, d) /\ p = Header(l).dst /\ Header(l).cmd = "SNDREC_MSG"
           \/ IsTaken(l, d, p) /\ (Image(l, d).message.cmd = "SNDREC_MSG"
                                     \/ "RECEIVING" \in Image(l, d).rts)
    PROVE  /\ owed'[p][d] = call[d].n /\ call[d].n > 0
           /\ Awaits(d, p, call[d].n)'
<1>1. ASSUME call[d].op = "sendrec", call[d].peer = p, Abroad(l, d),
             SameLocal(l, d), SameThread(d), ~Abroad(l, d)'
      PROVE  call[d].n > 0 /\ Awaits(d, p, call[d].n)'
  <2>1. Way(l, d)
    BY DEF Travels
  <2>2. /\ pc[d] = "sleep" /\ Local(l, d).rts = {"RECEIVING"} /\ Local(l, d).getfrom = p
        /\ call[d].n > 0
    BY <1>1, <2>1 DEF Way, Awaited, RemoteCalls
  <2>3. Mine(d)' = Local(l, d)'
    BY DEF Mine, Local
  <2>4. \A k \in Links : Home[d] = k[1] => k = l
    BY EndFacts
  <2>5. QED
    BY <1>1, <2>2, <2>3, <2>4 DEF Awaits, SameLocal, SameThread
<1>2. CASE Delivered(l, d) /\ p = Header(l).dst /\ Header(l).cmd = "SNDREC_MSG"
  <2> DEFINE h == Header(l)
  <2>1. Arriving(l, d) /\ h \in Letters(d)
    BY <1>2 DEF Delivered
  <2>2. /\ h \in LettersOf(l, d) /\ Bears(d, h) /\ call[d].op = "sendrec"
        /\ ~AtPeer(l, d) /\ ~AtReturn(l, d) /\ ~OnWay(l, d)' /\ ~OnReturn(l, d)'
    BY <1>2, <2>1, ArrivingLetter
  <2>3. /\ Image(l, d)'.rts = Image(l, d).rts \cup {"RECEIVING"}
        /\ owed'[p][d] = h.msg.n /\ SameLocal(l, d) /\ SameThread(d)
    BY <1>2, <2>1 DEF Delivered, Arriving
  <2>4. Abroad(l, d) /\ ~Abroad(l, d)'
    BY <2>2, <2>3 DEF Abroad, OnWay, AtPeer, AtReturn
  <2>5. call[d].peer = p /\ owed'[p][d] = call[d].n
    BY <1>2, <2>2, <2>3 DEF Bears
  <2>6. QED
    BY <1>1, <2>2, <2>3, <2>4, <2>5
<1>3. CASE IsTaken(l, d, p) /\ (Image(l, d).message.cmd = "SNDREC_MSG"
                                  \/ "RECEIVING" \in Image(l, d).rts)
  <2> DEFINE i == Image(l, d)
  <2>1. /\ "SENDING" \in i.rts /\ i.sendto = p /\ SameLocal(l, d) /\ SameThread(d) /\ NoMore(l, d)
        /\ "RECEIVING" \in i.rts => Image(l, d)'.rts = i.rts \ {"SENDING"}
        /\ i.message.cmd = "SNDREC_MSG" => owed'[p][d] = i.message.n
    BY <1>3 DEF IsTaken
  <2>2. AtPeer(l, d) /\ Lone(l, d) /\ Way(l, d)
    BY <2>1 DEF AtPeer, Travels
  <2>3. i.sendto = call[d].peer /\ ("RECEIVING" \in i.rts <=> call[d].op = "sendrec")
    BY <2>2 DEF Way
  <2>4. \/ i.message.cmd = Cmd(call[d].op) /\ i.message.n = call[d].n
        \/ call[d].op # "sendrec" /\ i.message.cmd = "NTFY_MSG"
    BY <2>2 DEF Way
  <2>5. call[d].op = "sendrec" /\ i.message.cmd = "SNDREC_MSG" /\ i.message.n = call[d].n
    BY <1>3, <2>3, <2>4 DEF Cmd
  <2>6. ~OnWay(l, d) /\ ~AtReturn(l, d) /\ ~OnReturn(l, d)
    BY <2>2 DEF Lone
  <2>7. Abroad(l, d) /\ ~Abroad(l, d)'
    BY <2>1, <2>2, <2>3, <2>5, <2>6, LettersShrink
       DEF Abroad, OnWay, AtPeer, AtReturn, OnReturn, NoMore
  <2>8. QED
    BY <1>1, <2>1, <2>3, <2>5, <2>7
<1>4. QED
  BY <1>2, <1>3

LEMMA OwingStep ==
    ASSUME IInv, AllLawful, Chains, Orderly, Journeys, [Next]_vars,
           NEW l \in Links, NEW d \in Procs, Home[d] = l[1], NEW p \in Procs, owed'[p][d] # 0
    PROVE  Awaits(d, p, owed[p][d])'
<1>1. Travels(l, d) /\ Chain(l, d)
  BY DEF Journeys, Journey, Chains
<1>2. CASE owed'[p][d] = owed[p][d]
  <2>1. PICK re : re = owed[p][d]
    OBVIOUS
  <2>2. Awaits(d, p, re)
    BY <1>2, <2>1 DEF Journeys, Owing
  <2>3. Awaits(d, p, re)'
    BY <1>2, <2>2, AwaitsKept
  <2>4. QED
    BY <1>2, <2>1, <2>3
<1>3. CASE owed'[p][d] # owed[p][d]
  <2>1. taken'[p][d] # taken[p][d]
    BY <1>3, EveryOwedStep DEF OwedStep
  <2>2. Delivered(l, d) \/ \E q \in Procs : IsTaken(l, d, q)
    BY <2>1, EveryStepShaped, Elsewhere DEF SameTaken
  <2>3. \/ Delivered(l, d) /\ p = Header(l).dst /\ Header(l).cmd = "SNDREC_MSG"
        \/ IsTaken(l, d, p) /\ (Image(l, d).message.cmd = "SNDREC_MSG"
                                  \/ "RECEIVING" \in Image(l, d).rts)
    <3>1. CASE Delivered(l, d)
      BY <1>3, <2>1, <3>1 DEF Delivered
    <3>2. ASSUME NEW q \in Procs, IsTaken(l, d, q)
          PROVE  IsTaken(l, d, p) /\ Image(l, d).message.cmd = "SNDREC_MSG"
      BY <1>3, <2>1, <3>2 DEF IsTaken
    <3>3. QED
      BY <2>2, <3>1, <3>2
  <2>4. PICK re : re = call[d].n
    OBVIOUS
  <2>5. owed'[p][d] = re /\ Awaits(d, p, re)'
    <3>1. SameThread(d)
      BY <2>3 DEF Delivered, Arriving, IsTaken
    <3>2. owed'[p][d] = call[d].n /\ Awaits(d, p, call[d].n)'
      BY <1>1, <2>3, RequestTaken
    <3>3. call'[d].n = re
      BY <2>4, <3>1 DEF SameThread
    <3>4. Awaits(d, p, re)'
      BY <3>2, <3>3
    <3>5. QED
      BY <2>4, <3>2, <3>4
  <2>6. QED
    BY <2>5
<1>4. QED
  BY <1>2, <1>3

-----------------------------------------------------------------------------
(* The reply on its way is the one its client awaits                         *)

LEMMA HomeKept ==
    ASSUME NEW l \in Links, NEW p \in Procs, Shaped(l, p), AtHome(l, p)'
    PROVE  \/ AtHome(l, p) /\ Local(l, p)'.rmtcmd = Local(l, p).rmtcmd
           \/ \E op \in RemoteCalls, d \in Procs : Begins(l, p, op, d)
<1>1. CASE \/ SameLocal(l, p) \/ Awaiting(l, p) \/ Finishes(l, p) \/ Hears(l, p) \/ IsTold(l, p)
           \/ Departs(l, p) \/ IsReadied(l, p)
  BY <1>1 DEF AtHome, SameLocal, Awaiting, Finishes, Hears, IsTold, Departs, IsReadied
<1>2. QED
  BY <1>1 DEF Shaped, Quiet, Receives, GivesUp, Delivered, Refused, Queues, Arriving, IsTaken,
       AckDeparts, IsCleared, IsCalled

LEMMA LetterMoves ==
    ASSUME IInv, NEW l \in Links, NEW p \in Procs, Home[p] = l[1], Shaped(l, p), OutFits(l, p),
           NEW c \in LettersOf(l, p)'
    PROVE  c \in LettersOf(l, p) \/ (AtHome(l, p) /\ c = Local(l, p).rmtcmd)
<1>1. CASE NoMoreMail(l, p)
  BY <1>1, LettersShrink
<1>2. CASE Departs(l, p)
  <2>1. Handled(l, p) /\ net'[l] = Append(net[l], Local(l, p).rmtcmd)
    BY <1>2 DEF Departs, Handled
  <2>2. AtHome(l, p)
    BY <2>1 DEF OutFits, Here, AtHome, Local
  <2>3. net[l] \in Seq(Commands) /\ Local(l, p).rmtcmd \in Commands
    BY NetTyped, EndFacts DEF Local, Descriptors
  <2>4. ToSet(net'[l]) = ToSet(net[l]) \cup {Local(l, p).rmtcmd}
    BY <2>1, <2>3, ToSetAppend
  <2>5. QED
    BY <2>2, <2>4 DEF LettersOf
<1>3. QED
  BY <1>1, <1>2, Elsewhere

\* A reply stays the awaited one, until its client hears it.
LEMMA ReplyKept ==
    ASSUME IInv, AllLawful, Chains, Orderly, Journeys, [Next]_vars,
           NEW l \in Links, NEW p \in Procs, Home[p] = l[1],
           NEW c, c.cmd = "REPLY_MSG", c.dst \in Procs, ReplyOf(p, c)
    PROVE  \/ ReplyOf(p, c)'
           \/ Hears(Back(l), c.dst) /\ Header(l) \in LettersOf(l, p)
<1>1. PICK d \in Procs : d = c.dst
  OBVIOUS
<1>2. PICK re : re = c.msg.re
  OBVIOUS
<1>3. Awaits(d, p, re) /\ owed[p][d] = 0
  BY <1>1, <1>2 DEF ReplyOf
<1>4. /\ Home[d] = l[2] /\ Back(l) \in Links /\ Back(l)[1] = l[2] /\ Back(Back(l)) = l
      /\ Home[d] = Back(l)[1]
  <2>1. PICK k \in Links : Home[d] = k[1]
    BY LinkOf
  <2>2. p \in IpcTo[d]
    BY <1>3, <2>1 DEF Awaits, Journeys, Journey, Travels, Way, RemoteCalls
  <2>3. Home[p] # Home[d]
    BY <2>2, PrivAssumption
  <2>4. QED
    BY <2>1, <2>3, EndFacts
<1>5. Travels(Back(l), d) /\ Chain(Back(l), d) /\ ~AtHome(Back(l), d) /\ ~Abroad(Back(l), d)
  <2>1. Mine(d) = Local(Back(l), d)
    BY <1>4 DEF Mine, Local
  <2>2. QED
    BY <1>3, <1>4, <2>1 DEF Journeys, Journey, Chains, Awaits, AtHome
<1>6. owed'[p][d] = 0
  <2>1. CASE taken'[p][d] # taken[p][d]
    <3>1. Delivered(Back(l), d) \/ \E q \in Procs : IsTaken(Back(l), d, q)
      BY <1>4, <2>1, EveryStepShaped, Elsewhere DEF SameTaken
    <3>2. QED
      BY <1>4, <1>5, <3>1, NothingArrives
  <2>2. QED
    BY <1>3, <1>4, <2>1, EveryOwedStep DEF OwedStep
<1>7. CASE Awaits(d, p, re)'
  BY <1>1, <1>2, <1>6, <1>7 DEF ReplyOf
<1>8. QED
  BY <1>1, <1>3, <1>4, <1>7, AwaitsKept

\* The letter a process has on its way is the last, when another takes it.
LEMMA LastLetter ==
    ASSUME IInv, NEW l \in Links, NEW p \in Procs, Home[p] = l[1], Chain(l, p), Travels(l, p),
           net[l] # <<>>, net'[l] = Tail(net[l]), Header(l) \in LettersOf(l, p)
    PROVE  LettersOf(l, p)' = {}
<1>1. net[l] \in Seq(Commands) /\ InOrder(net[l], Mail(p)) /\ Header(l) = Head(net[l])
  BY NetTyped DEF Chain, Header
<1>2. /\ ToSet(Tail(net[l])) \subseteq ToSet(net[l])
      /\ Header(l) \in Mail(p) =>
            Below({Header(l).msg.n}, {c.msg.n : c \in ToSet(Tail(net[l])) \cap Mail(p)})
  BY <1>1, ToSetTail, InOrderTail
<1>3. \A c \in LettersOf(l, p) : c \in Mail(p) /\ c.msg.n = call[p].n
  BY DEF LettersOf, Letters, Travels, Way, Bears
<1>4. call[p].n \in Nat
  BY MineFacts DEF IInv
<1>5. ASSUME NEW c \in LettersOf(l, p)'
      PROVE  FALSE
  <2>1. c \in ToSet(Tail(net[l])) \cap Mail(p) /\ c \in LettersOf(l, p)
    BY <1>2, <1>5 DEF LettersOf, Letters
  <2>2. Header(l).msg.n < c.msg.n
    BY <1>2, <1>3, <2>1 DEF Below
  <2>3. QED
    BY <1>3, <1>4, <2>1, <2>2
<1>6. QED
  BY <1>5

LEMMA BeginsReplying ==
    ASSUME IInv, AllLawful, Chains, Orderly, Journeys, [Next]_vars,
           NEW l \in Links, NEW p \in Procs, Home[p] = l[1],
           NEW op \in RemoteCalls, NEW d \in Procs, Begins(l, p, op, d)
    PROVE  Replying(l, p)'
<1>1. LettersOf(l, p)' = {}
  <2>1. Travels(l, p) /\ pc[p] # "sleep" /\ SameImage(l, p) /\ NoMore(l, p)
    BY DEF Journeys, Journey, Begins
  <2>2. ~Abroad(l, p)
    BY <2>1, AtRest
  <2>3. ~OnWay(l, p)'
    BY <2>1, <2>2, NothingNew DEF Abroad
  <2>4. QED
    BY <2>3 DEF OnWay
<1>2. PICK re : re = owed[p][d]
  OBVIOUS
<1>3. PICK c : c = Local(l, p)'.rmtcmd
  OBVIOUS
<1>4. c.cmd = Cmd(op) /\ c.dst = d /\ c.msg.re = IF op = "reply" THEN re ELSE 0
  BY <1>2, <1>3 DEF Begins, Commanding, Answers
<1>5. CASE op # "reply"
  <2>1. c.cmd # "REPLY_MSG"
    BY <1>4, <1>5, CmdFacts
  <2>2. ReplyOf(p, c)'
    BY <2>1 DEF ReplyOf
  <2>3. QED
    BY <1>1, <1>3, <2>2 DEF Replying
<1>6. CASE op = "reply"
  <2>1. owed[p][d] > 0 /\ NewReply(p, d)
    BY <1>6 DEF Begins, NewReply
  <2>2. PICK k \in Links : Home[d] = k[1]
    BY LinkOf
  <2>3. /\ owed[p][d] \in Nat /\ Travels(k, d) /\ Chain(k, d) /\ Awaits(d, p, re)
        /\ owed[p][d] # 0
    BY <1>2, <2>1, <2>2 DEF Journeys, Journey, Chains, Owing, IInv, RestTyped
  <2>4. Awaits(d, p, re)'
    BY <2>2, <2>3, AwaitsKept
  <2>5. ~AtHome(k, d) /\ ~Abroad(k, d)
    <3>1. Mine(d) = Local(k, d)
      BY <2>2 DEF Mine, Local
    <3>2. QED
      BY <2>2, <2>3, <3>1 DEF Awaits, AtHome
  <2>6. owed'[p][d] = 0
    <3>1. CASE taken'[p][d] # taken[p][d]
      <4>1. Delivered(k, d) \/ \E q \in Procs : IsTaken(k, d, q)
        BY <2>2, <3>1, EveryStepShaped, Elsewhere DEF SameTaken
      <4>2. QED
        BY <2>2, <2>3, <2>5, <4>1, NothingArrives
    <3>2. QED
      BY <2>1, <2>2, <3>1, EveryOwedStep DEF OwedStep
  <2>7. ReplyOf(p, c)'
    BY <1>4, <1>6, <2>4, <2>6 DEF ReplyOf
  <2>8. QED
    BY <1>1, <1>3, <2>7 DEF Replying
<1>7. QED
  BY <1>5, <1>6

LEMMA ReplyingStep ==
    ASSUME IInv, AllLawful, Chains, Orderly, Journeys, [Next]_vars,
           NEW l \in Links, NEW p \in Procs, Home[p] = l[1]
    PROVE  Replying(l, p)'
<1>1. Shaped(l, p) /\ Travels(l, p) /\ Chain(l, p) /\ Replying(l, p)
  BY EveryStepShaped DEF Journeys, Journey, Chains
<1>2. CASE \E op \in RemoteCalls, d \in Procs : Begins(l, p, op, d)
  BY <1>2, BeginsReplying
<1>3. CASE ~\E op \in RemoteCalls, d \in Procs : Begins(l, p, op, d)
  <2>1. AtHome(l, p)' => AtHome(l, p) /\ Local(l, p)'.rmtcmd = Local(l, p).rmtcmd
    BY <1>1, <1>3, HomeKept
  <2>2. \A c \in LettersOf(l, p)' :
           c \in LettersOf(l, p) \/ (AtHome(l, p) /\ c = Local(l, p).rmtcmd)
    BY <1>1, LetterMoves DEF Travels
  <2>3. ASSUME NEW c, \/ c \in LettersOf(l, p)'
                      \/ AtHome(l, p)' /\ c = Local(l, p)'.rmtcmd
        PROVE  ReplyOf(p, c)'
    <3>1. ReplyOf(p, c) /\ (OnWay(l, p) \/ AtHome(l, p))
      BY <1>1, <2>1, <2>2, <2>3 DEF Replying, OnWay
    <3>2. CASE c.cmd = "REPLY_MSG" /\ ~ReplyOf(p, c)'
      <4>1. c.dst \in Procs
        <5>1. Bears(p, c)
          BY <1>1, <2>1, <2>2, <2>3 DEF Travels, Way
        <5>2. call[p].op \in RemoteCalls /\ call[p].peer \in IpcTo[p]
          BY <1>1, <3>1 DEF Travels, Way, Abroad, RemoteCalls
        <5>3. QED
          BY <5>1, <5>2, PrivAssumption DEF Bears
      <4>2. Hears(Back(l), c.dst) /\ Header(l) \in LettersOf(l, p)
        BY <3>1, <3>2, <4>1, ReplyKept
      <4>3. net[l] # <<>> /\ net'[l] = Tail(net[l])
        BY <4>2, EndFacts DEF Hears
      <4>4. LettersOf(l, p)' = {}
        BY <1>1, <4>2, <4>3, LastLetter
      <4>5. ~AtHome(l, p)'
        BY <1>1, <2>1, <4>2 DEF Travels, Lone, Abroad, OnWay
      <4>6. QED
        BY <2>3, <4>4, <4>5
    <3>3. CASE c.cmd # "REPLY_MSG"
      BY <3>3 DEF ReplyOf
    <3>4. QED
      BY <3>2, <3>3
  <2>4. PICK c : c = Local(l, p)'.rmtcmd
    OBVIOUS
  <2>5. AtHome(l, p)' => ReplyOf(p, c)'
    BY <2>3, <2>4
  <2>6. QED
    BY <2>3, <2>4, <2>5 DEF Replying
<1>4. QED
  BY <1>2, <1>3

\* The image keeps RECEIVING, if a step neither brings nor takes the request.
LEMMA ImageKeeps ==
    ASSUME IInv, NEW l \in Links, NEW p \in Procs, Home[p] = l[1], Shaped(l, p), Travels(l, p),
           ~Queues(l, p), ~(Delivered(l, p) /\ Header(l).cmd = "SNDREC_MSG"),
           \A q \in Procs : ~(IsTaken(l, p, q) /\ "RECEIVING" \in Image(l, p).rts),
           "RECEIVING" \in Image(l, p)'.rts
    PROVE  /\ "RECEIVING" \in Image(l, p).rts
           /\ AtPeer(l, p) => AtPeer(l, p)'
<1>1. CASE SameImage(l, p)
  BY <1>1 DEF SameImage, AtPeer
<1>2. CASE Delivered(l, p) \/ Refused(l, p) \/ \E q \in Procs : IsTaken(l, p, q)
  <2>1. CASE Delivered(l, p)
    BY <2>1 DEF Delivered, AtPeer
  <2>2. CASE Refused(l, p)
    BY <2>2 DEF Refused, AtPeer
  <2>3. CASE \E q \in Procs : IsTaken(l, p, q)
    BY <2>3 DEF IsTaken, AtPeer
  <2>4. QED
    BY <1>2, <2>1, <2>2, <2>3
<1>3. CASE \E q \in Procs, op \in RemoteCalls : IsCalled(l, p, q, op)
  BY <1>3 DEF IsCalled, AtPeer
<1>4. CASE AckDeparts(l, p)
  <2>1. Handled(Back(l), p)
    BY <1>4 DEF AckDeparts, Handled
  <2>2. AtReturn(l, p)
    BY <2>1, EndFacts DEF Travels, Stands, OutFits, Here, AtReturn, Image
  <2>3. ~AtPeer(l, p)
    BY <2>2 DEF Travels, Lone
  <2>4. QED
    BY <1>4, <2>3 DEF AckDeparts
<1>5. QED
  BY <1>1, <1>2, <1>3, <1>4 DEF Shaped, Quiet, Begins, Receives, Awaiting, GivesUp, Finishes,
     Hears, IsTold, Departs, IsReadied, IsCleared

LEMMA ExpectingStep ==
    ASSUME IInv, AllLawful, Chains, Orderly, Journeys, [Next]_vars,
           NEW l \in Links, NEW p \in Procs, Home[p] = l[1]
    PROVE  Expecting(l, p)'
<1>1. Shaped(l, p) /\ Travels(l, p) /\ Chain(l, p) /\ Expecting(l, p)
  BY EveryStepShaped DEF Journeys, Journey, Chains
<1>2. CASE Queues(l, p)
  <2>1. AtPeer(l, p)'
    BY <1>2 DEF Queues, AtPeer
  <2>2. QED
    BY <2>1 DEF Expecting
<1>3. ASSUME NEW q \in Procs, owed'[q][p] > 0
      PROVE  Expecting(l, p)'
  <2>1. owed'[q][p] # 0
    BY <1>3
  <2>2. QED
    BY <2>1 DEF Expecting
<1>4. CASE Delivered(l, p) /\ Header(l).cmd = "SNDREC_MSG"
  <2>1. PICK q \in Procs : q = Header(l).dst
    <3>1. Arriving(l, p) /\ Header(l) \in Letters(p)
      BY <1>4 DEF Delivered
    <3>2. Lawful(Header(l)) /\ Header(l) \in Mail(p)
      BY <1>1, <3>1, ArrivingLetter DEF Letters
    <3>3. QED
      BY <3>2, PrivAssumption DEF Lawful, Mail
  <2>2. owed'[q][p] > 0
    BY <1>1, <1>4, <2>1, RequestTaken
  <2>3. QED
    BY <1>3, <2>2
<1>5. ASSUME NEW q \in Procs, IsTaken(l, p, q), "RECEIVING" \in Image(l, p).rts
      PROVE  Expecting(l, p)'
  <2>1. owed'[q][p] > 0
    BY <1>1, <1>5, RequestTaken
  <2>2. QED
    BY <1>3, <2>1
<1>6. CASE /\ ~Queues(l, p) /\ ~(Delivered(l, p) /\ Header(l).cmd = "SNDREC_MSG")
           /\ \A q \in Procs : ~(IsTaken(l, p, q) /\ "RECEIVING" \in Image(l, p).rts)
           /\ "RECEIVING" \in Image(l, p)'.rts
  <2>1. "RECEIVING" \in Image(l, p).rts /\ (AtPeer(l, p) => AtPeer(l, p)')
    BY <1>1, <1>6, ImageKeeps
  <2>2. CASE AtPeer(l, p)
    BY <2>1, <2>2 DEF Expecting
  <2>3. CASE ~AtPeer(l, p)
    <3>1. PICK q \in Procs : owed[q][p] # 0
      BY <1>1, <2>1, <2>3 DEF Expecting
    <3>2. ~Abroad(l, p) /\ ~AtHome(l, p)
      <4>1. Awaits(p, q, owed[q][p]) /\ Mine(p) = Local(l, p)
        BY <3>1 DEF Journeys, Owing, Mine, Local
      <4>2. QED
        BY <4>1 DEF Awaits, AtHome
    <3>3. taken'[q][p] = taken[q][p]
      <4>1. ~Delivered(l, p) /\ ~\E r \in Procs : IsTaken(l, p, r)
        BY <1>1, <3>2, NothingArrives
      <4>2. QED
        BY <1>1, <4>1, Elsewhere DEF SameTaken
    <3>4. owed'[q][p] # 0
      BY <1>6, <3>1, <3>3, EveryOwedStep DEF OwedStep
    <3>5. QED
      BY <3>4 DEF Expecting
  <2>4. QED
    BY <2>2, <2>3
<1>7. QED
  BY <1>2, <1>4, <1>5, <1>6 DEF Expecting

LEMMA JourneysStep ==
    ASSUME IInv, AllLawful, Chains, Orderly, Journeys, [Next]_vars
    PROVE  Journeys'
<1>1. ASSUME NEW l \in Links, NEW p \in Procs, Home[p] = l[1]
      PROVE  Journey(l, p)'
  BY <1>1, TravelsStep, ReplyingStep, ExpectingStep DEF Journey
<1>2. ASSUME NEW p \in Procs, NEW d \in Procs, owed'[p][d] # 0
      PROVE  Awaits(d, p, owed[p][d])'
  <2>1. PICK l \in Links : Home[d] = l[1]
    BY LinkOf
  <2>2. QED
    BY <1>2, <2>1, OwingStep
<1>3. Owing'
  BY <1>2 DEF Owing
<1>4. QED
  BY <1>1, <1>3 DEF Journeys

LEMMA JourneysInit ==
    ASSUME Init
    PROVE  Journeys
<1>1. Owing
  BY DEF Init, Owing
<1>2. ASSUME NEW l \in Links, NEW p \in Procs, Home[p] = l[1]
      PROVE  Journey(l, p)
  <2>1. /\ Local(l, p) = Clean /\ Image(l, p) = Clean /\ LettersOf(l, p) = {} /\ AcksOf(l, p) = {}
        /\ net[Back(l)] = <<>>
    <3>1. l[1] \in Nodes /\ l[2] \in Nodes /\ Back(l) \in Links
      BY LinkFacts
    <3>2. QED
      BY <3>1 DEF Init, Local, Image, LettersOf, AcksOf, ToSet
  <2>2. ~AtHome(l, p) /\ ~AtPeer(l, p) /\ ~AtReturn(l, p) /\ ~OnWay(l, p) /\ ~OnReturn(l, p)
    BY <2>1 DEF Clean, AtHome, AtPeer, AtReturn, OnWay, OnReturn
  <2>3. OutFits(l, p) /\ Stands(Back(l), p)
    BY LinkFacts, QueuesInit DEF Stands
  <2>4. OneAck(l, p)
    BY <2>1 DEF OneAck, AtMostOne
  <2>5. Lone(l, p) /\ Expecting(l, p) /\ Replying(l, p)
    BY <2>1, <2>2 DEF Lone, Expecting, Replying, Abroad, Clean
  <2>6. Way(l, p)
    BY <2>1, <2>2 DEF Way, Abroad, Init, Clean, RemoteCalls
  <2>7. QED
    BY <2>3, <2>4, <2>5, <2>6 DEF Journey, Travels
<1>3. QED
  BY <1>1, <1>2 DEF Journeys

LEMMA JourneysInvariance ==
    ASSUME Orderly
    PROVE  Spec => [](IInv /\ AllLawful /\ Chains /\ Journeys)
<1>1. Init => Journeys
  BY JourneysInit
<1>2. IInv /\ AllLawful /\ Chains /\ Journeys /\ [Next]_vars => Journeys'
  BY JourneysStep
<1>3. Spec => [](IInv /\ AllLawful /\ Chains)
  BY ChainsInvariance
<1>4. QED
  BY <1>1, <1>2, <1>3, PTL DEF Spec

-----------------------------------------------------------------------------
(* No descriptor is linked twice                                             *)

LEMMA EndsStand ==
    ASSUME Journeys, NEW k \in Links, NEW x \in Procs
    PROVE  OutFits(k, x) /\ (Pictured(k, x) => Stands(k, x))
<1>1. CASE Home[x] = k[1]
  BY <1>1 DEF Journeys, Journey, Travels, Pictured
<1>2. CASE Home[x] # k[1]
  <2>1. Back(k) \in Links /\ Back(Back(k)) = k /\ Back(k)[1] = k[2] /\ Home[x] = k[2]
    BY <1>2, LinkFacts, HomeAssumption DEF Links, Back
  <2>2. Stands(k, x)
    BY <2>1 DEF Journeys, Journey, Travels
  <2>3. QED
    BY <2>2 DEF Stands
<1>3. QED
  BY <1>1, <1>2

OutqOnce == \A l \in Links : IsInjective(outq[l])
InqOnce == \A q \in Procs : IsInjective(inq[q])

LEMMA EnqueuedOnce ==
    ASSUME IInv, Journeys, OutqOnce, NEW l \in Links, NEW y \in Procs, SproxyEnqueue(l, y),
           "RMTOPER" \notin desc[l[1]][y].rts
    PROVE  OutqOnce'
<1>1. y \notin ToSet(outq[l])
  BY EndsStand DEF OutFits, Here
<1>2. \A k \in Links : outq'[k] = IF k = l THEN Append(outq[k], y) ELSE outq[k]
  BY EnqueueEffect
<1>3. \A k \in Links : outq[k] \in Seq(Procs)
  BY QueuesTyped
<1>4. QED
  BY <1>1, <1>2, <1>3, AppendOnce DEF OutqOnce

LEMMA UnlinkedOnce ==
    ASSUME IInv, NEW n, NEW y
    PROVE  /\ OutqOnce /\ outq' = UnlinkOut(n, y) => OutqOnce'
           /\ InqOnce /\ inq' = UnlinkIn(n, y) => InqOnce'
<1>1. ASSUME OutqOnce, outq' = UnlinkOut(n, y), NEW k \in Links
      PROVE  IsInjective(outq'[k])
  <2>1. outq'[k] = outq[k] \/ outq'[k] = Without(outq[k], y)
    BY <1>1, UnlinkOutEffect
  <2>2. QED
    BY <1>1, <2>1, QueuesTyped, WithoutQueue DEF OutqOnce
<1>2. ASSUME InqOnce, inq' = UnlinkIn(n, y), NEW q \in Procs
      PROVE  IsInjective(inq'[q])
  <2>1. inq'[q] = inq[q] \/ inq'[q] = Without(inq[q], y)
    BY <1>2, UnlinkInEffect
  <2>2. QED
    BY <1>2, <2>1, QueuesTyped, WithoutQueue DEF InqOnce
<1>3. QED
  BY <1>1, <1>2 DEF OutqOnce, InqOnce

\* A refusal answers a message whose sender's image is at no proxy.
LEMMA DeniedOnce ==
    ASSUME IInv, AllLawful, Chains, Orderly, Journeys, OutqOnce, NEW l \in Links, Put2lclDenied(l)
    PROVE  OutqOnce'
<1>1. CASE Header(l).cmd = "SEND_ACK"
  BY <1>1 DEF Put2lclDenied, OutqOnce
<1>2. CASE Header(l).cmd # "SEND_ACK"
  <2>1. PICK p \in Procs : p = Header(l).src
    BY ArrivingFacts DEF Put2lclDenied
  <2>2. /\ Home[p] = l[1] /\ Header(l) \in Mail(p) /\ net[l] # <<>> /\ net'[l] = Tail(net[l])
        /\ Header(l).dst \in Procs /\ Header(l).dst \notin RmtIpcTo[p]
        /\ \A k \in Links, x \in Procs : NoMore(k, x)
    BY <1>2, <2>1, ArrivingFacts DEF Put2lclDenied, Admitted
  <2>3. /\ UNCHANGED <<pc, call, ret, got>>
        /\ Change(l[2], p, Acknowledging(desc[l[2]][p], Header(l).dst, p, "error"))
        /\ SproxyEnqueue(Back(l), p)
    BY <1>2, <2>1 DEF Put2lclDenied, Change
  <2>4. desc'[l[1]][p] = desc[l[1]][p]
    BY <2>3, LinkFacts, OneChanged
  <2>5. Arriving(l, p)
    BY <2>2, <2>3, <2>4, SameDescs DEF Arriving, SameThread
  <2>6. ~AtReturn(l, p)
    BY <2>2, <2>5, ArrivingLetter DEF Journeys, Journey, Chains
  <2>7. Back(l) \in Links /\ Back(l)[1] = l[2]
    BY LinkFacts DEF Back
  <2>8. QED
    BY <2>3, <2>6, <2>7, EnqueuedOnce DEF AtReturn, Image
<1>3. QED
  BY <1>1, <1>2

LEMMA OutqOnceStep ==
    ASSUME IInv, AllLawful, Chains, Orderly, Journeys, OutqOnce, [Next]_vars
    PROVE  OutqOnce'
<1>1. CASE UNCHANGED outq
  BY <1>1 DEF OutqOnce
<1>2. ASSUME NEW p \in Procs, NEW d \in Procs,
             Send(p, d) \/ Sendrec(p, d) \/ Notify(p, d) \/ Reply(p, d)
      PROVE  OutqOnce'
  <2>1. PICK op \in RemoteCalls : Remote(p, op, d, Cmd(op), Answers(p, op, d))
    BY <1>2, CallSeen
  <2>2. SproxyEnqueue(<<Home[p], Home[d]>>, p)
    BY <2>1 DEF Remote
  <2>3. Mine(p).rts = {} /\ Home[d] # Home[p]
    BY <2>1, RemoteEffect
  <2>4. PICK l \in Links : l = <<Home[p], Home[d]>>
    BY <2>3, HomeAssumption DEF Links
  <2>5. QED
    BY <2>2, <2>3, <2>4, EnqueuedOnce DEF Mine
<1>3. ASSUME NEW p \in Procs, NEW s \in Sources[p], ReceiveTake(p, s)
      PROVE  OutqOnce'
  <2>1. PICK y \in Procs : Unqueues(p, y)
    BY <1>3, ReceiveTakeEffect
  <2>2. /\ Home[y] # Home[p] /\ "SENDING" \in desc[Home[p]][y].rts
        /\ UNCHANGED outq \/ SproxyEnqueue(<<Home[p], Home[y]>>, y)
    BY <2>1 DEF Unqueues
  <2>3. PICK k \in Links : k = <<Home[p], Home[y]>>
    BY <2>2, HomeAssumption DEF Links
  <2>4. "RMTOPER" \notin desc[k[1]][y].rts
    BY <2>2, <2>3, EndsStand DEF Pictured, Stands, InFits, Here
  <2>5. QED
    BY <1>1, <2>2, <2>3, <2>4, EnqueuedOnce
<1>4. ASSUME NEW p \in Procs, CallDone(p)
      PROVE  OutqOnce'
  BY <1>1, <1>4, UnlinkedOnce DEF CallDone
<1>5. ASSUME NEW l \in Links, Get2rmtTake(l)
      PROVE  OutqOnce'
  BY <1>5, UnlinkedOnce DEF Get2rmtTake
<1>6. ASSUME NEW l \in Links, Put2lclDeliver(l)
      PROVE  OutqOnce'
  <2>1. PICK y \in Procs : y = Header(l).src
    BY <1>6, ArrivingFacts DEF Put2lclDeliver, Accepted
  <2>2. /\ desc[l[2]][y].rts \cap {"SENDING", "RMTOPER"} = {}
        /\ UNCHANGED outq \/ SproxyEnqueue(Back(l), y)
    BY <1>6, <2>1 DEF Put2lclDeliver, Accepted, Unused
  <2>3. Back(l) \in Links /\ Back(l)[1] = l[2]
    BY LinkFacts DEF Back
  <2>4. QED
    BY <1>1, <2>2, <2>3, EnqueuedOnce
<1>7. QED
  BY <1>1, <1>2, <1>3, <1>4, <1>5, <1>6, DeniedOnce
     DEF Next, vars, Process, Calling, Continue, Receive, ReceiveNow, ReceiveNotify, ReceiveBlock,
         ReceiveDone, Expire, Get2rmt, Get2rmtLook, Get2rmtSleep, Get2rmtDispatch,
         Put2lcl, Put2lclDropped, Put2lclQueue, Put2lclNotify, Put2lclAck

LEMMA InqOnceStep ==
    ASSUME IInv, AllLawful, Journeys, InqOnce, [Next]_vars
    PROVE  InqOnce'
<1>1. CASE UNCHANGED inq
  BY <1>1 DEF InqOnce
<1>2. ASSUME NEW p \in Procs, NEW s \in Sources[p], ReceiveTake(p, s)
      PROVE  InqOnce'
  <2>1. PICK y \in Procs : Unqueues(p, y)
    BY <1>2, ReceiveTakeEffect
  <2>2. QED
    BY <2>1, UnlinkedOnce DEF Unqueues
<1>3. ASSUME NEW l \in Links, Get2rmtTake(l)
      PROVE  InqOnce'
  BY <1>3, UnlinkedOnce DEF Get2rmtTake
<1>4. ASSUME NEW l \in Links, Put2lclQueue(l)
      PROVE  InqOnce'
  <2>1. PICK y \in Procs, q \in Procs : y = Header(l).src /\ q = Header(l).dst
    BY <1>4, ArrivingFacts DEF Put2lclQueue, Accepted
  <2>2. /\ desc[l[2]][y].rts \cap {"SENDING", "RMTOPER"} = {}
        /\ Home[y] = l[1] /\ Home[q] = l[2]
        /\ inq' = [inq EXCEPT ![q] = Append(@, y)]
    BY <1>4, <2>1, ArrivingFacts DEF Put2lclQueue, Accepted, Unused
  <2>3. Back(l) \in Links /\ Back(l)[1] = l[2] /\ l[1] # l[2]
    BY LinkFacts DEF Back
  <2>4. y \notin ToSet(inq[q])
    BY <2>2, <2>3, EndsStand DEF Pictured, Stands, InFits, Here
  <2>5. /\ inq[q] \in Seq(Procs)
        /\ \A r \in Procs : inq'[r] = IF r = q THEN Append(inq[q], y) ELSE inq[r]
    BY <2>2, QueuesTyped
  <2>6. QED
    BY <2>4, <2>5, AppendOnce DEF InqOnce
<1>5. ASSUME NEW p \in Procs, Process(p)
      PROVE  InqOnce'
  <2>1. ASSUME NEW d \in Procs, Send(p, d) \/ Sendrec(p, d) \/ Notify(p, d) \/ Reply(p, d)
        PROVE  InqOnce'
    BY <1>1, <2>1 DEF Send, Sendrec, Notify, Reply, Remote
  <2>2. ASSUME NEW s \in Sources[p], Receive(p, s)
        PROVE  InqOnce'
    BY <1>1, <1>2, <2>2 DEF Receive, ReceiveNow, ReceiveNotify, ReceiveBlock
  <2>3. CASE Continue(p) \/ Expire(p)
    BY <1>1, <2>3 DEF Continue, CallDone, ReceiveDone, Expire
  <2>4. QED
    BY <1>5, <2>1, <2>2, <2>3 DEF Process, Calling
<1>6. ASSUME NEW l \in Links, Get2rmt(l) \/ Put2lcl(l)
      PROVE  InqOnce'
  BY <1>1, <1>3, <1>4, <1>6 DEF Get2rmt, Get2rmtLook, Get2rmtSleep, Get2rmtDispatch,
     Put2lcl, Put2lclDenied, Put2lclDropped, Put2lclDeliver, Put2lclNotify, Put2lclAck
<1>7. QED
  BY <1>1, <1>5, <1>6 DEF Next, vars

\* What the image of a process links to, and where its command is, tell each
\* list from the others.
LEMMA ListsApart ==
    ASSUME IInv, Journeys, OutqOnce, InqOnce
    PROVE  LinkedOnce
<1>1. ASSUME NEW q \in Procs, NEW x \in ToSet(inq[q])
      PROVE  /\ \A l \in Links : l[1] = Home[q] => x \notin ToSet(outq[l])
             /\ \A r \in Procs \ {q} : Home[r] = Home[q] => x \notin ToSet(inq[r])
  <2>1. x \in Procs /\ Home[x] # Home[q]
    <3>1. inq[q] \in Seq(Procs)
      BY QueuesTyped
    <3>2. x \in Procs
      BY <3>1, InList
    <3>3. QED
      BY <3>2, QueuesTyped
  <2>2. ASSUME NEW k \in Links, k[1] = Home[q]
        PROVE  OutFits(k, x) /\ InFits(k, x)
    BY <2>1, <2>2, EndsStand DEF Pictured, Stands
  <2>3. ASSUME NEW k \in Links, k[1] = Home[q]
        PROVE  x \notin ToSet(outq[k])
    BY <2>2, <2>3, <1>1 DEF OutFits, InFits
  <2>4. ASSUME NEW r \in Procs \ {q}, Home[r] = Home[q]
        PROVE  x \notin ToSet(inq[r])
    <3>1. PICK k \in Links : k[1] = Home[q]
      BY LinkOf
    <3>2. QED
      BY <1>1, <2>2, <2>4, <3>1 DEF InFits
  <2>5. QED
    BY <2>3, <2>4
<1>2. QED
  BY <1>1 DEF LinkedOnce, OutqOnce, InqOnce

Lines == OutqOnce /\ InqOnce

LEMMA LinesInvariance ==
    ASSUME Orderly
    PROVE  Spec => [](IInv /\ Journeys /\ Lines)
<1>1. Init => Lines
  BY DEF Init, Lines, OutqOnce, InqOnce, IsInjective
<1>2. IInv /\ AllLawful /\ Chains /\ Journeys /\ Lines /\ [Next]_vars => Lines'
  BY OutqOnceStep, InqOnceStep DEF Lines
<1>3. Spec => [](IInv /\ AllLawful /\ Chains /\ Journeys)
  BY JourneysInvariance
<1>4. QED
  BY <1>1, <1>2, <1>3, PTL DEF Spec

\* In an orderly system no descriptor is ever in two lists, or twice in one:
\* neither sproxy_enqueue nor send_rmt2lcl finds p_link in use.
THEOREM ListsSound ==
    ASSUME Orderly
    PROVE  Spec => []LinkedOnce
<1>1. IInv /\ Journeys /\ Lines => LinkedOnce
  BY ListsApart DEF Lines
<1>2. Spec => [](IInv /\ Journeys /\ Lines)
  BY LinesInvariance
<1>3. QED
  BY <1>1, <1>2, PTL

\* In an orderly system a descriptor, of a process or of its image, has RMTOPER
\* exactly while it is at the sender proxy of its node.
THEOREM ProxyQueuesExact ==
    ASSUME Orderly
    PROVE  Spec => []OutqExact
<1>1. IInv /\ Journeys => OutqExact
  <2> SUFFICES ASSUME IInv, Journeys, NEW n \in Nodes, NEW p \in Procs
               PROVE  "RMTOPER" \in desc[n][p].rts <=>
                        \E l \in Links : l[1] = n /\
                           (p \in ToSet(outq[l]) \/ (sproxy[l].at = "taken" /\ sproxy[l].xpp = p))
    BY DEF OutqExact
  <2>1. PICK k \in Links : k[1] = n /\ \A l \in Links : l[1] = n => l = k
    <3>1. PICK m \in Nodes : m # n
      BY NodesAssumption
    <3>2. PICK k : k = <<n, m>>
      OBVIOUS
    <3>3. k \in Links /\ k[1] = n
      BY <3>1, <3>2 DEF Links
    <3>4. ASSUME NEW l \in Links, l[1] = n
          PROVE  l = k
      BY <3>1, <3>2, <3>4, NodesAssumption DEF Links
    <3>5. QED
      BY <3>3, <3>4
  <2>2. OutFits(k, p)
    BY EndsStand
  <2>3. QED
    BY <2>1, <2>2 DEF OutFits, Here, Handled
<1>2. Spec => [](IInv /\ Journeys /\ Lines)
  BY LinesInvariance
<1>3. QED
  BY <1>1, <1>2, PTL

\* In an orderly system a thread sleeps exactly while its descriptor has a
\* flag: of the sender proxy, the receiver proxy and the acknowledgement,
\* whichever clears the last flag wakes it, once.
THEOREM OneWakeup ==
    ASSUME Orderly
    PROVE  Spec => []WakeProtocol
<1>1. IInv /\ Journeys => WakeProtocol
  <2> SUFFICES ASSUME IInv, Journeys, NEW p \in Procs
               PROVE  IF pc[p] = "user" THEN Mine(p).rts = {}
                      ELSE (Mine(p).rts # {}) <=> (Mine(p).sem = -1)
    BY DEF WakeProtocol
  <2>1. PICK l \in Links : Home[p] = l[1]
    BY LinkOf
  <2>2. Way(l, p) /\ Mine(p) = Local(l, p)
    BY <2>1 DEF Journeys, Journey, Travels, Mine, Local
  <2>3. pc[p] \in {"user", "sleep"} /\ (pc[p] = "user" => Mine(p).rts = {})
    <3>1. Fits(Mine(p), pc[p], call[p].op) /\ pc[p] \in {"user", "sleep", "expired"}
      BY MineFacts DEF IInv, DescsFit
    <3>2. QED
      BY <2>2, <3>1 DEF Fits, Way
  <2>4. QED
    BY <2>2, <2>3 DEF Way
<1>2. Spec => [](IInv /\ Journeys /\ Lines)
  BY LinesInvariance
<1>3. QED
  BY <1>1, <1>2, PTL

-----------------------------------------------------------------------------
(* What a call returns is what happened                                      *)

\* Nobody notifies who sends: the message of a notification is built in the
\* image of its peer, where the message of the peer may wait.
NoticesHarmless ==
    \A p, q \in Procs : q \in IpcTo[p] /\ "notify" \in DvkAllowed[p] =>
        "send" \notin DvkAllowed[q]

SentOk(p) == call[p].n \in ToSet(taken[call[p].peer][p])

\* The code of the acknowledgement, wherever it is, and of the call.
Told(l, p) ==
    call[p].op \in {"send", "reply"} =>
        /\ AtReturn(l, p) => (Image(l, p).rmtcmd.rcode = "OK" <=> SentOk(p))
        /\ \A c \in AcksOf(l, p) : c.rcode = "OK" <=> SentOk(p)
        /\ pc[p] = "sleep" /\ Local(l, p).rts = {} => (Local(l, p).rcode = "OK" <=> SentOk(p))
        /\ pc[p] = "user" => (ret[p] = "OK" <=> SentOk(p))
Intact(l, p) ==      \* the message that waits at the peer is the one sent
    AtPeer(l, p) => call[p].op # "reply" /\ Image(l, p).message.cmd # "NTFY_MSG"
ReplyGot(p) ==
    /\ got[p] # NONE
    /\ got[p].cmd = "REPLY_MSG" /\ got[p].src = call[p].peer /\ got[p].re = call[p].n
Replied(l, p) ==
    /\ call[p].op = "sendrec"
    /\ \/ pc[p] = "sleep" /\ Local(l, p).rts = {} /\ Local(l, p).rcode = "OK"
       \/ pc[p] = "user" /\ ret[p] = "OK"
    => ReplyGot(p)
Report(l, p) == Told(l, p) /\ Intact(l, p) /\ Replied(l, p)
Reports == \A l \in Links, p \in Procs : Home[p] = l[1] => Report(l, p)

\* While the call of p is under way, nothing has been reported to it.
LEMMA UnderWay ==
    ASSUME NEW l \in Links, NEW p \in Procs, SameThread(p),
           pc[p] = "sleep", Local(l, p)'.rts # {}
    PROVE  /\ Replied(l, p)'
           /\ Told(l, p)' <=>
                (call[p].op \in {"send", "reply"} =>
                    /\ AtReturn(l, p)' => (Image(l, p)'.rmtcmd.rcode = "OK" <=> SentOk(p)')
                    /\ \A c \in AcksOf(l, p)' : c.rcode = "OK" <=> SentOk(p)')
BY DEF SameThread, Replied, Told

LEMMA QuietReport ==
    ASSUME NEW l \in Links, NEW p \in Procs, Report(l, p), Quiet(l, p),
           call[p].op \in {"send", "reply"} => call[p].peer \in Procs
    PROVE  Report(l, p)'
<1>1. /\ SameLocal(l, p) /\ SameImage(l, p) /\ SameThread(p) /\ got'[p] = got[p]
      /\ AcksOf(l, p)' \subseteq AcksOf(l, p)
  BY LettersShrink DEF Quiet, NoMore
<1>2. call[p].op \in {"send", "reply"} => (SentOk(p)' <=> SentOk(p))
  BY <1>1 DEF SentOk, SameThread, Quiet, SameTaken
<1>3. Told(l, p)'
  BY <1>1, <1>2 DEF Report, Told, SameLocal, SameImage, SameThread, AtReturn
<1>4. Intact(l, p)' /\ Replied(l, p)'
  BY <1>1 DEF Report, Intact, Replied, ReplyGot, SameLocal, SameImage, SameThread, AtPeer
<1>5. QED
  BY <1>3, <1>4 DEF Report

\* A call begins, or p receives, and nothing of an earlier one is under way.
LEMMA FreshReport ==
    ASSUME NEW l \in Links, NEW p \in Procs, Travels(l, p),
           \/ \E op \in RemoteCalls, d \in Procs : Begins(l, p, op, d)
           \/ Receives(l, p) \/ Awaiting(l, p)
    PROVE  Report(l, p)'
<1>1. /\ pc[p] # "sleep" /\ SameImage(l, p) /\ NoMore(l, p)
      /\ call'[p].op = "receive" \/ (pc'[p] = "sleep" /\ Local(l, p)'.rts # {})
  BY DEF Begins, Receives, Awaiting, CallFlags
<1>2. ~AtPeer(l, p)' /\ ~AtReturn(l, p)' /\ ~OnReturn(l, p)'
  BY <1>1, AtRest, NothingNew DEF Abroad
<1>3. Told(l, p)'
  BY <1>1, <1>2 DEF Told, OnReturn
<1>4. Intact(l, p)' /\ Replied(l, p)'
  BY <1>1, <1>2 DEF Intact, Replied
<1>5. QED
  BY <1>3, <1>4 DEF Report

LEMMA FinishesReport ==
    ASSUME IInv, NEW l \in Links, NEW p \in Procs, Home[p] = l[1], Travels(l, p), Report(l, p),
           Finishes(l, p), call[p].op \in {"send", "reply"} => call[p].peer \in Procs
    PROVE  Report(l, p)'
<1>1. /\ pc[p] = "sleep" /\ Local(l, p).rts = {} /\ pc'[p] = "user" /\ call'[p] = call[p]
      /\ call[p].op # "receive" => got'[p] = got[p]
      /\ SameImage(l, p) /\ SameTaken(p) /\ NoMore(l, p)
  BY DEF Finishes, Travels, Way, IInv, DescsFit
<1>2. ~AtPeer(l, p)' /\ ~AtReturn(l, p)' /\ ~OnReturn(l, p)'
  BY <1>1, AtRest, NothingNew DEF Abroad
<1>3. ret'[p] = "OK" <=> Local(l, p).rcode = "OK"
  BY <1>1 DEF Finishes, Fails, Mine, Local
<1>4. call[p].op \in {"send", "reply"} => (SentOk(p)' <=> SentOk(p))
  BY <1>1 DEF SentOk, SameTaken
<1>5. Told(l, p)'
  BY <1>1, <1>2, <1>3, <1>4 DEF Report, Told, OnReturn
<1>6. Intact(l, p)' /\ Replied(l, p)'
  BY <1>1, <1>2, <1>3 DEF Report, Intact, Replied, ReplyGot
<1>7. QED
  BY <1>5, <1>6 DEF Report

LEMMA HearsReport ==
    ASSUME IInv, AllLawful, Orderly, Journeys, NEW l \in Links, NEW p \in Procs, Home[p] = l[1],
           Report(l, p), Hears(l, p)
    PROVE  Report(l, p)'
<1> DEFINE h == Header(Back(l))
           d == Local(l, p)
<1>1. /\ "RECEIVING" \in d.rts /\ "SENDING" \notin d.rts /\ SameThread(p) /\ SameImage(l, p)
      /\ got'[p] = h.msg
  BY DEF Hears, Waits
<1>2. Fits(d, pc[p], call[p].op) /\ d.rts # {} /\ d = Mine(p)
  BY <1>1, EndFacts, MineFacts DEF IInv, Local
<1>3. pc[p] # "user" /\ call[p].op \notin {"send", "reply"}
  BY <1>1, <1>2 DEF Fits, Waiting, CallFlags
<1>4. Told(l, p)' /\ Intact(l, p)'
  BY <1>1, <1>3 DEF Report, Told, Intact, SameThread, SameImage, AtPeer
<1>5. call[p].op = "sendrec" => ReplyGot(p)'
  <2> SUFFICES ASSUME call[p].op = "sendrec" PROVE ReplyGot(p)'
    OBVIOUS
  <2>1. /\ h.cmd = "REPLY_MSG" /\ h.src = call[p].peer /\ h.src \in Procs
        /\ h \in LettersOf(Back(l), h.src) /\ Awaits(p, h.src, h.msg.re)
    BY AskedReply
  <2>2. Lawful(h) /\ h \in Commands /\ h.cmd \in MsgCmds
    BY <2>1, EndFacts DEF AllLawful, LettersOf, Letters, Mail
  <2>3. h.msg.cmd = "REPLY_MSG" /\ h.msg.src = call[p].peer /\ h.msg.re = call[p].n
    BY <2>1, <2>2 DEF Lawful, Awaits
  <2>4. h.msg # NONE
    <3>1. h.msg \in Messages
      BY <2>2, EndFacts, HeaderFacts DEF Hears, IInv
    <3>2. QED
      BY <3>1, MessagesAssumption
  <2>5. QED
    BY <1>1, <2>3, <2>4 DEF ReplyGot, SameThread
<1>6. Replied(l, p)'
  BY <1>1, <1>5 DEF Replied, SameThread
<1>7. QED
  BY <1>4, <1>6 DEF Report

LEMMA IsToldReport ==
    ASSUME IInv, NEW l \in Links, NEW p \in Procs, Home[p] = l[1], Travels(l, p), Report(l, p),
           IsTold(l, p), call[p].op \in {"send", "reply"} => call[p].peer \in Procs
    PROVE  Report(l, p)'
<1> DEFINE h == Header(Back(l))
           d == Local(l, p)
           e == Local(l, p)'
<1>1. /\ net[Back(l)] # <<>> /\ h \in Acks(p) /\ Woken(d, e, h.rcode)
      /\ SameThread(p) /\ got'[p] = got[p] /\ SameImage(l, p) /\ SameTaken(p) /\ NoMore(l, p)
  BY DEF IsTold
<1>2. h \in AcksOf(l, p)
  <2>1. net[Back(l)] \in Seq(Commands)
    BY EndFacts, NetTyped
  <2>2. QED
    BY <1>1, <2>1, ToSetTail DEF AcksOf, Header
<1>3. call[p].op # "sendrec" /\ pc[p] = "sleep"
  BY <1>2 DEF Travels, Way, OnReturn, Abroad
<1>4. AcksOf(l, p)' \subseteq AcksOf(l, p)
  BY <1>1, LettersShrink DEF NoMore
<1>5. call[p].op \in {"send", "reply"} =>
         (SentOk(p)' <=> SentOk(p)) /\ (h.rcode = "OK" <=> SentOk(p))
  BY <1>1, <1>2 DEF SentOk, SameThread, SameTaken, Report, Told
<1>6. e.rts = {} => e.rcode = h.rcode
  BY <1>1 DEF Woken
<1>7. Told(l, p)'
  BY <1>1, <1>3, <1>4, <1>5, <1>6 DEF Report, Told, SameThread, SameImage, AtReturn
<1>8. Intact(l, p)' /\ Replied(l, p)'
  BY <1>1, <1>3 DEF Report, Intact, Replied, SameThread, SameImage, AtPeer
<1>9. QED
  BY <1>7, <1>8 DEF Report

LEMMA DepartsReport ==
    ASSUME IInv, NEW l \in Links, NEW p \in Procs, Home[p] = l[1], Travels(l, p), Report(l, p),
           Departs(l, p)
    PROVE  Report(l, p)'
<1>1. /\ SameThread(p) /\ SameImage(l, p) /\ NoMoreAcks(l, p)
      /\ Handled(l, p)
  BY DEF Departs, Handled
<1>2. AtHome(l, p)
  BY <1>1 DEF Travels, OutFits, Here, AtHome, Local
<1>3. /\ pc[p] = "sleep" /\ ~Abroad(l, p)
      /\ Local(l, p).rts = CallFlags(call[p].op) /\ Local(l, p).rmtcmd.cmd = Cmd(call[p].op)
      /\ call[p].op \in RemoteCalls
  BY <1>2 DEF Travels, Lone, Way, Bears
<1>4. ~AtPeer(l, p)' /\ ~AtReturn(l, p)' /\ AcksOf(l, p)' = {}
  BY <1>1, <1>3, LettersShrink DEF Abroad, AtPeer, AtReturn, OnReturn, SameImage
<1>5. call[p].op # "notify" => Local(l, p)'.rts # {}
  <2>1. /\ "SENDING" \in Local(l, p).rts
        /\ call[p].op = "sendrec" => "RECEIVING" \in Local(l, p).rts
    BY <1>3 DEF CallFlags
  <2>2. call[p].op \in {"send", "reply"} => Local(l, p).rmtcmd.cmd \notin {"SNDREC_MSG", "NTFY_MSG"}
    BY <1>3 DEF Cmd
  <2>3. Local(l, p)'.rts = Local(l, p).rts \
           ({"RMTOPER"} \cup IF Local(l, p).rmtcmd.cmd \in {"SNDREC_MSG", "NTFY_MSG"}
                             THEN {"SENDING"} ELSE {})
    BY DEF Departs
  <2>4. QED
    BY <1>3, <2>1, <2>2, <2>3 DEF RemoteCalls
<1>6. Told(l, p)' /\ Replied(l, p)'
  BY <1>1, <1>3, <1>4, <1>5 DEF Told, Replied, SameThread
<1>7. QED
  BY <1>4, <1>6 DEF Report, Intact

\* What the peer does with the message.
LEMMA ArrivingReport ==
    ASSUME IInv, AllLawful, Orderly, Journeys, NEW l \in Links, NEW p \in Procs, Home[p] = l[1],
           Chain(l, p), Delivered(l, p) \/ Refused(l, p) \/ Queues(l, p)
    PROVE  Report(l, p)'
<1> DEFINE h == Header(l)
           op == call[p].op
<1>1. Travels(l, p) /\ Arriving(l, p) /\ (h \in Letters(p) \/ h.dst \notin RmtIpcTo[p])
  BY DEF Journeys, Journey, Delivered, Refused, Queues
<1>2. /\ h \in LettersOf(l, p) /\ Bears(p, h) /\ Lawful(h) /\ h.msg \in Messages
      /\ h.msg.cmd = h.cmd /\ (h.cmd = "SNDREC_MSG" <=> op = "sendrec")
      /\ pc[p] = "sleep" /\ op \in {"send", "sendrec", "reply"}
      /\ ~AtPeer(l, p) /\ ~AtReturn(l, p) /\ AcksOf(l, p)' = {}
  BY <1>1, ArrivingLetter DEF OnReturn
<1>3. Local(l, p)'.rts # {} /\ SameThread(p)
  <2>1. Abroad(l, p) /\ SameLocal(l, p) /\ SameThread(p)
    BY <1>1, <1>2 DEF Abroad, OnWay, Arriving
  <2>2. Local(l, p).rts = Awaited(op)
    BY <1>1, <2>1 DEF Travels, Way
  <2>3. QED
    BY <2>1, <2>2 DEF Awaited, SameLocal
<1>4. h.msg.n = call[p].n /\ h.dst = call[p].peer /\ h.dst \in Procs /\ h.cmd = Cmd(op)
      /\ h.cmd \in MsgCmds /\ h.cmd # "NTFY_MSG"
  BY <1>2, PrivAssumption DEF Bears, Lawful, LettersOf, Letters, Mail
<1> HIDE DEF h, op
<1>5. Replied(l, p)'
  BY <1>2, <1>3, UnderWay
<1>6. CASE Delivered(l, p)
  <2>1. ~AtPeer(l, p)'
    BY <1>2, <1>6 DEF Delivered, AtPeer, h
  <2>2. op # "sendrec" => Image(l, p)'.rmtcmd.rcode = "OK" /\ SentOk(p)'
    <3>1. /\ h.cmd # "SNDREC_MSG" => Image(l, p)'.rmtcmd.rcode = "OK"
          /\ taken'[h.dst][p] = Append(taken[h.dst][p], h.msg.n)
      BY <1>6 DEF Delivered, h
    <3>2. taken[h.dst][p] \in Seq(Nat) /\ h.msg.n \in Nat
      BY <1>2, <1>4 DEF IInv, RestTyped, Messages
    <3>3. h.msg.n \in ToSet(taken'[h.dst][p])
      BY <3>1, <3>2, ToSetAppend
    <3>4. SentOk(p)'
      BY <1>3, <1>4, <3>3 DEF SentOk, SameThread
    <3>5. QED
      BY <1>2, <3>1, <3>4
  <2>3. Told(l, p)'
    BY <1>2, <1>3, <2>2, UnderWay DEF op
  <2>4. QED
    BY <1>5, <2>1, <2>3 DEF Report, Intact
<1>7. CASE Refused(l, p)
  <2>1. ~AtPeer(l, p)' /\ Image(l, p)'.rmtcmd.rcode = "error" /\ SameTaken(p)
    BY <1>2, <1>7 DEF Refused, AtPeer
  <2>2. ~SentOk(p)'
    <3>1. h.msg.n \in Flying(p, l) /\ Below(Arrived(p), Flying(p, l)) /\ h.msg.n \in Nat
      BY <1>1, <1>2, <1>4, ArrivingNumber DEF Chain, Chained, h
    <3>2. call[p].n \notin Arrived(p)
      BY <1>4, <3>1 DEF Below
    <3>3. call[p].n \notin ToSet(taken[call[p].peer][p])
      BY <1>4, <3>2 DEF Arrived
    <3>4. QED
      BY <1>3, <1>4, <2>1, <3>3 DEF SentOk, SameThread, SameTaken
  <2>3. Told(l, p)'
    BY <1>2, <1>3, <2>1, <2>2, UnderWay
  <2>4. QED
    BY <1>5, <2>1, <2>3 DEF Report, Intact
<1>8. CASE Queues(l, p)
  <2>1. ~AtReturn(l, p)' /\ Image(l, p)'.message = h.msg /\ ~Waits(desc[l[2]][h.dst], p)
    BY <1>2, <1>8 DEF Queues, AtReturn, h
  <2>2. op # "reply"
    <3> SUFFICES ASSUME op = "reply" PROVE FALSE
      OBVIOUS
    <3>1. h.cmd = "REPLY_MSG"
      BY <1>4 DEF Cmd
    <3>2. ReplyOf(p, h)
      BY <1>2 DEF Journeys, Journey, Replying
    <3>3. Awaits(h.dst, p, h.msg.re)
      BY <3>1, <3>2 DEF ReplyOf
    <3>4. Home[h.dst] = l[2]
      <4>1. Home[h.dst] # l[1]
        BY <1>2, <1>4, PrivAssumption DEF Lawful, LettersOf, Letters, Mail
      <4>2. QED
        BY <1>4, <4>1, LinkFacts, HomeAssumption
    <3>5. Waits(desc[l[2]][h.dst], p)
      BY <3>3, <3>4 DEF Awaits, Mine, Waits
    <3>6. QED
      BY <2>1, <3>5
  <2>3. Intact(l, p)'
    BY <1>2, <1>3, <1>4, <2>1, <2>2 DEF Intact, SameThread, op
  <2>4. Told(l, p)'
    BY <1>2, <1>3, <2>1, UnderWay
  <2>5. QED
    BY <1>5, <2>3, <2>4 DEF Report
<1>9. QED
  BY <1>6, <1>7, <1>8

LEMMA IsTakenReport ==
    ASSUME IInv, NEW l \in Links, NEW p \in Procs, Home[p] = l[1], Travels(l, p), Report(l, p),
           NEW q \in Procs, IsTaken(l, p, q)
    PROVE  Report(l, p)'
<1> DEFINE i == Image(l, p)
           op == call[p].op
<1>1. /\ "SENDING" \in i.rts /\ i.sendto = q /\ SameLocal(l, p) /\ SameThread(p) /\ NoMore(l, p)
      /\ "SENDING" \notin Image(l, p)'.rts
  BY DEF IsTaken
<1>2. AtPeer(l, p) /\ Lone(l, p) /\ Way(l, p) /\ i.message.cmd # "NTFY_MSG"
  BY <1>1 DEF AtPeer, Travels, Report, Intact
<1>3. /\ pc[p] = "sleep" /\ Local(l, p).rts = Awaited(op) /\ q = call[p].peer
      /\ ("RECEIVING" \in i.rts <=> op = "sendrec") /\ i.message.n = call[p].n
      /\ ~OnReturn(l, p)
  BY <1>1, <1>2 DEF Way, Lone, Abroad
<1>4. Local(l, p)'.rts # {}
  BY <1>1, <1>3 DEF SameLocal, Awaited
<1>5. AcksOf(l, p)' = {}
  BY <1>1, <1>3, LettersShrink DEF OnReturn, NoMore
<1>6. op # "sendrec" => Image(l, p)'.rmtcmd.rcode = "OK" /\ SentOk(p)'
  <2>1. /\ op # "sendrec" => Image(l, p)'.rmtcmd.rcode = "OK"
        /\ taken'[q][p] = Append(taken[q][p], i.message.n)
    BY <1>2, <1>3 DEF IsTaken
  <2>2. taken[q][p] \in Seq(Nat) /\ call[p].n \in Nat
    BY MineFacts DEF IInv, RestTyped
  <2>3. call[p].n \in ToSet(taken'[q][p])
    BY <1>3, <2>1, <2>2, ToSetAppend
  <2>4. SentOk(p)'
    BY <1>1, <1>3, <2>3 DEF SentOk, SameThread
  <2>5. QED
    BY <2>1, <2>4
<1> HIDE DEF i, op
<1>7. Told(l, p)'
  BY <1>1, <1>3, <1>4, <1>5, <1>6, UnderWay DEF op
<1>8. Replied(l, p)'
  BY <1>1, <1>3, <1>4, UnderWay
<1>9. Intact(l, p)'
  BY <1>1 DEF Intact, AtPeer
<1>10. QED
  BY <1>7, <1>8, <1>9 DEF Report

LEMMA AckDepartsReport ==
    ASSUME IInv, NEW l \in Links, NEW p \in Procs, Home[p] = l[1], Travels(l, p), Report(l, p),
           AckDeparts(l, p), call[p].op \in {"send", "reply"} => call[p].peer \in Procs
    PROVE  Report(l, p)'
<1> DEFINE i == Image(l, p)
<1>1. /\ Handled(Back(l), p) /\ net'[Back(l)] = Append(net[Back(l)], i.rmtcmd)
      /\ Image(l, p)'.rts = i.rts \ {"RMTOPER", "SENDING"}
      /\ SameLocal(l, p) /\ SameThread(p) /\ got'[p] = got[p] /\ SameTaken(p)
  BY DEF AckDeparts, Handled
<1>2. AtReturn(l, p)
  BY <1>1, EndFacts DEF Travels, Stands, OutFits, Here, AtReturn, Image
<1>3. pc[p] = "sleep" /\ Local(l, p).rts = Awaited(call[p].op)
  BY <1>2 DEF Travels, Way, Abroad
<1>4. Local(l, p)'.rts # {}
  BY <1>1, <1>3 DEF SameLocal, Awaited
<1>5. \A c \in AcksOf(l, p)' : c \in AcksOf(l, p) \/ c = i.rmtcmd
  <2>1. Back(l) \in Links /\ net[Back(l)] \in Seq(Commands) /\ i.rmtcmd \in Commands
    BY EndFacts, NetTyped DEF Image, Descriptors
  <2>2. ToSet(net'[Back(l)]) = ToSet(net[Back(l)]) \cup {i.rmtcmd}
    BY <1>1, <2>1, ToSetAppend
  <2>3. QED
    BY <2>2 DEF AcksOf
<1>6. call[p].op \in {"send", "reply"} => (SentOk(p)' <=> SentOk(p))
  BY <1>1 DEF SentOk, SameThread, SameTaken
<1>7. ~AtReturn(l, p)' /\ ~AtPeer(l, p)'
  BY <1>1 DEF AtReturn, AtPeer
<1>8. Told(l, p)'
  <2>1. call[p].op \in {"send", "reply"} => \A c \in AcksOf(l, p)' : c.rcode = "OK" <=> SentOk(p)'
    BY <1>2, <1>5, <1>6 DEF Report, Told
  <2>2. QED
    BY <1>1, <1>3, <1>4, <1>7, <2>1, UnderWay
<1>9. Replied(l, p)'
  BY <1>1, <1>3, <1>4, UnderWay
<1>10. QED
  BY <1>7, <1>8, <1>9 DEF Report, Intact

LEMMA IsCalledReport ==
    ASSUME Orderly, NoticesHarmless, NEW l \in Links, NEW p \in Procs, Travels(l, p), Report(l, p),
           NEW q \in Procs, NEW op \in RemoteCalls, IsCalled(l, p, q, op),
           call[p].op \in {"send", "reply"} => call[p].peer \in Procs
    PROVE  Report(l, p)'
<1>1. /\ SameLocal(l, p) /\ SameThread(p) /\ got'[p] = got[p] /\ SameTaken(p) /\ NoMore(l, p)
      /\ Image(l, p)'.rts = Image(l, p).rts \ {"RECEIVING"}
      /\ Image(l, p)'.rmtcmd = Image(l, p).rmtcmd
      /\ p \in IpcTo[q] /\ op \in DvkAllowed[q]
      /\ op # "notify" => Image(l, p)'.message = Image(l, p).message
  BY DEF IsCalled
<1>2. /\ AtPeer(l, p)' <=> AtPeer(l, p)
      /\ AtReturn(l, p)' <=> AtReturn(l, p)
      /\ AcksOf(l, p)' \subseteq AcksOf(l, p)
  BY <1>1, LettersShrink DEF AtPeer, AtReturn, NoMore
<1>3. call[p].op \in {"send", "reply"} => (SentOk(p)' <=> SentOk(p))
  BY <1>1 DEF SentOk, SameThread, SameTaken
<1>4. Told(l, p)'
  BY <1>1, <1>2, <1>3 DEF Report, Told, SameLocal, SameThread
<1>5. Replied(l, p)'
  BY <1>1 DEF Report, Replied, ReplyGot, SameLocal, SameThread
<1>6. Intact(l, p)'
  <2>1. CASE op # "notify"
    BY <1>1, <1>2, <2>1 DEF Report, Intact, SameThread
  <2>2. CASE op = "notify"
    <3>1. "send" \notin DvkAllowed[p] /\ "sendrec" \notin DvkAllowed[p]
      BY <1>1, <2>2 DEF NoticesHarmless, Orderly
    <3>2. ~AtPeer(l, p)
      BY <3>1 DEF Travels, Way, Abroad, RemoteCalls, Report, Intact
    <3>3. QED
      BY <1>2, <3>2 DEF Intact
  <2>3. QED
    BY <2>1, <2>2
<1>7. QED
  BY <1>4, <1>5, <1>6 DEF Report

LEMMA ReportStep ==
    ASSUME IInv, AllLawful, Chains, Orderly, NoticesHarmless, Journeys, Reports, [Next]_vars,
           NEW l \in Links, NEW p \in Procs, Home[p] = l[1]
    PROVE  Report(l, p)'
<1>1. Shaped(l, p) /\ Travels(l, p) /\ Chain(l, p) /\ Report(l, p)
  BY EveryStepShaped DEF Journeys, Journey, Chains, Reports
<1>2. call[p].op \in {"send", "reply"} => call[p].peer \in Procs
  BY <1>1, PrivAssumption DEF Travels, Way, RemoteCalls
<1>3. ~GivesUp(l, p) /\ ~IsReadied(l, p) /\ ~IsCleared(l, p)
  <2>1. OutFits(l, p) /\ OutFits(Back(l), p)
    BY <1>1 DEF Travels, Stands
  <2>2. QED
    BY <2>1, EndFacts DEF GivesUp, IsReadied, IsCleared, OutFits, Handled, Here, Local, Image, Orderly
<1>4. QED
  BY <1>1, <1>2, <1>3, QuietReport, FreshReport, FinishesReport, HearsReport, IsToldReport,
     DepartsReport, ArrivingReport, IsTakenReport, AckDepartsReport, IsCalledReport DEF Shaped

\* In an orderly system a send or a reply to a process of another node returns
\* OK exactly when its message was taken there, and a sendrec that returns OK
\* has the reply to its own request, unless notifications go to who sends.
THEOREM CallsToldTrue ==
    ASSUME Orderly, NoticesHarmless
    PROVE  Spec => []CallsReport
<1>1. Init => Reports
  <2> SUFFICES ASSUME Init, NEW l \in Links, NEW p \in Procs, Home[p] = l[1]
               PROVE  Report(l, p)
    BY DEF Reports
  <2>1. call[p].op = "none" /\ Image(l, p) = Clean
    BY LinkFacts DEF Init, Image
  <2>2. QED
    BY <2>1 DEF Report, Told, Intact, Replied, AtPeer, Clean
<1>2. IInv /\ AllLawful /\ Chains /\ Journeys /\ Reports /\ [Next]_vars => Reports'
  BY ReportStep DEF Reports
<1>3. Reports => CallsReport
  <2> SUFFICES ASSUME Reports, NEW p \in Procs, pc[p] = "user"
               PROVE  /\ call[p].op \in {"send", "reply"} =>
                            (ret[p] = "OK" <=> call[p].n \in ToSet(taken[call[p].peer][p]))
                      /\ call[p].op = "sendrec" /\ ret[p] = "OK" => ReplyGot(p)
    BY DEF CallsReport, SendReports, SendrecReports, ReplyGot
  <2>1. PICK l \in Links : Home[p] = l[1]
    BY LinkOf
  <2>2. Told(l, p) /\ Replied(l, p)
    BY <2>1 DEF Reports, Report
  <2>3. QED
    BY <2>2 DEF Told, Replied, SentOk
<1>4. Spec => [](IInv /\ AllLawful /\ Chains /\ Journeys)
  BY JourneysInvariance
<1>5. QED
  BY <1>1, <1>2, <1>3, <1>4, PTL DEF Spec
=============================================================================
