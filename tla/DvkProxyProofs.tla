--------------------------- MODULE DvkProxyProofs ---------------------------
(* Proofs about DvkProxy, for any processes on two nodes, any privileges and *)
(* any timeouts.                                                             *)
EXTENDS DvkProxy, SequenceTheorems, TLAPS

\* The flags a process may have while it waits in a call op.
Waiting(op) == IF op = "receive" THEN {"RECEIVING"} ELSE CallFlags(op)

\* What holds of a LOCAL descriptor d whose thread is at l in a call op.
Fits(d, l, op) ==
    /\ l = "user" => d.rts = {}
    /\ l # "user" => /\ op # "none"
                     /\ d.rts \subseteq Waiting(op)
                     /\ d.sem >= 0 => d.rts = {}

\* A command on node n goes from a process of that node to one of another.
CmdFits(c, n) ==
    c.cmd # "NONE" => /\ c.src \in Procs /\ Home[c.src] = n
                      /\ c.dst \in Procs /\ Home[c.dst] # n
                      /\ c.cmd \in MsgCmds => c.msg \in Messages

Sound(d, n) == d \in Descriptors /\ d.sem >= -1 /\ CmdFits(d.rmtcmd, n)

\* The inductive invariant in three parts: the descriptors and the threads, the
\* queues, the types of the rest.
DescsFit ==
    /\ desc \in [Nodes -> [Procs -> Descriptors]]
    /\ \A n \in Nodes, q \in Procs : Sound(desc[n][q], n)
    /\ pc \in [Procs -> {"user", "sleep", "expired"}]
    /\ call \in [Procs -> [op : Calls \cup {"none"}, peer : Procs \cup {ANY, NONE}, n : Nat]]
    /\ \A q \in Procs : Fits(Mine(q), pc[q], call[q].op)

Images(n) == {x \in Procs : Home[x] # n}
Carriers(n) == {x \in Images(n) : desc[n][x].message \in Messages}
Headers(l) == {c \in Commands : c.cmd # "NONE" /\ CmdFits(c, l[1])}
InqFit ==
    /\ inq \in [Procs -> Seq(Procs)]
    /\ \A q \in Procs : inq[q] \in Seq(Carriers(Home[q]))
OutqFit == outq \in [Links -> Seq(Procs)]
SproxyFit ==
    /\ sproxy \in [Links -> [at : {"look", "sleep", "window", "taken"},
                             xpp : Procs \cup {NONE}]]
    /\ \A l \in Links : sproxy[l].at \in {"window", "taken"} => sproxy[l].xpp \in Procs
NetFit ==
    /\ net \in [Links -> Seq(Commands)]
    /\ \A l \in Links : net[l] \in Seq(Headers(l))
QueuesFit == InqFit /\ OutqFit /\ SproxyFit /\ NetFit

RestTyped ==
    /\ ret \in [Procs -> {"OK", "error"}]
    /\ got \in [Procs -> Messages \cup {NONE}]
    /\ owed \in [Procs -> [Procs -> Nat]]
    /\ taken \in [Procs -> [Procs -> Seq(Nat)]]

IInv == DescsFit /\ QueuesFit /\ RestTyped

-----------------------------------------------------------------------------
(* The network and the lists *)

\* There are two nodes: the ends of a link are all of them.
LEMMA LinkFacts ==
    ASSUME NEW l \in Links
    PROVE  /\ l[1] \in Nodes /\ l[2] \in Nodes /\ l[1] # l[2]
           /\ Back(l) \in Links
           /\ \A n \in Nodes : n = l[1] \/ n = l[2]
BY NodesAssumption DEF Links, Back

\* LIST_DEL_INIT leaves a list of what was in it.
LEMMA WithoutFacts ==
    ASSUME NEW S, NEW s \in Seq(S), NEW p
    PROVE  Without(s, p) \in Seq(S)
<1>1. CASE p \notin ToSet(s)
  BY <1>1 DEF Without
<1>2. CASE p \in ToSet(s)
  <2> DEFINE i == CHOOSE i \in DOMAIN s : s[i] = p
  <2>1. i \in DOMAIN s
    BY <1>2 DEF ToSet
  <2>2. i \in 1 .. Len(s)
    BY <2>1
  <2>3. Without(s, p) = RemoveAt(s, i)
    BY <1>2 DEF Without
  <2> HIDE DEF i
  <2>4. SubSeq(s, 1, i - 1) \in Seq(S) /\ SubSeq(s, i + 1, Len(s)) \in Seq(S)
    BY <2>2
  <2>5. QED
    BY <2>3, <2>4 DEF RemoveAt
<1>3. QED
  BY <1>1, <1>2

LEMMA SeqMonotone ==
    ASSUME NEW S, NEW T, S \subseteq T, NEW s \in Seq(S)
    PROVE  s \in Seq(T)
OBVIOUS

-----------------------------------------------------------------------------
(* What the operations do to a descriptor *)

\* d becomes e in the hands of another actor: no flag is set, and the semaphore
\* goes up only when none is left.
Calm(d, e) == e.rts \subseteq d.rts /\ (e.rts = {} \/ e.sem = d.sem)
Carries(d, e) == d.message \in Messages => e.message \in Messages

\* What fits the state of its thread still fits after a calm change.
LEMMA CalmFits ==
    ASSUME NEW d, NEW e, NEW l, NEW op, Calm(d, e), Fits(d, l, op)
    PROVE  Fits(e, l, op)
BY DEF Calm, Fits

LEMMA CalmCalm ==
    ASSUME NEW d, NEW e, NEW f, Calm(d, e), Calm(e, f)
    PROVE  Calm(d, f)
BY DEF Calm

LEMMA EndSendFacts ==
    ASSUME NEW n, NEW d, Sound(d, n)
    PROVE  /\ Sound(EndSend(d), n) /\ Calm(d, EndSend(d))
           /\ EndSend(d).message = d.message /\ EndSend(d).rmtcmd = d.rmtcmd
BY DEF EndSend, Sound, Calm, Descriptors

LEMMA EndReceiveFacts ==
    ASSUME NEW n, NEW d, Sound(d, n)
    PROVE  /\ Sound(EndReceive(d), n) /\ Calm(d, EndReceive(d))
           /\ EndReceive(d).message = d.message
BY DEF EndReceive, Sound, Calm, Descriptors

LEMMA WakeFacts ==
    ASSUME NEW n, NEW d, Sound(d, n), NEW rc \in {"OK", "error"}
    PROVE  Sound(Wake(d, rc), n) /\ Calm(d, Wake(d, rc)) /\ Wake(d, rc).message = d.message
<1> DEFINE up == d.sem + 1
<1>1. d \in Descriptors /\ up \in Int /\ up >= -1
  BY DEF Sound, Descriptors
<1>2. CASE d.rts = {}
  <2>1. Wake(d, rc) = [d EXCEPT !.rcode = rc, !.sem = up]
    BY <1>2 DEF Wake
  <2> HIDE DEF up
  <2>2. QED
    BY <1>1, <1>2, <2>1 DEF Sound, Calm, Descriptors
<1>3. CASE d.rts # {}
  BY <1>3 DEF Wake, Calm
<1>4. QED
  BY <1>2, <1>3

LEMMA ReadyUpFacts ==
    ASSUME NEW n, NEW d, Sound(d, n), NEW rc \in {"OK", "error"}
    PROVE  /\ Sound(ReadyUp(d, rc), n) /\ Calm(d, ReadyUp(d, rc))
           /\ ReadyUp(d, rc).message = d.message
<1> DEFINE up == d.sem + 1
<1>1. d \in Descriptors /\ up \in Int /\ up >= -1
  BY DEF Sound, Descriptors
<1>2. ReadyUp(d, rc) = [d EXCEPT !.rts = {}, !.rcode = rc, !.sem = up]
  BY DEF ReadyUp
<1> HIDE DEF up
<1>3. QED
  BY <1>1, <1>2 DEF Sound, Calm, Descriptors

LEMMA DownFacts ==
    ASSUME NEW n, NEW d, Sound(d, n)
    PROVE  /\ Sound(Down(d), n) /\ Down(d).rts = d.rts /\ Down(d).sem = -1
           /\ Down(d).message = d.message
<1>1. d \in Descriptors
  BY DEF Sound
<1>2. /\ Down(d).rts = d.rts /\ Down(d).sem = -1 /\ Down(d).message = d.message
      /\ Down(d).rmtcmd = d.rmtcmd
  BY <1>1 DEF Down, Descriptors
<1>3. Down(d) \in Descriptors
  <2> DEFINE down == -1
  <2>1. down \in Int /\ Down(d) = [d EXCEPT !.sem = down, !.rcode = "OK"]
    BY DEF Down
  <2> HIDE DEF down
  <2>2. QED
    BY <1>1, <2>1 DEF Descriptors
<1>4. QED
  BY <1>2, <1>3 DEF Sound

LEMMA UpFacts ==
    ASSUME NEW n, NEW d, Sound(d, n)
    PROVE  Sound(Up(d), n) /\ Up(d).rts = d.rts /\ Up(d).message = d.message
BY DEF Up, Sound, Descriptors

LEMMA SentFacts ==
    ASSUME NEW n, NEW d, Sound(d, n), NEW image \in BOOLEAN
    PROVE  Sound(Sent(d, image), n) /\ Calm(d, Sent(d, image)) /\ Sent(d, image).message = d.message
<1> DEFINE e == [d EXCEPT !.rts = @ \ {"RMTOPER"}, !.rmtcmd.cmd = "NONE"]
<1>1. Sound(e, n) /\ Calm(d, e) /\ e.message = d.message
  BY DEF Sound, Calm, Descriptors, Commands, CmdFits
<1>2. /\ Sound(EndSend(e), n) /\ Calm(e, EndSend(e)) /\ EndSend(e).message = e.message
  BY <1>1, EndSendFacts
<1>3. /\ Sound(Wake(EndSend(e), "OK"), n) /\ Calm(EndSend(e), Wake(EndSend(e), "OK"))
      /\ Wake(EndSend(e), "OK").message = e.message
  BY <1>2, WakeFacts
<1>4. Calm(d, EndSend(e)) /\ Calm(d, Wake(EndSend(e), "OK"))
  BY <1>1, <1>2, <1>3, CalmCalm
<1>5. Sent(d, image) \in {e, EndSend(e), Wake(EndSend(e), "OK")}
  BY DEF Sent
<1> HIDE DEF e
<1>6. QED
  BY <1>1, <1>2, <1>3, <1>4, <1>5

\* An acknowledgement goes from a process of the node to one of another.
LEMMA AcknowledgingFacts ==
    ASSUME NEW n \in Nodes, NEW d, Sound(d, n), NEW q \in Procs, Home[q] = n,
           NEW r \in Images(n), NEW rc \in {"OK", "error"}
    PROVE  /\ Sound(Acknowledging(d, q, r, rc), n)
           /\ Acknowledging(d, q, r, rc).message = d.message
<1> DEFINE c == [cmd |-> "SEND_ACK", src |-> q, dst |-> r, rcode |-> rc, msg |-> NONE]
<1>1. c \in Commands /\ CmdFits(c, n)
  BY DEF Commands, CmdFits, Images, MsgCmds
<1>2. d \in Descriptors
  BY DEF Sound
<1> DEFINE flags == d.rts \cup {"RMTOPER"}
<1>3. /\ Acknowledging(d, q, r, rc) = [d EXCEPT !.rts = flags, !.rmtcmd = c]
      /\ flags \in SUBSET {"SENDING", "RECEIVING", "RMTOPER"}
  BY <1>2 DEF Acknowledging, Descriptors
<1> HIDE DEF c, flags
<1> DEFINE e == Acknowledging(d, q, r, rc)
<1>4. e \in Descriptors
  BY <1>1, <1>2, <1>3 DEF Descriptors
<1>5. e.rmtcmd = c /\ e.sem = d.sem /\ e.message = d.message
  BY <1>2, <1>3 DEF Descriptors
<1> HIDE DEF e
<1>6. Sound(e, n) /\ e.message = d.message
  BY <1>1, <1>4, <1>5 DEF Sound
<1>7. QED
  BY <1>6 DEF e

LEMMA PeerImageFacts ==
    ASSUME NEW n, NEW d, Sound(d, n), NEW op, NEW p, NEW m \in Messages
    PROVE  Sound(PeerImage(d, op, p, m), n) /\ Carries(d, PeerImage(d, op, p, m))
BY DEF PeerImage, Sound, Descriptors, Carries

-----------------------------------------------------------------------------
(* A step that changes one descriptor of a node, or two *)

Carried == \A n \in Nodes, q \in Procs : Carries(desc[n][q], desc'[n][q])

Change(n, x, A) == desc' = [desc EXCEPT ![n][x] = A]
ChangeTwo(n, x, A, y, B) == desc' = [desc EXCEPT ![n][x] = A, ![n][y] = B]

\* The other descriptors stay, and all of them stay sound.
LEMMA OneChange ==
    ASSUME DescsFit, NEW n \in Nodes, NEW x \in Procs, NEW A, Sound(A, n),
           Carries(desc[n][x], A), Change(n, x, A)
    PROVE  /\ desc' \in [Nodes -> [Procs -> Descriptors]]
           /\ \A m \in Nodes, q \in Procs : Sound(desc'[m][q], m)
           /\ Carried
           /\ desc'[n][x] = A
           /\ \A m \in Nodes, q \in Procs : m # n \/ q # x => desc'[m][q] = desc[m][q]
<1>1. desc \in [Nodes -> [Procs -> Descriptors]] /\ A \in Descriptors
  BY DEF DescsFit, Sound
<1>2. desc' \in [Nodes -> [Procs -> Descriptors]] /\ desc'[n][x] = A
  BY <1>1 DEF Change
<1>3. \A m \in Nodes, q \in Procs : m # n \/ q # x => desc'[m][q] = desc[m][q]
  BY <1>1 DEF Change
<1>4. ASSUME NEW m \in Nodes, NEW q \in Procs
      PROVE  Sound(desc'[m][q], m) /\ Carries(desc[m][q], desc'[m][q])
  <2>1. CASE m = n /\ q = x
    BY <1>2, <2>1
  <2>2. CASE m # n \/ q # x
    BY <1>3, <2>2 DEF DescsFit, Carries
  <2>3. QED
    BY <2>1, <2>2
<1>5. QED
  BY <1>2, <1>3, <1>4 DEF Carried

LEMMA TwoChange ==
    ASSUME DescsFit, NEW n \in Nodes, NEW x \in Procs, NEW y \in Procs, x # y,
           NEW A, NEW B, Sound(A, n), Sound(B, n),
           Carries(desc[n][x], A), Carries(desc[n][y], B),
           ChangeTwo(n, x, A, y, B)
    PROVE  /\ desc' \in [Nodes -> [Procs -> Descriptors]]
           /\ \A m \in Nodes, q \in Procs : Sound(desc'[m][q], m)
           /\ Carried
           /\ desc'[n][x] = A /\ desc'[n][y] = B
           /\ \A m \in Nodes, q \in Procs :
                 m # n \/ (q # x /\ q # y) => desc'[m][q] = desc[m][q]
<1>1. desc \in [Nodes -> [Procs -> Descriptors]] /\ A \in Descriptors /\ B \in Descriptors
  BY DEF DescsFit, Sound
<1>2. desc' \in [Nodes -> [Procs -> Descriptors]] /\ desc'[n][x] = A /\ desc'[n][y] = B
  BY <1>1 DEF ChangeTwo
<1>3. \A m \in Nodes, q \in Procs :
        m # n \/ (q # x /\ q # y) => desc'[m][q] = desc[m][q]
  BY <1>1 DEF ChangeTwo
<1>4. ASSUME NEW m \in Nodes, NEW q \in Procs
      PROVE  Sound(desc'[m][q], m) /\ Carries(desc[m][q], desc'[m][q])
  <2>1. CASE m = n /\ q = x
    BY <1>2, <2>1
  <2>2. CASE m = n /\ q = y
    BY <1>2, <2>2
  <2>3. CASE m # n \/ (q # x /\ q # y)
    BY <1>3, <2>3 DEF DescsFit, Carries
  <2>4. QED
    BY <2>1, <2>2, <2>3
<1>5. QED
  BY <1>2, <1>3, <1>4 DEF Carried

\* By an actor other than the threads: LOCAL descriptors change calmly.
LEMMA QuietOne ==
    ASSUME DescsFit, NEW n \in Nodes, NEW x \in Procs, NEW A, Sound(A, n),
           Carries(desc[n][x], A), Home[x] = n => Calm(desc[n][x], A),
           Change(n, x, A), UNCHANGED <<pc, call>>
    PROVE  DescsFit' /\ Carried
<1>1. /\ desc' \in [Nodes -> [Procs -> Descriptors]]
      /\ \A m \in Nodes, q \in Procs : Sound(desc'[m][q], m)
      /\ Carried
      /\ desc'[n][x] = A
      /\ \A m \in Nodes, q \in Procs : m # n \/ q # x => desc'[m][q] = desc[m][q]
  BY OneChange
<1>2. ASSUME NEW q \in Procs PROVE Fits(desc'[Home[q]][q], pc'[q], call'[q].op)
  <2>1. Fits(desc[Home[q]][q], pc[q], call[q].op) /\ Home[q] \in Nodes
    BY HomeAssumption DEF DescsFit, Mine
  <2>2. CASE Home[q] = n /\ q = x
    BY <1>1, <2>1, <2>2, CalmFits
  <2>3. CASE Home[q] # n \/ q # x
    BY <1>1, <2>1, <2>3
  <2>4. QED
    BY <2>2, <2>3
<1>3. QED
  BY <1>1, <1>2 DEF DescsFit, Mine

LEMMA QuietTwo ==
    ASSUME DescsFit, NEW n \in Nodes, NEW x \in Procs, NEW y \in Procs, x # y,
           NEW A, NEW B, Sound(A, n), Sound(B, n),
           Carries(desc[n][x], A), Carries(desc[n][y], B),
           Home[x] # n, Calm(desc[n][y], B),
           ChangeTwo(n, x, A, y, B), UNCHANGED <<pc, call>>
    PROVE  DescsFit' /\ Carried
<1>1. /\ desc' \in [Nodes -> [Procs -> Descriptors]]
      /\ \A m \in Nodes, q \in Procs : Sound(desc'[m][q], m)
      /\ Carried
      /\ desc'[n][y] = B
      /\ \A m \in Nodes, q \in Procs :
            m # n \/ (q # x /\ q # y) => desc'[m][q] = desc[m][q]
  BY TwoChange
<1>2. ASSUME NEW q \in Procs PROVE Fits(desc'[Home[q]][q], pc'[q], call'[q].op)
  <2>1. Fits(desc[Home[q]][q], pc[q], call[q].op) /\ Home[q] \in Nodes
    BY HomeAssumption DEF DescsFit, Mine
  <2>2. CASE Home[q] = n /\ q = y
    BY <1>1, <2>1, <2>2, CalmFits
  <2>3. CASE Home[q] # n \/ q # y
    BY <1>1, <2>1, <2>3
  <2>4. QED
    BY <2>2, <2>3
<1>3. QED
  BY <1>1, <1>2 DEF DescsFit, Mine

\* By the thread of p, at its home.
LEMMA OwnOne ==
    ASSUME DescsFit, NEW p \in Procs, NEW A, Sound(A, Home[p]), Carries(Mine(p), A),
           Change(Home[p], p, A),
           NEW l \in {"user", "sleep", "expired"}, pc' = [pc EXCEPT ![p] = l],
           call' \in [Procs -> [op : Calls \cup {"none"},
                               peer : Procs \cup {ANY, NONE}, n : Nat]],
           \A q \in Procs : q # p => call'[q] = call[q],
           Fits(A, l, call'[p].op)
    PROVE  DescsFit' /\ Carried
<1>1. Home[p] \in Nodes
  BY HomeAssumption
<1>2. /\ desc' \in [Nodes -> [Procs -> Descriptors]]
      /\ \A m \in Nodes, q \in Procs : Sound(desc'[m][q], m)
      /\ Carried
      /\ desc'[Home[p]][p] = A
      /\ \A m \in Nodes, q \in Procs : m # Home[p] \/ q # p => desc'[m][q] = desc[m][q]
  BY <1>1, OneChange DEF Mine
<1>3. /\ pc' \in [Procs -> {"user", "sleep", "expired"}] /\ pc'[p] = l
      /\ \A q \in Procs : q # p => pc'[q] = pc[q]
  BY DEF DescsFit
<1>4. ASSUME NEW q \in Procs PROVE Fits(desc'[Home[q]][q], pc'[q], call'[q].op)
  <2>1. Fits(desc[Home[q]][q], pc[q], call[q].op) /\ Home[q] \in Nodes
    BY HomeAssumption DEF DescsFit, Mine
  <2>2. CASE q = p
    BY <1>2, <1>3, <2>2
  <2>3. CASE q # p
    BY <1>2, <1>3, <2>1, <2>3
  <2>4. QED
    BY <2>2, <2>3
<1>5. QED
  BY <1>2, <1>3, <1>4 DEF DescsFit, Mine

LEMMA OwnTwo ==
    ASSUME DescsFit, NEW p \in Procs, NEW y \in Procs, Home[y] # Home[p],
           NEW A, NEW B, Sound(A, Home[p]), Sound(B, Home[p]),
           Carries(Mine(p), A), Carries(desc[Home[p]][y], B),
           ChangeTwo(Home[p], p, A, y, B),
           NEW l \in {"user", "sleep", "expired"}, pc' = [pc EXCEPT ![p] = l],
           call' \in [Procs -> [op : Calls \cup {"none"},
                               peer : Procs \cup {ANY, NONE}, n : Nat]],
           \A q \in Procs : q # p => call'[q] = call[q],
           Fits(A, l, call'[p].op)
    PROVE  DescsFit' /\ Carried
<1>1. Home[p] \in Nodes /\ p # y
  BY HomeAssumption
<1>2. /\ desc' \in [Nodes -> [Procs -> Descriptors]]
      /\ \A m \in Nodes, q \in Procs : Sound(desc'[m][q], m)
      /\ Carried
      /\ desc'[Home[p]][p] = A
      /\ \A m \in Nodes, q \in Procs :
            m # Home[p] \/ (q # p /\ q # y) => desc'[m][q] = desc[m][q]
  BY <1>1, TwoChange DEF Mine
<1>3. /\ pc' \in [Procs -> {"user", "sleep", "expired"}] /\ pc'[p] = l
      /\ \A q \in Procs : q # p => pc'[q] = pc[q]
  BY DEF DescsFit
<1>4. ASSUME NEW q \in Procs PROVE Fits(desc'[Home[q]][q], pc'[q], call'[q].op)
  <2>1. Fits(desc[Home[q]][q], pc[q], call[q].op) /\ Home[q] \in Nodes
    BY HomeAssumption DEF DescsFit, Mine
  <2>2. CASE q = p
    BY <1>2, <1>3, <2>2
  <2>3. CASE q # p
    BY <1>2, <1>3, <2>1, <2>3
  <2>4. QED
    BY <2>2, <2>3
<1>5. QED
  BY <1>2, <1>3, <1>4 DEF DescsFit, Mine

LEMMA QuietNone ==
    ASSUME DescsFit, UNCHANGED <<desc, pc, call>>
    PROVE  DescsFit' /\ Carried
BY DEF DescsFit, Carried, Carries, Mine

\* A step in which p leaves its own descriptor alone.
LEMMA OwnNone ==
    ASSUME DescsFit, NEW p \in Procs, UNCHANGED desc
    PROVE  Change(Home[p], p, Mine(p))
<1>1. [desc EXCEPT ![Home[p]][p] = Mine(p)] = desc
  BY HomeAssumption DEF DescsFit, Mine
<1>2. QED
  BY <1>1 DEF Change

LEMMA OwnKept ==
    ASSUME DescsFit, NEW p \in Procs, NEW x \in Procs, NEW B, Change(Home[p], x, B)
    PROVE  ChangeTwo(Home[p], p, Mine(p), x, B)
<1>1. [desc EXCEPT ![Home[p]][p] = Mine(p)] = desc
  BY HomeAssumption DEF DescsFit, Mine
<1>2. QED
  BY <1>1 DEF Change, ChangeTwo

-----------------------------------------------------------------------------
(* The actions of the threads and the descriptors *)

LEMMA MineFacts ==
    ASSUME DescsFit, NEW p \in Procs
    PROVE  /\ Home[p] \in Nodes /\ Sound(Mine(p), Home[p]) /\ Mine(p) \in Descriptors
           /\ Fits(Mine(p), pc[p], call[p].op)
           /\ call[p].n \in Nat
BY HomeAssumption DEF DescsFit, Mine, Sound

LEMMA MineTyped ==
    ASSUME DescsFit, NEW p \in Procs
    PROVE  /\ Mine(p).getfrom \in Procs \cup {ANY, NONE}
           /\ Mine(p).pending \in SUBSET Procs
<1>1. Mine(p) \in Descriptors
  BY MineFacts
<1>2. QED
  BY <1>1 DEF Descriptors

LEMMA RemoteFits ==
    ASSUME DescsFit, NEW p \in Procs, NEW d \in Procs,
           NEW op \in {"send", "sendrec", "notify", "reply"},
           NEW cmd \in MsgCmds, NEW re \in Nat, Remote(p, op, d, cmd, re)
    PROVE  DescsFit' /\ Carried
<1> DEFINE here == Home[p]
           m == [cmd |-> cmd, src |-> p, n |-> call[p].n + 1, re |-> re]
           c == [cmd |-> cmd, src |-> p, dst |-> d, rcode |-> "OK", msg |-> m]
           g == IF op = "sendrec" THEN d ELSE Mine(p).getfrom
           e == [Mine(p) EXCEPT !.rts = CallFlags(op), !.sendto = d,
                                !.getfrom = g, !.rmtcmd = c]
           A == Down(e)
           B == PeerImage(desc[here][d], op, p, m)
<1>1. here \in Nodes /\ Home[d] # here /\ p # d
  BY HomeAssumption, PrivAssumption DEF Remote
<1>2. m \in Messages
  BY MineFacts DEF Messages
<1>3. c \in Commands /\ CmdFits(c, here)
  BY <1>1, <1>2 DEF Commands, CmdFits
<1>4. ChangeTwo(here, p, A, d, B)
  BY DEF Remote, ChangeTwo
<1>5. Sound(e, here) /\ e.rts = CallFlags(op) /\ e.message = Mine(p).message
  <2>1. g \in Procs \cup {ANY, NONE}
    BY MineTyped
  <2>2. CallFlags(op) \in SUBSET {"SENDING", "RECEIVING", "RMTOPER"}
    BY DEF CallFlags
  <2> HIDE DEF g, c
  <2>3. Mine(p) \in Descriptors /\ Sound(Mine(p), here)
    BY MineFacts
  <2>4. e \in Descriptors
    BY <1>3, <2>1, <2>2, <2>3 DEF Descriptors
  <2>5. /\ e.rts = CallFlags(op) /\ e.message = Mine(p).message /\ e.sem = Mine(p).sem
        /\ e.rmtcmd = c
    BY <2>3 DEF Descriptors
  <2> HIDE DEF e
  <2>6. QED
    BY <1>3, <2>3, <2>4, <2>5 DEF Sound
<1> HIDE DEF e, g, c
<1>6. /\ Sound(A, here) /\ A.message = Mine(p).message
      /\ A.rts = CallFlags(op) /\ A.sem = -1
  BY <1>5, DownFacts
<1>7. Sound(B, here) /\ Carries(desc[here][d], B)
  <2>1. Sound(desc[here][d], here)
    BY <1>1 DEF DescsFit
  <2>2. QED
    BY <1>2, <2>1, PeerImageFacts
<1>8. Carries(Mine(p), A)
  BY <1>6 DEF Carries
<1>9. /\ pc' = [pc EXCEPT ![p] = "sleep"]
      /\ call' = [call EXCEPT ![p] = [op |-> op, peer |-> d, n |-> call[p].n + 1]]
  BY DEF Remote
<1>10. /\ call' \in [Procs -> [op : Calls \cup {"none"},
                               peer : Procs \cup {ANY, NONE}, n : Nat]]
       /\ \A q \in Procs : q # p => call'[q] = call[q]
       /\ call'[p].op = op
  <2>1. call[p].n + 1 \in Nat
    BY MineFacts
  <2>2. [op |-> op, peer |-> d, n |-> call[p].n + 1]
            \in [op : Calls \cup {"none"}, peer : Procs \cup {ANY, NONE}, n : Nat]
    BY <2>1 DEF Calls
  <2>3. QED
    BY <1>9, <2>2 DEF DescsFit
<1>11. Fits(A, "sleep", op)
  BY <1>6 DEF Fits, Waiting
<1> HIDE DEF A, B, here, m
<1>12. ChangeTwo(Home[p], p, A, d, B) /\ Home[d] # Home[p]
  BY <1>1, <1>4 DEF here
<1>13. /\ Sound(A, Home[p]) /\ Sound(B, Home[p])
       /\ Carries(Mine(p), A) /\ Carries(desc[Home[p]][d], B)
  BY <1>6, <1>7, <1>8 DEF here
<1>14. QED
  BY <1>9, <1>10, <1>11, <1>12, <1>13, OwnTwo

\* A thread that is neither late nor told of an error was woken: no flag is left.
LEMMA FailsFits ==
    ASSUME DescsFit, NEW p \in Procs, Leaves(p), ~Fails(p)
    PROVE  Mine(p).rts = {}
<1>1. pc[p] = "sleep" /\ Mine(p).sem >= 0
  BY DEF Leaves, Fails
<1>2. QED
  BY <1>1, MineFacts DEF Fits

LEMMA CallDoneFits ==
    ASSUME DescsFit, NEW p \in Procs, CallDone(p)
    PROVE  DescsFit' /\ Carried
<1>1. /\ pc' = [pc EXCEPT ![p] = "user"] /\ UNCHANGED call
      /\ pc[p] # "user" /\ call[p].op # "receive"
  BY DEF CallDone, Returns, Leaves
<1>2. CASE Fails(p)
  <2> DEFINE g == IF call[p].op = "sendrec" THEN NONE ELSE Mine(p).getfrom
             e == [Mine(p) EXCEPT !.rts = @ \ CallFlags(call[p].op), !.sendto = NONE,
                                  !.rcode = "error", !.getfrom = g]
  <2>1. Change(Home[p], p, Up(e))
    <3>1. desc' = [desc EXCEPT ![Home[p]][p] = Up([Mine(p) EXCEPT
                      !.rts = @ \ CallFlags(call[p].op), !.sendto = NONE, !.rcode = "error",
                      !.getfrom = IF call[p].op = "sendrec" THEN NONE ELSE @])]
      BY <1>2 DEF CallDone
    <3>2. QED
      BY <3>1 DEF Change
  <2>2. Sound(e, Home[p]) /\ e.message = Mine(p).message
    <3>1. g \in Procs \cup {ANY, NONE}
      BY MineTyped
    <3> HIDE DEF g
    <3>2. Mine(p) \in Descriptors /\ Sound(Mine(p), Home[p])
      BY MineFacts
    <3>3. QED
      BY <3>1, <3>2 DEF Sound, Descriptors
  <2>3. e.rts = {}
    <3>1. e.rts = Mine(p).rts \ CallFlags(call[p].op)
      BY MineFacts DEF Descriptors
    <3>2. QED
      BY <1>1, <3>1, MineFacts DEF Fits, Waiting
  <2> HIDE DEF e
  <2>4. Sound(Up(e), Home[p]) /\ Up(e).rts = {} /\ Carries(Mine(p), Up(e))
    BY <2>2, <2>3, UpFacts DEF Carries
  <2>5. Fits(Up(e), "user", call'[p].op)
    BY <2>4 DEF Fits
  <2>6. QED
    BY <1>1, <2>1, <2>4, <2>5, OwnOne DEF DescsFit
<1>3. CASE ~Fails(p)
  <2>1. UNCHANGED desc /\ Leaves(p)
    BY <1>3 DEF CallDone
  <2>2. Fits(Mine(p), "user", call'[p].op)
    BY <1>3, <2>1, FailsFits DEF Fits
  <2>3. Change(Home[p], p, Mine(p)) /\ Carries(Mine(p), Mine(p))
    BY <2>1, OwnNone DEF Carries
  <2>4. QED
    BY <1>1, <2>2, <2>3, OwnOne, MineFacts DEF DescsFit
<1>4. QED
  BY <1>2, <1>3

LEMMA ExpireFits ==
    ASSUME DescsFit, NEW p \in Procs, Expire(p)
    PROVE  DescsFit' /\ Carried
<1>1. /\ pc' = [pc EXCEPT ![p] = "expired"] /\ UNCHANGED <<desc, call>>
      /\ pc[p] = "sleep"
  BY DEF Expire
<1>2. Fits(Mine(p), "expired", call'[p].op)
  BY <1>1, MineFacts DEF Fits
<1>3. Change(Home[p], p, Mine(p)) /\ Carries(Mine(p), Mine(p))
  BY <1>1, OwnNone DEF Carries
<1>4. QED
  BY <1>1, <1>2, <1>3, OwnOne, MineFacts DEF DescsFit

LEMMA EnterReceiveFacts ==
    ASSUME DescsFit, NEW p \in Procs, NEW s \in Sources[p], EnterReceive(p, s)
    PROVE  /\ call' \in [Procs -> [op : Calls \cup {"none"},
                                   peer : Procs \cup {ANY, NONE}, n : Nat]]
           /\ \A q \in Procs : q # p => call'[q] = call[q]
           /\ call'[p].op = "receive"
           /\ s \in Procs \cup {ANY} /\ Mine(p).rts = {} /\ pc[p] = "user"
<1>1. /\ call' = [call EXCEPT ![p].op = "receive", ![p].peer = s]
      /\ pc[p] = "user" /\ Mine(p).rts = {}
  BY DEF EnterReceive, Enter
<1>2. s \in Procs \cup {ANY}
  BY PrivAssumption
<1>3. [call[p] EXCEPT !.op = "receive", !.peer = s]
            \in [op : Calls \cup {"none"}, peer : Procs \cup {ANY, NONE}, n : Nat]
  BY <1>2 DEF DescsFit, Calls
<1>4. call' = [call EXCEPT ![p] = [call[p] EXCEPT !.op = "receive", !.peer = s]]
  BY <1>1 DEF DescsFit
<1>5. [call[p] EXCEPT !.op = "receive", !.peer = s].op = "receive"
  BY DEF DescsFit
<1> DEFINE c == [call[p] EXCEPT !.op = "receive", !.peer = s]
<1> HIDE DEF c
<1>6. QED
  BY <1>1, <1>2, <1>3, <1>4, <1>5 DEF c, DescsFit

LEMMA ReceiveNotifyFits ==
    ASSUME DescsFit, NEW p \in Procs, NEW s \in Sources[p], ReceiveNotify(p, s)
    PROVE  DescsFit' /\ Carried
<1>1. PICK i \in Mine(p).pending :
        LET m == [cmd |-> "NTFY_MSG", src |-> i, n |-> 0, re |-> 0]
        IN  desc' = [desc EXCEPT ![Home[p]][p].pending = @ \ {i},
                                 ![Home[p]][p].message = m]
  BY DEF ReceiveNotify
<1> DEFINE m == [cmd |-> "NTFY_MSG", src |-> i, n |-> 0, re |-> 0]
           A == [Mine(p) EXCEPT !.pending = @ \ {i}, !.message = m]
<1>2. m \in Messages
  BY MineFacts DEF Messages, MsgCmds, Descriptors
<1>3. Change(Home[p], p, A)
  BY <1>1, HomeAssumption DEF Change, Mine, DescsFit
<1> HIDE DEF m
<1>4. Sound(A, Home[p]) /\ Carries(Mine(p), A) /\ A.rts = Mine(p).rts
  <2>1. Mine(p) \in Descriptors /\ Sound(Mine(p), Home[p])
    BY MineFacts
  <2>2. A \in Descriptors
    BY <1>2, <2>1 DEF Descriptors
  <2>3. A.message = m /\ A.rts = Mine(p).rts /\ A.sem = Mine(p).sem
        /\ A.rmtcmd = Mine(p).rmtcmd
    BY <2>1 DEF Descriptors
  <2> HIDE DEF A
  <2>4. QED
    BY <1>2, <2>1, <2>2, <2>3 DEF Sound, Carries
<1> HIDE DEF A
<1>5. pc' = [pc EXCEPT ![p] = "user"] /\ EnterReceive(p, s)
  BY DEF ReceiveNotify, Returns
<1>6. Fits(A, "user", call'[p].op)
  BY <1>4, <1>5, EnterReceiveFacts DEF Fits
<1>7. QED
  BY <1>3, <1>4, <1>5, <1>6, EnterReceiveFacts, OwnOne

LEMMA ReceiveBlockFits ==
    ASSUME DescsFit, NEW p \in Procs, NEW s \in Sources[p], ReceiveBlock(p, s)
    PROVE  DescsFit' /\ Carried
<1> DEFINE e == [Mine(p) EXCEPT !.rts = {"RECEIVING"}, !.getfrom = s, !.notify = FALSE]
<1>1. Change(Home[p], p, Down(e))
  BY HomeAssumption DEF ReceiveBlock, Change, Mine, DescsFit
<1>2. EnterReceive(p, s) /\ pc' = [pc EXCEPT ![p] = "sleep"]
  BY DEF ReceiveBlock
<1>3. Sound(e, Home[p]) /\ e.rts = {"RECEIVING"} /\ e.message = Mine(p).message
  <2>1. s \in Procs \cup {ANY, NONE}
    BY <1>2, EnterReceiveFacts
  <2>2. Mine(p) \in Descriptors /\ Sound(Mine(p), Home[p])
    BY MineFacts
  <2>3. QED
    BY <2>1, <2>2 DEF Sound, Descriptors
<1> HIDE DEF e
<1>4. /\ Sound(Down(e), Home[p]) /\ Carries(Mine(p), Down(e))
      /\ Down(e).rts = {"RECEIVING"} /\ Down(e).sem = -1
  BY <1>3, DownFacts DEF Carries
<1>5. Fits(Down(e), "sleep", call'[p].op)
  BY <1>2, <1>4, EnterReceiveFacts DEF Fits, Waiting
<1>6. QED
  BY <1>1, <1>2, <1>4, <1>5, EnterReceiveFacts, OwnOne

LEMMA ReceiveDoneFits ==
    ASSUME DescsFit, NEW p \in Procs, ReceiveDone(p)
    PROVE  DescsFit' /\ Carried
<1>1. /\ pc' = [pc EXCEPT ![p] = "user"] /\ UNCHANGED call /\ Leaves(p)
      /\ pc[p] # "user" /\ call[p].op = "receive"
  BY DEF ReceiveDone, Returns, Leaves
<1> DEFINE d == [Mine(p) EXCEPT !.notify = FALSE]
           e == [d EXCEPT !.rcode = "error"]
           A == IF Fails(p) THEN Up(EndReceive(e)) ELSE d
<1>2. Change(Home[p], p, A)
  BY HomeAssumption DEF ReceiveDone, Change, Mine, DescsFit
<1>3. /\ Sound(d, Home[p]) /\ d.message = Mine(p).message /\ d.rts = Mine(p).rts
      /\ Sound(e, Home[p]) /\ e.message = Mine(p).message /\ e.rts = Mine(p).rts
  <2>1. Mine(p) \in Descriptors /\ Sound(Mine(p), Home[p])
    BY MineFacts
  <2>2. Sound(d, Home[p]) /\ d.message = Mine(p).message /\ d.rts = Mine(p).rts
    BY <2>1 DEF Sound, Descriptors
  <2> HIDE DEF d
  <2>3. Sound(e, Home[p]) /\ e.message = d.message /\ e.rts = d.rts
    BY <2>2 DEF Sound, Descriptors
  <2>4. QED
    BY <2>2, <2>3
<1>4. CASE Fails(p)
  <2>1. e.rts \subseteq {"RECEIVING"}
    BY <1>1, <1>3, MineFacts DEF Fits, Waiting
  <2>2. /\ Sound(EndReceive(e), Home[p]) /\ EndReceive(e).rts = {}
        /\ EndReceive(e).message = e.message
    <3>1. EndReceive(e).rts = e.rts \ {"RECEIVING"}
      BY <1>3 DEF EndReceive, Sound, Descriptors
    <3>2. QED
      BY <1>3, <2>1, <3>1, EndReceiveFacts
  <2>3. Sound(A, Home[p]) /\ A.rts = {} /\ A.message = Mine(p).message
    BY <1>3, <1>4, <2>2, UpFacts
  <2>4. QED
    BY <1>1, <1>2, <2>3, OwnOne DEF Fits, Carries, DescsFit
<1>5. CASE ~Fails(p)
  <2>1. Sound(A, Home[p]) /\ A.rts = {} /\ A.message = Mine(p).message
    BY <1>1, <1>3, <1>5, FailsFits
  <2> HIDE DEF A
  <2>2. QED
    BY <1>1, <1>2, <2>1, OwnOne DEF Fits, Carries, DescsFit
<1>6. QED
  BY <1>4, <1>5

\* The image that waits at p.
LEMMA QueuedFacts ==
    ASSUME QueuesFit, NEW q \in Procs, NEW i \in DOMAIN inq[q]
    PROVE  /\ inq[q][i] \in Procs /\ Home[inq[q][i]] # Home[q]
           /\ desc[Home[q]][inq[q][i]].message \in Messages
<1>1. inq[q] \in Seq(Carriers(Home[q]))
  BY DEF QueuesFit, InqFit
<1>2. inq[q][i] \in Carriers(Home[q])
  BY <1>1
<1>3. QED
  BY <1>2 DEF Carriers, Images

LEMMA ReceiveTakeFits ==
    ASSUME DescsFit, QueuesFit, NEW p \in Procs, NEW s \in Sources[p], ReceiveTake(p, s)
    PROVE  DescsFit' /\ Carried
<1>1. PICK i \in Suitable(p, s) :
        LET x == inq[p][i]
            d == desc[Home[p]][x]
        IN  desc' = [desc EXCEPT ![Home[p]][x] =
                        IF "RECEIVING" \in d.rts THEN EndSend(d)
                        ELSE EndSend(Acknowledging(d, p, x, "OK"))]
  BY DEF ReceiveTake
<1> DEFINE x == inq[p][i]
           d == desc[Home[p]][x]
           B == IF "RECEIVING" \in d.rts THEN EndSend(d)
                ELSE EndSend(Acknowledging(d, p, x, "OK"))
<1>2. x \in Procs /\ Home[x] # Home[p] /\ Home[p] \in Nodes
  BY QueuedFacts, HomeAssumption DEF Suitable
<1>3. Change(Home[p], x, B)
  BY <1>1 DEF Change
<1> HIDE DEF x
<1>4. Sound(d, Home[p])
  BY <1>2 DEF DescsFit
<1> HIDE DEF d
<1>5. x \in Images(Home[p])
  BY <1>2 DEF Images
<1>6. Sound(B, Home[p]) /\ B.message = d.message
  BY <1>2, <1>4, <1>5, EndSendFacts, AcknowledgingFacts
<1> HIDE DEF B
<1>7. Carries(desc[Home[p]][x], B) /\ Carries(Mine(p), Mine(p))
  BY <1>6 DEF d, Carries
<1>8. ChangeTwo(Home[p], p, Mine(p), x, B)
  BY <1>2, <1>3, OwnKept
<1>9. pc' = [pc EXCEPT ![p] = "user"] /\ EnterReceive(p, s)
  BY DEF ReceiveTake, Returns
<1>10. Fits(Mine(p), "user", call'[p].op)
  BY <1>9, EnterReceiveFacts DEF Fits
<1>11. QED
  BY <1>2, <1>6, <1>7, <1>8, <1>9, <1>10, EnterReceiveFacts, MineFacts, OwnTwo

-----------------------------------------------------------------------------
(* The actions of the proxies and the descriptors *)

\* The header at the head of link l comes from a process of the first node, for
\* one of the second.
LEMMA HeaderFacts ==
    ASSUME QueuesFit, NEW l \in Links, net[l] # << >>
    PROVE  /\ Header(l) \in Commands /\ Header(l).cmd # "NONE"
           /\ Header(l).src \in Procs /\ Home[Header(l).src] = l[1]
           /\ Header(l).dst \in Procs /\ Home[Header(l).dst] = l[2]
           /\ Header(l).src \in Images(l[2])
           /\ Header(l).rcode \in {"OK", "error"}
           /\ Header(l).cmd \in MsgCmds => Header(l).msg \in Messages
           /\ Tail(net[l]) \in Seq(Headers(l))
<1>1. net[l] \in Seq(Headers(l))
  BY DEF QueuesFit, NetFit
<1>2. Header(l) \in Headers(l) /\ Tail(net[l]) \in Seq(Headers(l))
  BY <1>1 DEF Header
<1>3. /\ Header(l) \in Commands /\ Header(l).cmd # "NONE"
      /\ CmdFits(Header(l), l[1])
  BY <1>2 DEF Headers
<1> DEFINE h == Header(l)
<1> HIDE DEF h
<1>4. /\ h.src \in Procs /\ Home[h.src] = l[1]
      /\ h.dst \in Procs /\ Home[h.dst] # l[1]
      /\ h.cmd \in MsgCmds => h.msg \in Messages
  BY <1>3 DEF CmdFits, h
<1>5. Home[h.dst] \in Nodes /\ Home[h.dst] = l[2]
  BY <1>4, LinkFacts, HomeAssumption
<1>6. h.rcode \in {"OK", "error"}
  BY <1>3 DEF Commands, h
<1>7. h.src \in Images(l[2])
  BY <1>4, LinkFacts DEF Images
<1>8. QED
  BY <1>2, <1>3, <1>4, <1>5, <1>6, <1>7 DEF h

\* The two descriptors of the header of link l.
LEMMA EndsFacts ==
    ASSUME DescsFit, QueuesFit, NEW l \in Links, net[l] # << >>
    PROVE  /\ Sound(desc[l[2]][Header(l).src], l[2])
           /\ Sound(desc[l[2]][Header(l).dst], l[2])
           /\ Header(l).src # Header(l).dst
           /\ l[2] \in Nodes
BY HeaderFacts, LinkFacts DEF DescsFit

\* What the sender proxy hands to the connection of l is a header of l.
LEMMA DispatchFits ==
    ASSUME DescsFit, QueuesFit, NEW l \in Links, Get2rmtDispatch(l)
    PROVE  /\ DescsFit' /\ Carried
           /\ desc[l[1]][sproxy[l].xpp].rmtcmd.cmd # "NONE" =>
                desc[l[1]][sproxy[l].xpp].rmtcmd \in Headers(l)
<1> DEFINE x == sproxy[l].xpp
           d == desc[l[1]][x]
           image == IsImage(l[1], x)
           A == IF d.rmtcmd.cmd # "NONE" THEN Sent(d, image)
                ELSE IF image THEN [d EXCEPT !.rts = {}] ELSE ReadyUp(d, "error")
<1>1. x \in Procs /\ l[1] \in Nodes
  BY LinkFacts DEF Get2rmtDispatch, At, QueuesFit, SproxyFit
<1>2. Change(l[1], x, A) /\ UNCHANGED <<pc, call>>
  BY DEF Get2rmtDispatch, Change
<1> HIDE DEF x
<1>3. Sound(d, l[1])
  BY <1>1 DEF DescsFit
<1>4. image <=> Home[x] # l[1]
  BY DEF IsImage
<1>5. d.rmtcmd.cmd # "NONE" => d.rmtcmd \in Headers(l)
  BY <1>3 DEF Sound, Headers, Descriptors
<1> HIDE DEF d, image
<1>6. image \in BOOLEAN
  BY DEF image, IsImage
<1>7. /\ Sound([d EXCEPT !.rts = {}], l[1])
      /\ [d EXCEPT !.rts = {}].message = d.message
  BY <1>3 DEF Sound, Descriptors
<1>8. Sound(A, l[1]) /\ A.message = d.message /\ (~image => Calm(d, A))
  BY <1>3, <1>6, <1>7, SentFacts, ReadyUpFacts
<1> HIDE DEF A
<1>9. Carries(desc[l[1]][x], A) /\ (Home[x] = l[1] => Calm(desc[l[1]][x], A))
  BY <1>4, <1>8 DEF d, Carries
<1>10. DescsFit' /\ Carried
  BY <1>1, <1>2, <1>8, <1>9, QuietOne
<1>11. QED
  BY <1>5, <1>10 DEF d, x

LEMMA DeniedFits ==
    ASSUME DescsFit, QueuesFit, NEW l \in Links, Put2lclDenied(l)
    PROVE  DescsFit' /\ Carried
<1> DEFINE h == Header(l)
           A == Acknowledging(desc[l[2]][h.src], h.dst, h.src, "error")
<1>1. net[l] # << >> /\ UNCHANGED <<pc, call>>
  BY DEF Put2lclDenied, Arrives
<1>2. CASE h.cmd = "SEND_ACK"
  BY <1>1, <1>2, QuietNone DEF Put2lclDenied
<1>3. CASE h.cmd # "SEND_ACK"
  <2>1. Change(l[2], h.src, A)
    BY <1>3 DEF Put2lclDenied, Change
  <2>2. /\ h.src \in Procs /\ h.dst \in Procs /\ h.src \in Images(l[2])
        /\ Home[h.dst] = l[2] /\ Home[h.src] # l[2] /\ l[2] \in Nodes
        /\ Sound(desc[l[2]][h.src], l[2])
    BY <1>1, HeaderFacts, EndsFacts, LinkFacts
  <2> HIDE DEF h
  <2>3. Sound(A, l[2]) /\ A.message = desc[l[2]][h.src].message
    BY <2>2, AcknowledgingFacts
  <2> HIDE DEF A
  <2>4. Carries(desc[l[2]][h.src], A)
    BY <2>3 DEF Carries
  <2>5. QED
    BY <1>1, <2>1, <2>2, <2>3, <2>4, QuietOne
<1>4. QED
  BY <1>2, <1>3

LEMMA DeliverFits ==
    ASSUME DescsFit, QueuesFit, NEW l \in Links, Put2lclDeliver(l)
    PROVE  DescsFit' /\ Carried
<1> DEFINE h == Header(l)
           src == desc[l[2]][h.src]
           dst == desc[l[2]][h.dst]
           A1 == [src EXCEPT !.rts = @ \cup {"RECEIVING"}, !.getfrom = h.dst]
           A2 == Acknowledging(src, h.dst, h.src, "OK")
           A == IF h.cmd = "SNDREC_MSG" THEN A1 ELSE A2
           B == Wake(EndReceive(dst), "OK")
<1>1. net[l] # << >> /\ UNCHANGED <<pc, call>>
  BY DEF Put2lclDeliver, Accepted, Arrives
<1>2. ChangeTwo(l[2], h.src, A, h.dst, B)
  BY DEF Put2lclDeliver, ChangeTwo
<1>3. /\ h.src \in Procs /\ h.dst \in Procs /\ h.src \in Images(l[2])
      /\ Home[h.dst] = l[2] /\ Home[h.src] # l[2] /\ l[2] \in Nodes
      /\ Sound(src, l[2]) /\ Sound(dst, l[2]) /\ h.src # h.dst
  BY <1>1, HeaderFacts, EndsFacts, LinkFacts
<1> HIDE DEF h, src, dst
<1>4. Sound(A1, l[2]) /\ A1.message = src.message
  BY <1>3 DEF Sound, Descriptors
<1>5. Sound(A2, l[2]) /\ A2.message = src.message
  BY <1>3, AcknowledgingFacts
<1> HIDE DEF A1, A2
<1>6. Sound(A, l[2]) /\ Carries(src, A)
  BY <1>4, <1>5 DEF Carries
<1>7. Sound(B, l[2]) /\ Carries(dst, B) /\ Calm(dst, B)
  <2>1. /\ Sound(EndReceive(dst), l[2]) /\ Calm(dst, EndReceive(dst))
        /\ EndReceive(dst).message = dst.message
    BY <1>3, EndReceiveFacts
  <2>2. Sound(B, l[2]) /\ Calm(EndReceive(dst), B) /\ B.message = dst.message
    BY <2>1, WakeFacts
  <2>3. QED
    BY <2>1, <2>2, CalmCalm DEF Carries
<1> HIDE DEF A, B
<1>8. QED
  BY <1>1, <1>2, <1>3, <1>6, <1>7, QuietTwo DEF src, dst

\* The image that queues at a busy destination carries a message.
LEMMA QueueFits ==
    ASSUME DescsFit, QueuesFit, NEW l \in Links, Put2lclQueue(l)
    PROVE  /\ DescsFit' /\ Carried
           /\ desc'[l[2]][Header(l).src].message \in Messages
<1> DEFINE h == Header(l)
           rec == h.cmd = "SNDREC_MSG"
           d == desc[l[2]][h.src]
           r == d.rts \cup {"SENDING"} \cup (IF rec THEN {"RECEIVING"} ELSE {})
           g == IF rec THEN h.dst ELSE d.getfrom
           A == [d EXCEPT !.message = h.msg, !.sendto = h.dst, !.rts = r, !.getfrom = g]
<1>1. net[l] # << >> /\ UNCHANGED <<pc, call>> /\ IsMessage(h)
  BY DEF Put2lclQueue, Accepted, Arrives
<1>2. Change(l[2], h.src, A)
  BY DEF Put2lclQueue, Change
<1>3. /\ h.src \in Procs /\ h.dst \in Procs /\ Home[h.src] # l[2] /\ l[2] \in Nodes
      /\ Sound(d, l[2]) /\ (h.cmd \in MsgCmds => h.msg \in Messages)
  BY <1>1, HeaderFacts, EndsFacts, LinkFacts
<1>4. h.msg \in Messages
  BY <1>1, <1>3 DEF IsMessage, MsgCmds
<1> HIDE DEF h, d, rec
<1>5. d \in Descriptors
  BY <1>3 DEF Sound
<1>6. r \in SUBSET {"SENDING", "RECEIVING", "RMTOPER"} /\ g \in Procs \cup {ANY, NONE}
  BY <1>3, <1>5 DEF Descriptors
<1> HIDE DEF r, g
<1>7. A \in Descriptors
  BY <1>3, <1>4, <1>5, <1>6 DEF Descriptors
<1>8. A.message = h.msg /\ A.sem = d.sem /\ A.rmtcmd = d.rmtcmd
  BY <1>5 DEF Descriptors
<1> HIDE DEF A
<1>9. Sound(A, l[2]) /\ Carries(d, A) /\ A.message \in Messages
  BY <1>3, <1>4, <1>7, <1>8 DEF Sound, Carries
<1>10. desc'[l[2]][h.src] = A
  BY <1>2, <1>3, <1>9, OneChange DEF d
<1>11. DescsFit' /\ Carried
  BY <1>1, <1>2, <1>3, <1>9, QuietOne DEF d
<1>12. QED
  BY <1>9, <1>10, <1>11 DEF h

LEMMA NotifyFits ==
    ASSUME DescsFit, QueuesFit, NEW l \in Links, Put2lclNotify(l)
    PROVE  DescsFit' /\ Carried
<1> DEFINE h == Header(l)
           d == desc[l[2]][h.dst]
           A == IF Waits(d, h.src) THEN Wake(EndReceive(d), "OK")
                ELSE [d EXCEPT !.notify = TRUE, !.pending = @ \cup {h.src}]
<1>1. net[l] # << >> /\ UNCHANGED <<pc, call>>
  BY DEF Put2lclNotify, Accepted, Arrives
<1>2. Change(l[2], h.dst, A)
  BY DEF Put2lclNotify, Change
<1>3. h.src \in Procs /\ h.dst \in Procs /\ l[2] \in Nodes /\ Sound(d, l[2])
  BY <1>1, HeaderFacts, EndsFacts, LinkFacts
<1> HIDE DEF h, d
<1>4. CASE Waits(d, h.src)
  <2>1. /\ Sound(EndReceive(d), l[2]) /\ Calm(d, EndReceive(d))
        /\ EndReceive(d).message = d.message
    BY <1>3, EndReceiveFacts
  <2>2. Sound(A, l[2]) /\ Calm(EndReceive(d), A) /\ A.message = d.message
    BY <1>4, <2>1, WakeFacts
  <2>3. Calm(d, A) /\ Carries(d, A)
    BY <2>1, <2>2, CalmCalm DEF Carries
  <2> HIDE DEF A
  <2>4. QED
    BY <1>1, <1>2, <1>3, <2>2, <2>3, QuietOne DEF d
<1>5. CASE ~Waits(d, h.src)
  <2> DEFINE noted == d.pending \cup {h.src}
  <2>1. d \in Descriptors /\ A = [d EXCEPT !.notify = TRUE, !.pending = noted]
    BY <1>3, <1>5 DEF Sound
  <2>2. noted \in SUBSET Procs
    BY <1>3, <2>1 DEF Descriptors
  <2> HIDE DEF A, noted
  <2>3. A \in Descriptors
    BY <2>1, <2>2 DEF Descriptors
  <2>4. /\ A.message = d.message /\ A.sem = d.sem /\ A.rts = d.rts
        /\ A.rmtcmd = d.rmtcmd
    BY <2>1 DEF Descriptors
  <2>5. Sound(A, l[2]) /\ Calm(d, A) /\ Carries(d, A)
    BY <1>3, <2>3, <2>4 DEF Sound, Calm, Carries
  <2>6. QED
    BY <1>1, <1>2, <1>3, <2>5, QuietOne DEF d
<1>6. QED
  BY <1>4, <1>5

LEMMA AckFits ==
    ASSUME DescsFit, QueuesFit, NEW l \in Links, Put2lclAck(l)
    PROVE  DescsFit' /\ Carried
<1> DEFINE h == Header(l)
           d == desc[l[2]][h.dst]
           A == IF "SENDING" \in d.rts /\ d.sendto = h.src
                THEN Wake(EndSend(d), h.rcode) ELSE d
<1>1. net[l] # << >> /\ UNCHANGED <<pc, call>>
  BY DEF Put2lclAck, Accepted, Arrives
<1>2. Change(l[2], h.dst, A)
  BY DEF Put2lclAck, Change
<1>3. /\ h.dst \in Procs /\ l[2] \in Nodes /\ Sound(d, l[2])
      /\ h.rcode \in {"OK", "error"}
  BY <1>1, HeaderFacts, EndsFacts, LinkFacts
<1> HIDE DEF h, d
<1>4. Sound(A, l[2]) /\ Calm(d, A) /\ Carries(d, A)
  <2>1. /\ Sound(EndSend(d), l[2]) /\ Calm(d, EndSend(d))
        /\ EndSend(d).message = d.message
    BY <1>3, EndSendFacts
  <2>2. /\ Sound(Wake(EndSend(d), h.rcode), l[2])
        /\ Calm(EndSend(d), Wake(EndSend(d), h.rcode))
        /\ Wake(EndSend(d), h.rcode).message = d.message
    BY <1>3, <2>1, WakeFacts
  <2>3. Calm(d, Wake(EndSend(d), h.rcode)) /\ Calm(d, d)
    BY <2>1, <2>2, CalmCalm DEF Calm
  <2>4. QED
    BY <1>3, <2>2, <2>3 DEF Carries
<1> HIDE DEF A
<1>5. QED
  BY <1>1, <1>2, <1>3, <1>4, QuietOne DEF d

-----------------------------------------------------------------------------
(* Every step and the descriptors *)

LEMMA CallingFits ==
    ASSUME DescsFit, QueuesFit, RestTyped, NEW p \in Procs, Calling(p)
    PROVE  DescsFit' /\ Carried
<1>1. ASSUME NEW d \in Procs, Send(p, d) \/ Sendrec(p, d) \/ Notify(p, d) \/ Reply(p, d)
      PROVE  DescsFit' /\ Carried
  <2>1. CASE Send(p, d)
    <3>1. Remote(p, "send", d, "SEND_MSG", 0) /\ "SEND_MSG" \in MsgCmds
      BY <2>1 DEF Send, MsgCmds
    <3>2. QED
      BY <3>1, RemoteFits
  <2>2. CASE Sendrec(p, d)
    <3>1. Remote(p, "sendrec", d, "SNDREC_MSG", 0) /\ "SNDREC_MSG" \in MsgCmds
      BY <2>2 DEF Sendrec, MsgCmds
    <3>2. QED
      BY <3>1, RemoteFits
  <2>3. CASE Notify(p, d)
    <3>1. Remote(p, "notify", d, "NTFY_MSG", 0) /\ "NTFY_MSG" \in MsgCmds
      BY <2>3 DEF Notify, MsgCmds
    <3>2. QED
      BY <3>1, RemoteFits
  <2>4. CASE Reply(p, d)
    <3>1. owed[p][d] \in Nat /\ Remote(p, "reply", d, "REPLY_MSG", owed[p][d])
      BY <2>4 DEF Reply, RestTyped
    <3>2. "REPLY_MSG" \in MsgCmds
      BY DEF MsgCmds
    <3>3. QED
      BY <3>1, <3>2, RemoteFits
  <2>5. QED
    BY <1>1, <2>1, <2>2, <2>3, <2>4
<1>2. ASSUME NEW s \in Sources[p], Receive(p, s)
      PROVE  DescsFit' /\ Carried
  BY <1>2, ReceiveNotifyFits, ReceiveTakeFits, ReceiveBlockFits DEF Receive, ReceiveNow
<1>3. QED
  BY <1>1, <1>2 DEF Calling

LEMMA DescsFitStep ==
    ASSUME IInv, [Next]_vars
    PROVE  DescsFit' /\ Carried
<1> DescsFit /\ QueuesFit /\ RestTyped
  BY DEF IInv
<1>1. ASSUME NEW p \in Procs, Process(p) PROVE DescsFit' /\ Carried
  BY <1>1, CallingFits, CallDoneFits, ReceiveDoneFits, ExpireFits DEF Process, Continue
<1>2. ASSUME NEW l \in Links, Get2rmt(l) PROVE DescsFit' /\ Carried
  <2>1. CASE Get2rmtLook(l) \/ Get2rmtSleep(l) \/ Get2rmtTake(l)
    BY <2>1, QuietNone DEF Get2rmtLook, Get2rmtSleep, Get2rmtTake
  <2>2. QED
    BY <1>2, <2>1, DispatchFits DEF Get2rmt
<1>3. ASSUME NEW l \in Links, Put2lcl(l) PROVE DescsFit' /\ Carried
  <2>1. CASE Put2lclDropped(l)
    BY <2>1, QuietNone DEF Put2lclDropped
  <2>2. QED
    BY <1>3, <2>1, DeniedFits, DeliverFits, QueueFits, NotifyFits, AckFits DEF Put2lcl
<1>4. CASE UNCHANGED vars
  BY <1>4, QuietNone DEF vars
<1>5. QED
  BY <1>1, <1>2, <1>3, <1>4 DEF Next

-----------------------------------------------------------------------------
(* Every step and the queues *)

\* An image that carries a message goes on to.
LEMMA CarriersGrow ==
    ASSUME Carried, NEW n \in Nodes
    PROVE  Carriers(n) \subseteq Carriers(n)'
<1>1. ASSUME NEW x \in Carriers(n) PROVE x \in Carriers(n)'
  <2>1. x \in Images(n) /\ x \in Procs /\ desc[n][x].message \in Messages
    BY <1>1 DEF Carriers, Images
  <2>2. desc'[n][x].message \in Messages
    BY <2>1 DEF Carried, Carries
  <2>3. QED
    BY <2>1, <2>2 DEF Carriers
<1>2. QED
  BY <1>1

\* What the queue of a process may become.
LEMMA InqStep ==
    ASSUME InqFit, Carried, DOMAIN inq' = Procs, inq' = [q \in DOMAIN inq' |-> inq'[q]],
           \A q \in Procs :
               \/ inq'[q] = inq[q]
               \/ \E x \in Procs : inq'[q] = Without(inq[q], x)
               \/ \E x \in Carriers(Home[q])' : inq'[q] = Append(inq[q], x)
    PROVE  InqFit'
<1>1. ASSUME NEW q \in Procs PROVE inq'[q] \in Seq(Carriers(Home[q])') /\ inq'[q] \in Seq(Procs)
  <2> DEFINE C == Carriers(Home[q])'
  <2>1. Home[q] \in Nodes /\ Carriers(Home[q]) \subseteq C
    BY HomeAssumption, CarriersGrow
  <2>2. inq[q] \in Seq(Carriers(Home[q]))
    BY DEF InqFit
  <2>3. C \subseteq Procs
    BY DEF Carriers, Images
  <2> HIDE DEF C
  <2>4. inq[q] \in Seq(C)
    BY <2>1, <2>2, SeqMonotone
  <2>5. inq'[q] \in Seq(C)
    <3>1. CASE inq'[q] = inq[q]
      BY <2>4, <3>1
    <3>2. ASSUME NEW x \in Procs, inq'[q] = Without(inq[q], x) PROVE inq'[q] \in Seq(C)
      BY <2>4, <3>2, WithoutFacts
    <3>3. ASSUME NEW x \in C, inq'[q] = Append(inq[q], x) PROVE inq'[q] \in Seq(C)
      BY <2>4, <3>3
    <3>4. QED
      BY <3>1, <3>2, <3>3 DEF C
  <2>6. inq'[q] \in Seq(Procs)
    BY <2>3, <2>5, SeqMonotone
  <2>7. QED
    BY <2>5, <2>6 DEF C
<1>2. inq' \in [Procs -> Seq(Procs)]
  BY <1>1
<1>3. QED
  BY <1>1, <1>2 DEF InqFit

LEMMA InqSame ==
    ASSUME InqFit, Carried, UNCHANGED inq
    PROVE  InqFit'
BY InqStep DEF InqFit

LEMMA InqUnlinked ==
    ASSUME InqFit, Carried, NEW n, NEW x \in Procs, inq' = UnlinkIn(n, x)
    PROVE  InqFit'
<1>1. \A q \in Procs : inq'[q] = inq[q] \/ inq'[q] = Without(inq[q], x)
  BY DEF UnlinkIn
<1>2. DOMAIN inq' = Procs /\ inq' = [q \in DOMAIN inq' |-> inq'[q]]
  BY DEF UnlinkIn
<1>3. QED
  BY <1>1, <1>2, InqStep

LEMMA InqAppended ==
    ASSUME InqFit, Carried, NEW q \in Procs, NEW x \in Carriers(Home[q])',
           inq' = [inq EXCEPT ![q] = Append(@, x)]
    PROVE  InqFit'
<1>1. \A r \in Procs : inq'[r] = IF r = q THEN Append(inq[q], x) ELSE inq[r]
  BY DEF InqFit
<1>2. DOMAIN inq' = Procs /\ inq' = [r \in DOMAIN inq' |-> inq'[r]]
  BY DEF InqFit
<1>3. QED
  BY <1>1, <1>2, InqStep

LEMMA SproxyEnqueueFits ==
    ASSUME OutqFit, SproxyFit, NEW l \in Links, NEW p \in Procs, SproxyEnqueue(l, p)
    PROVE  OutqFit' /\ SproxyFit'
<1>1. OutqFit'
  BY DEF OutqFit, SproxyEnqueue
<1>2. SproxyFit'
  <2> DEFINE at == IF sproxy[l].at = "sleep" THEN "look" ELSE sproxy[l].at
             s == [sproxy[l] EXCEPT !.at = at]
  <2>1. sproxy' = [sproxy EXCEPT ![l] = s]
    BY DEF SproxyEnqueue, SproxyFit
  <2>2. s \in [at : {"look", "sleep", "window", "taken"}, xpp : Procs \cup {NONE}]
    BY DEF SproxyFit
  <2>3. s.at \in {"window", "taken"} => s.xpp \in Procs
    BY DEF SproxyFit
  <2> HIDE DEF s
  <2>4. QED
    BY <2>1, <2>2, <2>3 DEF SproxyFit
<1>3. QED
  BY <1>1, <1>2

LEMMA OutqUnlinked ==
    ASSUME OutqFit, NEW n, NEW x, outq' = UnlinkOut(n, x)
    PROVE  OutqFit'
<1>1. \A l \in Links : outq[l] \in Seq(Procs) /\ Without(outq[l], x) \in Seq(Procs)
  BY WithoutFacts DEF OutqFit
<1>2. QED
  BY <1>1 DEF OutqFit, UnlinkOut

LEMMA SameFits ==
    /\ OutqFit /\ UNCHANGED outq => OutqFit'
    /\ SproxyFit /\ UNCHANGED sproxy => SproxyFit'
    /\ NetFit /\ UNCHANGED net => NetFit'
BY DEF OutqFit, SproxyFit, NetFit

\* The proxy has a descriptor in its hands while it is in a window.
LEMMA SproxyMoves ==
    ASSUME SproxyFit, NEW l \in Links, NEW a \in {"look", "sleep", "window", "taken"},
           NEW x \in Procs \cup {NONE}, a \in {"window", "taken"} => x \in Procs,
           sproxy' = [sproxy EXCEPT ![l] = [at |-> a, xpp |-> x]]
    PROVE  SproxyFit'
BY DEF SproxyFit

LEMMA NetReceived ==
    ASSUME QueuesFit, NEW l \in Links, Arrives(l)
    PROVE  NetFit'
<1>1. Tail(net[l]) \in Seq(Headers(l)) /\ net' = [net EXCEPT ![l] = Tail(@)]
  BY HeaderFacts DEF Arrives
<1>2. Headers(l) \subseteq Commands
  BY DEF Headers
<1>3. Tail(net[l]) \in Seq(Commands)
  BY <1>1, <1>2, SeqMonotone
<1>4. QED
  BY <1>1, <1>3 DEF QueuesFit, NetFit, Headers, CmdFits

LEMMA NetSent ==
    ASSUME QueuesFit, NEW l \in Links, NEW c \in Headers(l),
           net' = [net EXCEPT ![l] = Append(@, c)]
    PROVE  NetFit'
<1>1. Append(net[l], c) \in Seq(Headers(l))
  BY DEF QueuesFit, NetFit
<1>2. Headers(l) \subseteq Commands
  BY DEF Headers
<1>3. Append(net[l], c) \in Seq(Commands)
  BY <1>1, <1>2, SeqMonotone
<1>4. QED
  BY <1>1, <1>3 DEF QueuesFit, NetFit, Headers, CmdFits

LEMMA ThreadQueues ==
    ASSUME IInv, Carried, NEW p \in Procs, Process(p)
    PROVE  QueuesFit'
<1> InqFit /\ OutqFit /\ SproxyFit /\ NetFit
  BY DEF IInv, QueuesFit
<1>1. Home[p] \in Nodes
  BY HomeAssumption
<1>2. ASSUME NEW d \in Procs, NEW op, NEW cmd, NEW re, Remote(p, op, d, cmd, re)
      PROVE  QueuesFit'
  <2>1. <<Home[p], Home[d]>> \in Links
    BY <1>2, HomeAssumption, PrivAssumption DEF Remote, Links
  <2>2. OutqFit' /\ SproxyFit'
    BY <1>2, <2>1, SproxyEnqueueFits DEF Remote
  <2>3. InqFit' /\ NetFit'
    BY <1>2, InqSame, SameFits DEF Remote
  <2>4. QED
    BY <2>2, <2>3 DEF QueuesFit
<1>3. ASSUME NEW s \in Sources[p], ReceiveTake(p, s)
      PROVE  QueuesFit'
  <2>1. PICK i \in Suitable(p, s) :
          /\ inq' = UnlinkIn(Home[p], inq[p][i])
          /\ \/ UNCHANGED <<outq, sproxy>>
             \/ SproxyEnqueue(<<Home[p], Home[inq[p][i]]>>, inq[p][i])
    BY <1>3 DEF ReceiveTake
  <2> DEFINE x == inq[p][i]
  <2>2. x \in Procs /\ Home[x] # Home[p]
    BY QueuedFacts DEF Suitable, QueuesFit
  <2>3. <<Home[p], Home[x]>> \in Links
    BY <2>2, HomeAssumption DEF Links
  <2> HIDE DEF x
  <2>4. InqFit'
    BY <2>1, <2>2, InqUnlinked DEF x
  <2>5. OutqFit' /\ SproxyFit'
    BY <2>1, <2>2, <2>3, SproxyEnqueueFits, SameFits DEF x
  <2>6. NetFit'
    BY <1>3, SameFits DEF ReceiveTake
  <2>7. QED
    BY <2>4, <2>5, <2>6 DEF QueuesFit
<1>4. CASE CallDone(p)
  <2>1. UNCHANGED <<inq, sproxy, net>> /\ (UNCHANGED outq \/ outq' = UnlinkOut(Home[p], p))
    BY <1>4 DEF CallDone, wires
  <2>2. QED
    BY <2>1, InqSame, SameFits, OutqUnlinked DEF QueuesFit
<1>5. ASSUME UNCHANGED <<inq, outq, sproxy, net>>
      PROVE  QueuesFit'
  BY <1>5, InqSame, SameFits DEF QueuesFit
<1>6. ASSUME NEW s \in Sources[p], ReceiveNotify(p, s) \/ ReceiveBlock(p, s)
      PROVE  QueuesFit'
  BY <1>5, <1>6 DEF ReceiveNotify, ReceiveBlock, wires
<1>7. CASE ReceiveDone(p) \/ Expire(p)
  BY <1>5, <1>7 DEF ReceiveDone, Expire, wires
<1>8. ASSUME NEW d \in Procs, Send(p, d) \/ Sendrec(p, d) \/ Notify(p, d) \/ Reply(p, d)
      PROVE  QueuesFit'
  BY <1>2, <1>8 DEF Send, Sendrec, Notify, Reply
<1>9. QED
  BY <1>3, <1>4, <1>6, <1>7, <1>8
     DEF Process, Calling, Continue, Receive, ReceiveNow

LEMMA SenderProxyQueues ==
    ASSUME IInv, Carried, NEW l \in Links, Get2rmt(l)
    PROVE  QueuesFit'
<1> InqFit /\ OutqFit /\ SproxyFit /\ NetFit
  BY DEF IInv, QueuesFit
<1>1. CASE Get2rmtLook(l)
  <2>1. Head(outq[l]) \in Procs
    BY <1>1 DEF Get2rmtLook, OutqFit
  <2>2. SproxyFit'
    BY <1>1, <2>1, SproxyMoves DEF Get2rmtLook
  <2>3. QED
    BY <1>1, <2>2, InqSame, SameFits DEF QueuesFit, Get2rmtLook
<1>2. CASE Get2rmtSleep(l)
  <2>1. SproxyFit'
    BY <1>2 DEF Get2rmtSleep, SproxyFit
  <2>2. QED
    BY <1>2, <2>1, InqSame, SameFits DEF QueuesFit, Get2rmtSleep
<1>3. CASE Get2rmtTake(l)
  <2>1. sproxy[l].xpp \in Procs
    BY <1>3 DEF Get2rmtTake, At, SproxyFit
  <2>2. SproxyFit'
    BY <1>3, <2>1 DEF Get2rmtTake, SproxyFit
  <2>3. InqFit' /\ OutqFit'
    BY <1>3, <2>1, InqUnlinked, OutqUnlinked DEF Get2rmtTake
  <2>4. QED
    BY <1>3, <2>2, <2>3, SameFits DEF QueuesFit, Get2rmtTake
<1>4. CASE Get2rmtDispatch(l)
  <2>1. SproxyFit'
    BY <1>4, SproxyMoves DEF Get2rmtDispatch
  <2> DEFINE c == desc[l[1]][sproxy[l].xpp].rmtcmd
  <2>2. c.cmd # "NONE" => c \in Headers(l)
    BY <1>4, DispatchFits DEF IInv
  <2>3. \/ c.cmd # "NONE" /\ net' = [net EXCEPT ![l] = Append(@, c)]
        \/ UNCHANGED net
    BY <1>4 DEF Get2rmtDispatch
  <2> HIDE DEF c
  <2>4. NetFit'
    BY <2>2, <2>3, NetSent, SameFits DEF IInv
  <2>5. QED
    BY <1>4, <2>1, <2>4, InqSame, SameFits DEF QueuesFit, Get2rmtDispatch
<1>5. QED
  BY <1>1, <1>2, <1>3, <1>4 DEF Get2rmt

LEMMA ReceiverProxyQueues ==
    ASSUME IInv, Carried, NEW l \in Links, Put2lcl(l)
    PROVE  QueuesFit'
<1> DescsFit /\ QueuesFit /\ InqFit /\ OutqFit /\ SproxyFit /\ NetFit
  BY DEF IInv, QueuesFit
<1> DEFINE h == Header(l)
<1>1. Arrives(l)
  BY DEF Put2lcl, Put2lclDenied, Put2lclDropped, Put2lclDeliver, Put2lclQueue,
         Put2lclNotify, Put2lclAck, Accepted
<1>2. NetFit'
  BY <1>1, NetReceived
<1>3. /\ h.src \in Procs /\ h.dst \in Procs /\ Home[h.dst] = l[2]
      /\ h.src \in Images(l[2]) /\ Back(l) \in Links
  BY <1>1, HeaderFacts, LinkFacts DEF Arrives
<1>4. CASE Put2lclQueue(l)
  <2>1. /\ inq' = [inq EXCEPT ![h.dst] = Append(@, h.src)]
        /\ UNCHANGED <<outq, sproxy>>
    BY <1>4 DEF Put2lclQueue
  <2>2. desc'[l[2]][h.src].message \in Messages
    BY <1>4, QueueFits
  <2> PICK x \in Procs, q \in Procs : x = h.src /\ q = h.dst
    BY <1>3
  <2> HIDE DEF h
  <2>3. x \in Carriers(Home[q])'
    BY <1>3, <2>2 DEF Carriers, Images
  <2>4. InqFit'
    BY <2>1, <2>3, InqAppended
  <2>5. QED
    BY <1>2, <2>1, <2>4, SameFits DEF QueuesFit
<1>5. CASE ~Put2lclQueue(l)
  <2>1. UNCHANGED inq /\ (UNCHANGED <<outq, sproxy>> \/ SproxyEnqueue(Back(l), h.src))
    BY <1>5 DEF Put2lcl, Put2lclDenied, Put2lclDropped, Put2lclDeliver, Put2lclNotify,
                Put2lclAck
  <2> HIDE DEF h
  <2>2. OutqFit' /\ SproxyFit'
    BY <1>3, <2>1, SproxyEnqueueFits, SameFits
  <2>3. QED
    BY <1>2, <2>1, <2>2, InqSame DEF QueuesFit
<1>6. QED
  BY <1>4, <1>5

LEMMA QueuesFitStep ==
    ASSUME IInv, Carried, [Next]_vars
    PROVE  QueuesFit'
<1>1. CASE UNCHANGED vars
  BY <1>1, InqSame, SameFits DEF vars, IInv, QueuesFit
<1>2. QED
  BY <1>1, ThreadQueues, SenderProxyQueues, ReceiverProxyQueues DEF Next

-----------------------------------------------------------------------------
(* Every step and the rest *)

LEMMA DeliverTyped ==
    ASSUME RestTyped, NEW q \in Procs, NEW m \in Messages, Deliver(q, m)
    PROVE  /\ got' \in [Procs -> Messages \cup {NONE}]
           /\ owed' \in [Procs -> [Procs -> Nat]]
           /\ taken' \in [Procs -> [Procs -> Seq(Nat)]]
<1>1. m.src \in Procs /\ m.n \in Nat
  BY DEF Messages
<1>2. got' \in [Procs -> Messages \cup {NONE}]
  BY DEF RestTyped, Deliver
<1>3. owed' \in [Procs -> [Procs -> Nat]]
  BY <1>1 DEF RestTyped, Deliver
<1>4. taken' \in [Procs -> [Procs -> Seq(Nat)]]
  BY <1>1 DEF RestTyped, Deliver
<1>5. QED
  BY <1>2, <1>3, <1>4

LEMMA ReturnsTyped ==
    ASSUME RestTyped, NEW p \in Procs, NEW rc \in {"OK", "error"}, Returns(p, rc)
    PROVE  ret' \in [Procs -> {"OK", "error"}]
BY DEF RestTyped, Returns

LEMMA ThreadTyped ==
    ASSUME IInv, NEW p \in Procs, Process(p)
    PROVE  RestTyped'
<1> DescsFit /\ QueuesFit /\ RestTyped
  BY DEF IInv
<1>1. ASSUME NEW d \in Procs, NEW op, NEW cmd, NEW re, Remote(p, op, d, cmd, re),
             owed' \in [Procs -> [Procs -> Nat]]
      PROVE  RestTyped'
  BY <1>1 DEF Remote, RestTyped
<1>2. ASSUME NEW d \in Procs, Send(p, d) \/ Sendrec(p, d) \/ Notify(p, d) \/ Reply(p, d)
      PROVE  RestTyped'
  <2>1. UNCHANGED owed \/ owed' = [owed EXCEPT ![p][d] = 0]
    BY <1>2 DEF Send, Sendrec, Notify, Reply
  <2>2. owed' \in [Procs -> [Procs -> Nat]]
    <3>1. CASE UNCHANGED owed
      BY <3>1 DEF RestTyped
    <3>2. CASE owed' = [owed EXCEPT ![p][d] = 0]
      <4> DEFINE f == [owed[p] EXCEPT ![d] = 0]
      <4>1. f \in [Procs -> Nat]
        BY <1>2 DEF RestTyped
      <4>2. owed' = [owed EXCEPT ![p] = f]
        BY <3>2
      <4> HIDE DEF f
      <4>3. QED
        BY <4>1, <4>2 DEF RestTyped
    <3>3. QED
      BY <2>1, <3>1, <3>2
  <2>3. QED
    BY <1>1, <1>2, <2>2 DEF Send, Sendrec, Notify, Reply
<1>3. ASSUME NEW s \in Sources[p], ReceiveNotify(p, s)
      PROVE  RestTyped'
  <2>1. PICK i \in Mine(p).pending :
          Deliver(p, [cmd |-> "NTFY_MSG", src |-> i, n |-> 0, re |-> 0])
    BY <1>3 DEF ReceiveNotify
  <2>2. i \in Procs
    BY MineTyped
  <2>3. [cmd |-> "NTFY_MSG", src |-> i, n |-> 0, re |-> 0] \in Messages
    BY <2>2 DEF Messages, MsgCmds
  <2>4. ret' \in [Procs -> {"OK", "error"}]
    BY <1>3, ReturnsTyped DEF ReceiveNotify
  <2>5. QED
    BY <2>1, <2>3, <2>4, DeliverTyped DEF RestTyped
<1>4. ASSUME NEW s \in Sources[p], ReceiveTake(p, s)
      PROVE  RestTyped'
  <2>1. PICK i \in Suitable(p, s) : Deliver(p, desc[Home[p]][inq[p][i]].message)
    BY <1>4 DEF ReceiveTake
  <2>2. desc[Home[p]][inq[p][i]].message \in Messages
    BY QueuedFacts DEF Suitable
  <2>3. ret' \in [Procs -> {"OK", "error"}]
    BY <1>4, ReturnsTyped DEF ReceiveTake
  <2>4. QED
    BY <2>1, <2>2, <2>3, DeliverTyped DEF RestTyped
<1>5. ASSUME NEW s \in Sources[p], ReceiveBlock(p, s)
      PROVE  RestTyped'
  BY <1>5 DEF ReceiveBlock, RestTyped
<1>6. CASE CallDone(p)
  <2>1. Returns(p, "error") \/ Returns(p, "OK")
    BY <1>6 DEF CallDone
  <2>2. ret' \in [Procs -> {"OK", "error"}]
    BY <2>1, ReturnsTyped
  <2>3. QED
    BY <1>6, <2>2 DEF CallDone, RestTyped
<1>7. CASE ReceiveDone(p)
  <2>1. ret' \in [Procs -> {"OK", "error"}]
    BY <1>7, ReturnsTyped DEF ReceiveDone
  <2>2. Mine(p).message \in Messages \cup {NONE}
    BY MineFacts DEF Descriptors
  <2>3. QED
    BY <1>7, <2>1, <2>2 DEF ReceiveDone, RestTyped
<1>8. CASE Expire(p)
  BY <1>8 DEF Expire, RestTyped
<1>9. QED
  BY <1>2, <1>3, <1>4, <1>5, <1>6, <1>7, <1>8
     DEF Process, Calling, Continue, Receive, ReceiveNow

LEMMA ProxyTyped ==
    ASSUME IInv, NEW l \in Links, Get2rmt(l) \/ Put2lcl(l)
    PROVE  RestTyped'
<1> DescsFit /\ QueuesFit /\ RestTyped
  BY DEF IInv
<1>1. CASE Get2rmt(l)
  BY <1>1 DEF Get2rmt, Get2rmtLook, Get2rmtSleep, Get2rmtTake, Get2rmtDispatch, RestTyped
<1>2. ASSUME Accepted(l), Header(l).cmd \in MsgCmds, UNCHANGED ret,
             Deliver(Header(l).dst, Header(l).msg)
      PROVE  RestTyped'
  <2>1. Header(l).dst \in Procs /\ Header(l).msg \in Messages
    BY <1>2, HeaderFacts DEF Accepted, Arrives
  <2>2. QED
    BY <1>2, <2>1, DeliverTyped DEF RestTyped
<1>3. CASE Put2lclDeliver(l)
  BY <1>2, <1>3 DEF Put2lclDeliver, IsMessage, MsgCmds
<1>4. CASE Put2lclNotify(l)
  <2>1. CASE UNCHANGED <<got, owed, taken>>
    BY <1>4, <2>1 DEF Put2lclNotify, RestTyped
  <2>2. CASE Deliver(Header(l).dst, Header(l).msg)
    BY <1>2, <1>4, <2>2 DEF Put2lclNotify, MsgCmds
  <2>3. QED
    BY <1>4, <2>1, <2>2 DEF Put2lclNotify
<1>5. CASE Put2lclDenied(l) \/ Put2lclDropped(l) \/ Put2lclQueue(l) \/ Put2lclAck(l)
  BY <1>5 DEF Put2lclDenied, Put2lclDropped, Put2lclQueue, Put2lclAck, RestTyped
<1>6. QED
  BY <1>1, <1>3, <1>4, <1>5 DEF Put2lcl

LEMMA RestTypedStep ==
    ASSUME IInv, [Next]_vars
    PROVE  RestTyped'
<1>1. CASE UNCHANGED vars
  BY <1>1 DEF vars, IInv, RestTyped
<1>2. QED
  BY <1>1, ThreadTyped, ProxyTyped DEF Next

-----------------------------------------------------------------------------
(* The invariant and the theorems *)

LEMMA InitIInv == Init => IInv
<1> SUFFICES ASSUME Init PROVE IInv
  OBVIOUS
<1>1. Clean \in Descriptors /\ \A n : Sound(Clean, n)
  BY DEF Clean, Sound, Descriptors, Commands, NoCommand, CmdFits
<1>2. \A q \in Procs : Home[q] \in Nodes
  BY HomeAssumption
<1>3. DescsFit
  <2>1. \A n \in Nodes, q \in Procs : desc[n][q] = Clean
    BY DEF Init
  <2>2. \A q \in Procs : Fits(Mine(q), pc[q], call[q].op)
    BY <1>2, <2>1 DEF Init, Mine, Fits, Clean
  <2>3. desc \in [Nodes -> [Procs -> Descriptors]]
    BY <1>1 DEF Init
  <2>4. \A n \in Nodes, q \in Procs : Sound(desc[n][q], n)
    BY <1>1, <2>1
  <2>5. QED
    BY <2>2, <2>3, <2>4 DEF DescsFit, Init
<1>4. QueuesFit
  BY DEF Init, QueuesFit, InqFit, OutqFit, SproxyFit, NetFit
<1>5. RestTyped
  BY DEF Init, RestTyped
<1>6. QED
  BY <1>3, <1>4, <1>5 DEF IInv

\* The invariant is inductive.
LEMMA StepIInv ==
    ASSUME IInv, [Next]_vars
    PROVE  IInv'
BY DescsFitStep, QueuesFitStep, RestTypedStep DEF IInv

LEMMA Invariance == Spec => []IInv
<1>1. Init => IInv
  BY InitIInv
<1>2. IInv /\ [Next]_vars => IInv'
  BY StepIInv
<1>3. QED
  BY <1>1, <1>2, PTL DEF Spec

\* TypeOK is an invariant: whatever the processes, privileges and timeouts, the
\* descriptors, the queues, the connections and the buffers keep their types,
\* and no pseudo-semaphore goes below -1.
THEOREM ProxyTypeCorrect == Spec => []TypeOK
<1>1. IInv => TypeOK
  BY DEF IInv, DescsFit, QueuesFit, InqFit, OutqFit, SproxyFit, NetFit, RestTyped,
         Sound, TypeOK
<1>2. QED
  BY <1>1, Invariance, PTL

\* A thread that comes back from wait_event_* leaves no flag in its descriptor,
\* whether it was woken, timed out or was interrupted, and no proxy sets one
\* while it is in its program.
THEOREM CleanReturn == Spec => []ReturnsClean
<1>1. IInv => ReturnsClean
  BY DEF IInv, DescsFit, Fits, ReturnsClean
<1>2. QED
  BY <1>1, Invariance, PTL

LEMMA BufferStep ==
    ASSUME IInv, [Next]_vars
    PROVE  [\A l \in Links, p \in Procs :
              net'[l] # net[l] /\ Home[p] = l[2] /\ pc[p] = "user" => got'[p] = got[p]]_vars
<1> DEFINE B == \A l \in Links, p \in Procs :
              net'[l] # net[l] /\ Home[p] = l[2] /\ pc[p] = "user" => got'[p] = got[p]
<1> DescsFit /\ QueuesFit /\ RestTyped
  BY DEF IInv
<1>1. CASE UNCHANGED net \/ UNCHANGED got
  BY <1>1
<1>2. ASSUME NEW p \in Procs, Process(p) PROVE UNCHANGED net
  BY <1>2 DEF Process, Calling, Continue, Receive, ReceiveNow, Send, Sendrec, Notify, Reply,
     Remote, ReceiveNotify, ReceiveTake, ReceiveBlock, CallDone, ReceiveDone, Expire, wires
<1>3. ASSUME NEW l \in Links, Get2rmt(l) PROVE UNCHANGED got
  BY <1>3 DEF Get2rmt, Get2rmtLook, Get2rmtSleep, Get2rmtTake, Get2rmtDispatch
<1>4. ASSUME NEW l \in Links, Accepted(l), NEW m,
             Waits(desc[l[2]][Header(l).dst], Header(l).src), Deliver(Header(l).dst, m)
      PROVE  B
  <2> DEFINE q == Header(l).dst
  <2>1. q \in Procs /\ Home[q] = l[2]
    BY <1>4, HeaderFacts DEF Accepted, Arrives
  <2>2. Mine(q).rts # {}
    BY <1>4, <2>1 DEF Waits, Mine
  <2>3. got' = [got EXCEPT ![q] = m]
    BY <1>4 DEF Deliver
  <2> HIDE DEF q
  <2>4. pc[q] # "user"
    BY <2>1, <2>2, MineFacts DEF Fits
  <2>5. QED
    BY <2>3, <2>4 DEF RestTyped
<1>5. ASSUME NEW l \in Links, Put2lcl(l) PROVE B \/ UNCHANGED got
  BY <1>4, <1>5 DEF Put2lcl, Put2lclDenied, Put2lclDropped, Put2lclDeliver, Put2lclQueue,
     Put2lclNotify, Put2lclAck
<1> HIDE DEF B
<1>6. B \/ UNCHANGED vars
  BY <1>1, <1>2, <1>3, <1>5 DEF Next, vars, B
<1>7. QED
  BY <1>6 DEF B

\* A receiver proxy writes only into the buffer of a process that still waits in
\* the kernel, never into that of one whose call was abandoned.
THEOREM BuffersOwned == Spec => BufferOwned
<1>1. IInv /\ [Next]_vars =>
        [\A l \in Links, p \in Procs :
            net'[l] # net[l] /\ Home[p] = l[2] /\ pc[p] = "user" => got'[p] = got[p]]_vars
  BY BufferStep
<1>2. QED
  BY <1>1, Invariance, PTL DEF Spec, BufferOwned
=============================================================================
