--------------------------- MODULE DvkMigrateProofs ---------------------------
(* What migration owes those it meets: the lists agree with the flags, a       *)
(* message is taken once, the image left behind returns from no call: for any  *)
(* processes and nodes, any number of migrations, commits and rollbacks.       *)
EXTENDS DvkMigrate, SequenceTheorems, TLAPS

\* The administrator is about to flush p from the queue of a process that has
\* migrated, or to wake p at the end of the rollback of its migration.
Walking == admin \notin {Idle, Wild}
Hit(p) == Walking /\ admin.list = "send" /\ admin.xpp = p
Rolls(p) == Walking /\ admin.oper = "rollback" /\ admin.proc = p

\* The flags and the semaphore of a process that sends, given where its thread
\* is: raised once more at most by a flush that is late, when nobody holds a
\* flag of it any longer.
SenderFlags(l) ==
    IF l = "away" THEN {"REMOTE"}
    ELSE IF l \in {"user", "migrating"} THEN {"WAITMIGR"}
    ELSE IF l = "sending" THEN {"SENDING"}
    ELSE {}
Sender(d, l, h) ==
    /\ d.misc = {} /\ l \in {"away", "user", "enter", "migrating", "sending"}
    /\ d.rts \subseteq SenderFlags(l)
    /\ l \in {"user", "away"} /\ d.rts # {} => d.sem = 0
    /\ l \in {"migrating", "sending"} /\ d.rts # {} => d.sem = -1 /\ d.rcode = "OK"
    /\ d.rts = {} => l # "away" /\ d.sem \in 0 .. 1 /\ (h => d.sem = 0)
    /\ l = "migrating" => d.rcode = "OK"
    /\ l = "sending" => d.rcode \in {"OK", "MIGRATE"}
    /\ "SENDING" \in d.rts => d.sendto \in Procs
    /\ "WAITMIGR" \in d.rts => d.waitmigr \in Procs

\* The same of a process that receives, and may migrate.
Image(d) == "RMTBACKUP" \in d.misc
Receiver(p, d, l, r) ==
    /\ l \in {"away", "user", "stopped", "backup", "scan", "receiving"}
    /\ "REMOTE" \in d.rts <=> d.nodeid # local
    /\ Image(d) \/ l = "away" <=> d.nodeid # local
    /\ r => d.rts \cap {"MIGRATE", "REMOTE"} = {} /\ "NEEDMIGR" \notin d.misc
    /\ l = "away" => d.rts \subseteq {"REMOTE", "MIGRATE"} /\ d.sem = 0 /\ d.misc = {}
    /\ l = "user" => d.rts \subseteq {"MIGRATE", "REMOTE"} /\ d.sem \in 0 .. 2
    /\ l = "user" /\ ("MIGRATE" \in d.rts \/ r) => d.sem <= 1
    /\ l = "scan" => d.rts = {} /\ d.sem \in 0 .. 2 /\ (r => d.sem <= 1)
    /\ l = "stopped" =>
          /\ d.rts \subseteq {"MIGRATE", "REMOTE"} /\ d.rcode = "OK"
          /\ \/ d.sem = -1 /\ (d.rts # {} \/ r)
             \/ d.sem = 0 /\ d.rts = {} /\ ~r
    /\ l = "backup" =>
          /\ Image(d) /\ d.rts \subseteq {"MIGRATE", "REMOTE", "WAITMIGR"} /\ d.sem = -1
          /\ "WAITMIGR" \in d.rts => d.waitmigr = p
    /\ l = "receiving" =>
          /\ d.rts \subseteq {"RECEIVING", "MIGRATE", "REMOTE"} /\ d.rcode = "OK"
          /\ \/ d.sem = -1 /\ d.rts \cap {"RECEIVING", "REMOTE"} # {}
             \/ d.sem \in 0 .. 1 /\ d.rts = {} /\ (r => d.sem = 0)

Fit(p, d, l, h, r) ==
    /\ SendsTo[p] # {} => Sender(d, l, h)
    /\ SendsTo[p] = {} => Receiver(p, d, l, r)
Called(p, c, l) ==
    /\ l \in {"enter", "migrating", "sending"} => c.op = "send" /\ c.peer \in SendsTo[p]
    /\ l = "stopped" => c.op = "receive"

\* What becomes of the message of a send.
Sent(p, d, l, rc, n, f) ==
    /\ n \in 0 .. 1
    /\ "SENDING" \in d.rts \/ l \in {"enter", "migrating"} => n = 0
    /\ l = "sending" /\ d.rcode = "MIGRATE" => n = 0
    /\ l = "sending" /\ d.rts = {} /\ d.rcode = "OK" => n = 1 \/ f
    /\ l = "user" /\ SendsTo[p] # {} /\ rc = "OK" => n = 1 \/ f

Good(p) ==
    /\ Fit(p, proc[p], pc[p], Hit(p), Rolls(p))
    /\ Called(p, call[p], pc[p])
    /\ Sent(p, proc[p], pc[p], ret[p], taken[p], flushed[p])
    /\ expired[p] => pc[p] \in {"migrating", "sending", "receiving"}
ListsTyped == p_list \in [Procs -> Seq(Procs)] /\ p_mlist \in [Procs -> Seq(Procs)]
WaitsExact ==
    \A p, d \in Procs :
        p \in Range(p_mlist[d]) <=> "WAITMIGR" \in proc[p].rts /\ proc[p].waitmigr = d
SendsLinked ==
    \A p, d \in Procs :
        p \in Range(p_list[d]) => "SENDING" \in proc[p].rts /\ proc[p].sendto = d
LinkedOnce == \A d \in Procs : IsInjective(p_list[d]) /\ IsInjective(p_mlist[d])
ListsFit == ListsTyped /\ WaitsExact /\ SendsLinked /\ LinkedOnce
RestTyped ==
    /\ proc \in [Procs -> Descriptors]
    /\ pc \in [Procs -> PcValues] /\ call \in [Procs -> CallRecords]
    /\ expired \in [Procs -> BOOLEAN] /\ ret \in [Procs -> {"none", "OK", "PROCRUN", "TIMEDOUT"}]
    /\ taken \in [Procs -> Nat] /\ flushed \in [Procs -> BOOLEAN]

\* Where the walk of the administrator is: at the head of p_mlist, from which
\* nobody else deletes.
AdminFit ==
    /\ starts \in 0 .. MaxStarts /\ admin \in AdminRecords \cup {Idle, Wild}
    /\ Walking /\ admin.list = "send" => admin.oper = "old" /\ SendsTo[admin.xpp] # {}
    /\ Walking => admin.proc \in Migrants
    /\ Walking /\ admin.list = "migr" =>
          LET q == p_mlist[admin.proc] IN
          /\ q # <<>> /\ admin.xpp = q[1]
          /\ admin.tmp # NONE => Len(q) > 1 /\ admin.tmp = q[2]

AllGood == \A p \in Procs : Good(p)
IInv == AllGood /\ ListsFit /\ RestTyped /\ AdminFit

-----------------------------------------------------------------------------
(* Lists *)

LEMMA WithoutAt ==
    ASSUME NEW S, NEW s \in Seq(S), IsInjective(s), NEW i \in DOMAIN s, NEW t, t = Without(s, s[i])
    PROVE  /\ t \in Seq(S) /\ Len(t) = Len(s) - 1
           /\ \A j \in 1 .. Len(s) - 1 : t[j] = IF j < i THEN s[j] ELSE s[j + 1]
<1> DEFINE n == Len(s)
<1>1. n \in Nat /\ i \in 1 .. n /\ DOMAIN s = 1 .. n
  OBVIOUS
<1>2. t = RemoveAt(s, i)
  <2>1. (CHOOSE k \in DOMAIN s : s[k] = s[i]) = i
    BY DEF IsInjective
  <2>2. QED
    BY <2>1 DEF Without, Range
<1> DEFINE a == SubSeq(s, 1, i - 1)
           b == SubSeq(s, i + 1, Len(s))
<1>3. /\ a \in Seq(S) /\ b \in Seq(S) /\ Len(a) = i - 1 /\ Len(b) = n - i
  BY <1>1, SubSeqProperties
<1>4. /\ \A j \in 1 .. i - 1 : a[j] = s[j]
      /\ \A j \in 1 .. n - i : b[j] = s[i + j]
  BY <1>1
<1>5. t = a \o b
  BY <1>2 DEF RemoveAt
<1> HIDE DEF a, b
<1>6. /\ a \o b \in Seq(S) /\ Len(a \o b) = Len(a) + Len(b)
      /\ \A j \in 1 .. Len(a) + Len(b) :
            (a \o b)[j] = IF j <= Len(a) THEN a[j] ELSE b[j - Len(a)]
  BY <1>3, ConcatProperties
<1> HIDE DEF n
<1>7. ASSUME NEW j \in 1 .. n - 1
      PROVE  (a \o b)[j] = IF j < i THEN s[j] ELSE s[j + 1]
  <2>1. j \in 1 .. Len(a) + Len(b)
    BY <1>1, <1>3
  <2>2. CASE j < i
    BY <1>1, <1>3, <1>4, <1>6, <2>1, <2>2
  <2>3. CASE ~(j < i)
    <3>1. j - (i - 1) \in 1 .. n - i /\ i + (j - (i - 1)) = j + 1 /\ ~(j <= i - 1)
      BY <1>1, <2>3
    <3>2. QED
      BY <1>3, <1>4, <1>6, <2>1, <2>3, <3>1
  <2>4. QED
    BY <2>2, <2>3
<1>8. Len(a) + Len(b) = n - 1
  BY <1>1, <1>3
<1>9. QED
  BY <1>5, <1>6, <1>7, <1>8 DEF n

LEMMA WithoutExact ==
    ASSUME NEW S, NEW s \in Seq(S), IsInjective(s), NEW p
    PROVE  /\ Without(s, p) \in Seq(S) /\ IsInjective(Without(s, p))
           /\ Range(Without(s, p)) = Range(s) \ {p}
<1>1. CASE p \notin Range(s)
  BY <1>1 DEF Without
<1>2. CASE p \in Range(s)
  <2>1. PICK i \in DOMAIN s : s[i] = p
    BY <1>2 DEF Range
  <2>2. PICK t : t = Without(s, p)
    OBVIOUS
  <2>3. PICK n : n = Len(s)
    OBVIOUS
  <2>4. /\ t \in Seq(S) /\ Len(t) = n - 1
        /\ \A j \in 1 .. n - 1 : t[j] = IF j < i THEN s[j] ELSE s[j + 1]
    BY <2>1, <2>2, <2>3, WithoutAt
  <2>5. n \in Nat /\ DOMAIN t = 1 .. n - 1 /\ DOMAIN s = 1 .. n /\ i \in 1 .. n
    BY <2>1, <2>3, <2>4
  <2>6. \A a, b \in 1 .. n : s[a] = s[b] => a = b
    BY <2>5 DEF IsInjective
  <2>7. \A a, b \in 1 .. n - 1 : t[a] = t[b] => a = b
    <3> SUFFICES ASSUME NEW a \in 1 .. n - 1, NEW b \in 1 .. n - 1, t[a] = t[b] PROVE a = b
      OBVIOUS
    <3>1. PICK k, m : /\ k = IF a < i THEN a ELSE a + 1
                      /\ m = IF b < i THEN b ELSE b + 1
      OBVIOUS
    <3>2. k \in 1 .. n /\ m \in 1 .. n /\ t[a] = s[k] /\ t[b] = s[m]
      BY <2>4, <2>5, <3>1
    <3>3. k = m
      BY <2>6, <3>2
    <3>4. QED
      BY <2>5, <3>1, <3>3
  <2>8. ASSUME NEW x \in Range(t) PROVE x \in Range(s) \ {p}
    <3>1. PICK j \in 1 .. n - 1 : x = t[j]
      BY <2>5 DEF Range
    <3>2. PICK k \in 1 .. n : x = s[k] /\ k # i
      BY <2>4, <2>5, <3>1
    <3>3. QED
      BY <2>1, <2>5, <2>6, <3>2 DEF Range
  <2>9. ASSUME NEW x \in Range(s) \ {p} PROVE x \in Range(t)
    <3>1. PICK k \in 1 .. n : x = s[k]
      BY <2>5 DEF Range
    <3>2. k # i
      BY <2>1, <2>9, <3>1
    <3>3. PICK j \in 1 .. n - 1 : x = t[j]
      <4>1. CASE k < i
        <5>1. k \in 1 .. n - 1
          BY <2>5, <4>1
        <5>2. QED
          BY <2>4, <3>1, <4>1, <5>1
      <4>2. CASE k > i
        <5>1. k - 1 \in 1 .. n - 1 /\ ~(k - 1 < i) /\ k - 1 + 1 = k
          BY <2>5, <4>2
        <5>2. QED
          BY <2>4, <3>1, <5>1
      <4>3. QED
        BY <2>5, <3>2, <4>1, <4>2
    <3>4. QED
      BY <2>5, <3>3 DEF Range
  <2>10. IsInjective(t)
    BY <2>5, <2>7 DEF IsInjective
  <2>11. QED
    BY <2>2, <2>4, <2>8, <2>9, <2>10
<1>3. QED
  BY <1>1, <1>2

\* The first entry goes.
LEMMA WithoutHead ==
    ASSUME NEW S, NEW s \in Seq(S), IsInjective(s), s # <<>>, NEW t, t = Without(s, s[1])
    PROVE  Len(t) = Len(s) - 1 /\ \A j \in 1 .. Len(s) - 1 : t[j] = s[j + 1]
<1>1. 1 \in DOMAIN s
  BY EmptySeq, LenProperties
<1>2. Len(s) \in Nat
  OBVIOUS
<1>3. PICK n : n = Len(s)
  OBVIOUS
<1>4. Len(t) = n - 1 /\ \A j \in 1 .. n - 1 : t[j] = IF j < 1 THEN s[j] ELSE s[j + 1]
  BY <1>1, <1>3, WithoutAt
<1>5. QED
  BY <1>2, <1>3, <1>4

LEMMA TailIsWithout ==
    ASSUME NEW S, NEW s \in Seq(S), IsInjective(s), s # <<>>
    PROVE  /\ Tail(s) \in Seq(S) /\ IsInjective(Tail(s)) /\ Range(Tail(s)) = Range(s) \ {Head(s)}
           /\ Head(s) \in Range(s)
<1>1. PICK t : t = Without(s, s[1])
  OBVIOUS
<1>2. t \in Seq(S) /\ Len(t) = Len(s) - 1 /\ \A j \in 1 .. Len(s) - 1 : t[j] = s[j + 1]
  BY <1>1, WithoutHead, WithoutExact
<1>3. /\ Tail(s) \in Seq(S) /\ Len(Tail(s)) = Len(s) - 1 /\ Head(s) = s[1]
      /\ \A j \in 1 .. Len(Tail(s)) : Tail(s)[j] = s[j + 1]
  BY HeadTailProperties
<1>4. Tail(s) = t
  BY <1>2, <1>3, SeqEqual
<1>5. 1 \in DOMAIN s
  BY EmptySeq, LenProperties
<1>6. Head(s) \in Range(s)
  BY <1>3, <1>5 DEF Range
<1>7. IsInjective(t) /\ Range(t) = Range(s) \ {s[1]}
  BY <1>1, WithoutExact
<1>8. QED
  BY <1>2, <1>3, <1>4, <1>6, <1>7

LEMMA AppendExact ==
    ASSUME NEW S, NEW s \in Seq(S), IsInjective(s), NEW p \in S, p \notin Range(s)
    PROVE  /\ Append(s, p) \in Seq(S) /\ IsInjective(Append(s, p))
           /\ Range(Append(s, p)) = Range(s) \cup {p}
<1> DEFINE t == Append(s, p)
           n == Len(s)
<1>1. /\ n \in Nat /\ DOMAIN s = 1 .. n /\ DOMAIN t = 1 .. n + 1 /\ t[n + 1] = p
      /\ \A i \in 1 .. n : t[i] = s[i]
      /\ t \in Seq(S)
  BY AppendProperties
<1> HIDE DEF t, n
<1>2. IsInjective(t)
  <2>1. \A i \in 1 .. n : s[i] # p
    BY <1>1 DEF Range
  <2>2. \A a, b \in 1 .. n + 1 : t[a] = t[b] => a = b
    BY <1>1, <2>1 DEF IsInjective
  <2>3. QED
    BY <1>1, <2>2 DEF IsInjective
<1>3. Range(t) = Range(s) \cup {p}
  <2>1. \A i \in 1 .. n + 1 : i \in 1 .. n \/ i = n + 1
    BY <1>1
  <2>2. Range(t) \subseteq Range(s) \cup {p}
    BY <1>1, <2>1 DEF Range
  <2>3. n + 1 \in DOMAIN t /\ \A i \in DOMAIN s : i \in DOMAIN t
    BY <1>1
  <2>4. Range(s) \cup {p} \subseteq Range(t)
    BY <1>1, <2>3 DEF Range
  <2>5. QED
    BY <2>2, <2>4
<1>4. QED
  BY <1>1, <1>2, <1>3 DEF t

LEMMA EmptyExact == IsInjective(<<>>) /\ Range(<<>>) = {}
BY DEF IsInjective, Range

-----------------------------------------------------------------------------
(* What the operations do to a descriptor *)

LEMMA SetFields ==
    ASSUME NEW d \in Descriptors, NEW bit \in RtsFlags, NEW e, e = Set(d, bit)
    PROVE  /\ e \in Descriptors /\ e.rts = d.rts \cup {bit} /\ e.misc = d.misc
           /\ e.nodeid = d.nodeid /\ e.sendto = d.sendto /\ e.waitmigr = d.waitmigr
           /\ e.sem = d.sem /\ e.rcode = d.rcode
BY DEF Descriptors, Set

LEMMA ClearFields ==
    ASSUME NEW d \in Descriptors, NEW bits, NEW e, e = Clear(d, bits)
    PROVE  /\ e \in Descriptors /\ e.rts = d.rts \ bits /\ e.misc = d.misc
           /\ e.nodeid = d.nodeid /\ e.sendto = d.sendto /\ e.waitmigr = d.waitmigr
           /\ e.sem = d.sem /\ e.rcode = d.rcode
BY DEF Descriptors, Clear

LEMMA EndSendFields ==
    ASSUME NEW d \in Descriptors, NEW e, e = EndSend(d)
    PROVE  /\ e \in Descriptors /\ e.rts = d.rts \ {"SENDING"} /\ e.misc = d.misc
           /\ e.nodeid = d.nodeid /\ e.sendto = NONE /\ e.waitmigr = d.waitmigr
           /\ e.sem = d.sem /\ e.rcode = d.rcode
BY DEF Descriptors, EndSend, Clear

LEMMA UnwaitFields ==
    ASSUME NEW d \in Descriptors, NEW e, e = [Clear(d, {"WAITMIGR"}) EXCEPT !.waitmigr = NONE]
    PROVE  /\ e \in Descriptors /\ e.rts = d.rts \ {"WAITMIGR"} /\ e.misc = d.misc
           /\ e.nodeid = d.nodeid /\ e.sendto = d.sendto /\ e.waitmigr = NONE
           /\ e.sem = d.sem /\ e.rcode = d.rcode
BY DEF Descriptors, Clear

LEMMA NeedFields ==
    ASSUME NEW d \in Descriptors, NEW e, e = NeedToMigrate(d)
    PROVE  /\ e \in Descriptors /\ e.misc = d.misc \ {"NEEDMIGR"}
           /\ e.rts = IF "NEEDMIGR" \in d.misc THEN d.rts \cup {"MIGRATE"} ELSE d.rts
           /\ e.nodeid = d.nodeid /\ e.sendto = d.sendto /\ e.waitmigr = d.waitmigr
           /\ e.sem = d.sem /\ e.rcode = d.rcode
<1>1. CASE "NEEDMIGR" \in d.misc
  BY <1>1 DEF Descriptors, NeedToMigrate, RtsFlags
<1>2. CASE "NEEDMIGR" \notin d.misc
  BY <1>2 DEF Descriptors, NeedToMigrate
<1>3. QED
  BY <1>1, <1>2

LEMMA DownFields ==
    ASSUME NEW d \in Descriptors, NEW e, e = Down(d)
    PROVE  /\ e \in Descriptors /\ e.rts = d.rts /\ e.misc = d.misc
           /\ e.nodeid = d.nodeid /\ e.sendto = d.sendto /\ e.waitmigr = d.waitmigr
           /\ e.sem = -1 /\ e.rcode = "OK"
<1>1. PICK k : k = -1
  OBVIOUS
<1>2. k \in -1 .. 2 /\ e = [d EXCEPT !.sem = k, !.rcode = "OK"]
  BY <1>1 DEF Down
<1>3. /\ e \in Descriptors /\ e.rts = d.rts /\ e.misc = d.misc
      /\ e.nodeid = d.nodeid /\ e.sendto = d.sendto /\ e.waitmigr = d.waitmigr
      /\ e.sem = k /\ e.rcode = "OK"
  BY <1>2 DEF Descriptors
<1>4. QED
  BY <1>1, <1>3

LEMMA WakeFields ==
    ASSUME NEW d \in Descriptors, d.rts = {} => d.sem <= 1, NEW rc \in {"OK", "MIGRATE"},
           NEW e, e = Wake(d, rc)
    PROVE  /\ e \in Descriptors /\ e.rts = d.rts /\ e.misc = d.misc
           /\ e.nodeid = d.nodeid /\ e.sendto = d.sendto /\ e.waitmigr = d.waitmigr
           /\ d.rts # {} => e.sem = d.sem /\ e.rcode = d.rcode
           /\ d.rts = {} => e.sem = d.sem + 1 /\ e.rcode = rc
<1>1. CASE d.rts # {}
  BY <1>1 DEF Wake
<1>2. CASE d.rts = {}
  <2>1. PICK k : k = d.sem + 1
    OBVIOUS
  <2>2. k \in -1 .. 2
    BY <1>2, <2>1 DEF Descriptors
  <2>3. e = [d EXCEPT !.rcode = rc, !.sem = k]
    BY <1>2, <2>1 DEF Wake
  <2>4. /\ e \in Descriptors /\ e.rts = d.rts /\ e.misc = d.misc
        /\ e.nodeid = d.nodeid /\ e.sendto = d.sendto /\ e.waitmigr = d.waitmigr
        /\ e.sem = k /\ e.rcode = rc
    BY <2>2, <2>3 DEF Descriptors
  <2>5. QED
    BY <1>2, <2>1, <2>4
<1>3. QED
  BY <1>1, <1>2

LEMMA UpFields ==
    ASSUME NEW p \in Procs, proc[p] \in Descriptors, NEW e, e = Up(p),
           NEW d, d = proc[p], NEW rc, rc = Result(p)
    PROVE  /\ e \in Descriptors /\ e.misc = d.misc \ {"NEEDMIGR"}
           /\ e.rts = IF "NEEDMIGR" \in d.misc THEN d.rts \cup {"MIGRATE"} ELSE d.rts
           /\ e.nodeid = d.nodeid /\ e.sendto = d.sendto /\ e.waitmigr = d.waitmigr
           /\ e.sem = (IF rc # "OK" /\ d.sem < 0 THEN 0 ELSE d.sem) /\ e.rcode = rc
           /\ rc \in {"OK", "MIGRATE", "TIMEDOUT"}
<1>1. rc \in {"OK", "MIGRATE", "TIMEDOUT"}
  BY DEF Result, Descriptors
<1>2. PICK k : k = IF rc # "OK" /\ d.sem < 0 THEN 0 ELSE d.sem
  OBVIOUS
<1>3. d.sem < 0 => d.sem + 1 = 0
  BY DEF Descriptors
<1>4. k \in -1 .. 2 /\ k = IF rc # "OK" /\ d.sem < 0 THEN d.sem + 1 ELSE d.sem
  BY <1>2, <1>3 DEF Descriptors
<1>5. PICK g : g = [d EXCEPT !.rcode = rc, !.sem = k]
  OBVIOUS
<1>6. /\ g \in Descriptors /\ g.rts = d.rts /\ g.misc = d.misc
      /\ g.nodeid = d.nodeid /\ g.sendto = d.sendto /\ g.waitmigr = d.waitmigr
      /\ g.sem = k /\ g.rcode = rc
  BY <1>1, <1>4, <1>5 DEF Descriptors
<1>7. e = NeedToMigrate(g)
  BY <1>4, <1>5 DEF Up
<1>8. /\ e \in Descriptors /\ e.misc = g.misc \ {"NEEDMIGR"}
      /\ e.rts = IF "NEEDMIGR" \in g.misc THEN g.rts \cup {"MIGRATE"} ELSE g.rts
      /\ e.nodeid = g.nodeid /\ e.sendto = g.sendto /\ e.waitmigr = g.waitmigr
      /\ e.sem = g.sem /\ e.rcode = g.rcode
  <2>1. g \in Descriptors
    BY <1>6
  <2>2. QED
    BY <1>7, <2>1, NeedFields
<1>9. QED
  BY <1>1, <1>2, <1>6, <1>8

-----------------------------------------------------------------------------
(* What a step leaves alone *)

LEMMA GotoTyped ==
    ASSUME RestTyped, NEW p \in Procs, NEW l \in PcValues, Goto(p, l)
    PROVE  /\ pc' \in [Procs -> PcValues] /\ expired' \in [Procs -> BOOLEAN]
           /\ pc'[p] = l /\ expired'[p] = FALSE
           /\ \A q \in Procs \ {p} : pc'[q] = pc[q] /\ expired'[q] = expired[q]
BY DEF RestTyped, Goto

LEMMA ReturnTyped ==
    ASSUME RestTyped, NEW p \in Procs, NEW rc \in {"OK", "PROCRUN", "TIMEDOUT"}, Return(p, rc)
    PROVE  /\ pc' \in [Procs -> PcValues] /\ expired' \in [Procs -> BOOLEAN]
           /\ ret' \in [Procs -> {"none", "OK", "PROCRUN", "TIMEDOUT"}]
           /\ call' \in [Procs -> CallRecords]
           /\ pc'[p] = "user" /\ expired'[p] = FALSE /\ ret'[p] = rc
           /\ \A q \in Procs \ {p} : /\ pc'[q] = pc[q] /\ expired'[q] = expired[q]
                                     /\ ret'[q] = ret[q] /\ call'[q] = call[q]
<1>1. "user" \in PcValues /\ NoCall \in CallRecords
  BY DEF PcValues, NoCall, CallRecords
<1>2. Goto(p, "user") /\ ret' = [ret EXCEPT ![p] = rc] /\ call' = [call EXCEPT ![p] = NoCall]
  BY DEF Return
<1>3. /\ pc' \in [Procs -> PcValues] /\ expired' \in [Procs -> BOOLEAN]
      /\ pc'[p] = "user" /\ expired'[p] = FALSE
      /\ \A q \in Procs \ {p} : pc'[q] = pc[q] /\ expired'[q] = expired[q]
  BY <1>1, <1>2, GotoTyped
<1>4. /\ ret' \in [Procs -> {"none", "OK", "PROCRUN", "TIMEDOUT"}] /\ ret'[p] = rc
      /\ call' \in [Procs -> CallRecords]
      /\ \A q \in Procs \ {p} : ret'[q] = ret[q] /\ call'[q] = call[q]
  BY <1>1, <1>2 DEF RestTyped
<1>5. QED
  BY <1>3, <1>4

\* Others keep their place; their descriptors may be told the end of a wait.
Others(p) ==
    \A q \in Procs \ {p} :
        /\ pc'[q] = pc[q] /\ call'[q] = call[q] /\ ret'[q] = ret[q]
        /\ expired'[q] => expired[q]
        /\ \/ proc'[q] = proc[q] /\ taken'[q] = taken[q] /\ flushed'[q] = flushed[q]
           \/ /\ Fit(q, proc'[q], pc[q], Hit(q)', Rolls(q)')
              /\ Sent(q, proc'[q], pc[q], ret[q], taken'[q], flushed'[q])
Own(p) == Good(p)
MlistGrows(p) ==
    \A d \in Procs : \/ p_mlist'[d] = p_mlist[d]
                     \/ p \notin Range(p_mlist[d]) /\ p_mlist'[d] = Append(p_mlist[d], p)

LEMMA AdminKept ==
    ASSUME IInv, UNCHANGED office, NEW p \in Procs, MlistGrows(p)
    PROVE  AdminFit'
<1>1. starts' \in 0 .. MaxStarts /\ admin' \in AdminRecords \cup {Idle, Wild}
  BY DEF IInv, AdminFit, office
<1>2. /\ Walking' = Walking /\ admin' = admin
      /\ Walking /\ admin.list = "send" => admin.oper = "old" /\ SendsTo[admin.xpp] # {}
      /\ Walking => admin.proc \in Migrants
  BY DEF IInv, AdminFit, office, Walking
<1>3. ASSUME Walking, admin.list = "migr"
      PROVE  LET q == p_mlist'[admin.proc] IN
             /\ q # <<>> /\ admin.xpp = q[1]
             /\ admin.tmp # NONE => Len(q) > 1 /\ admin.tmp = q[2]
  <2>1. PICK t, s, u : t = admin.proc /\ s = p_mlist[t] /\ u = p_mlist'[t]
    OBVIOUS
  <2>2. /\ t \in Procs /\ s \in Seq(Procs) /\ IsInjective(s)
        /\ s # <<>> /\ admin.xpp = s[1]
        /\ admin.tmp # NONE => Len(s) > 1 /\ admin.tmp = s[2]
    BY <1>2, <1>3, <2>1, CallsAssumption DEF IInv, AdminFit, ListsFit, ListsTyped, LinkedOnce
  <2>3. CASE u = s
    BY <2>1, <2>2, <2>3
  <2>4. CASE p \notin Range(s) /\ u = Append(s, p)
    <3>1. /\ Len(u) = Len(s) + 1 /\ u # <<>>
          /\ \A i \in 1 .. Len(s) : u[i] = s[i]
      BY <2>2, <2>4, AppendProperties
    <3>2. Len(s) \in Nat /\ Len(s) # 0
      BY <2>2, EmptySeq, LenProperties
    <3>3. u[1] = s[1] /\ (Len(s) > 1 => u[2] = s[2])
      BY <3>1, <3>2
    <3>4. QED
      BY <2>1, <2>2, <3>1, <3>2, <3>3
  <2>5. QED
    BY <2>1, <2>2, <2>3, <2>4 DEF MlistGrows
<1>4. QED
  BY <1>1, <1>2, <1>3 DEF AdminFit

LEMMA StepKeeps ==
    ASSUME IInv, NEW p \in Procs, UNCHANGED office, RestTyped', ListsFit', Own(p)', Others(p),
           MlistGrows(p)
    PROVE  IInv'
<1>1. AdminFit'
  BY AdminKept
<1>2. ASSUME NEW q \in Procs, q # p PROVE Good(q)'
  <2>1. Good(q) /\ Hit(q)' = Hit(q) /\ Rolls(q)' = Rolls(q)
    BY DEF IInv, AllGood, Hit, Rolls, Walking, office
  <2>2. pc'[q] = pc[q] /\ call'[q] = call[q] /\ ret'[q] = ret[q] /\ (expired'[q] => expired[q])
    BY <1>2 DEF Others
  <2>3. /\ Fit(q, proc'[q], pc[q], Hit(q)', Rolls(q)')
        /\ Sent(q, proc'[q], pc[q], ret[q], taken'[q], flushed'[q])
    BY <1>2, <2>1 DEF Others, Good
  <2>4. QED
    BY <2>1, <2>2, <2>3 DEF Good
<1>3. QED
  BY <1>1, <1>2 DEF IInv, AllGood, Own

\* What the lists stand for.
StillWaits(q) ==
    /\ "WAITMIGR" \in proc'[q].rts <=> "WAITMIGR" \in proc[q].rts
    /\ "WAITMIGR" \in proc[q].rts => proc'[q].waitmigr = proc[q].waitmigr
StillSends(q) ==
    "SENDING" \in proc[q].rts => "SENDING" \in proc'[q].rts /\ proc'[q].sendto = proc[q].sendto

LEMMA SameLists ==
    ASSUME ListsFit, UNCHANGED lists, \A q \in Procs : StillWaits(q) /\ StillSends(q)
    PROVE  ListsFit'
BY DEF ListsFit, ListsTyped, WaitsExact, SendsLinked, LinkedOnce, lists, StillWaits, StillSends

LEMMA MlistAppended ==
    ASSUME ListsFit, NEW p \in Procs, NEW d \in Procs, UNCHANGED p_list,
           p_mlist' = [p_mlist EXCEPT ![d] = Append(@, p)],
           "WAITMIGR" \notin proc[p].rts, "WAITMIGR" \in proc'[p].rts, proc'[p].waitmigr = d,
           \A q \in Procs : StillSends(q), \A q \in Procs \ {p} : StillWaits(q)
    PROVE  ListsFit' /\ MlistGrows(p)
<1>1. \A e \in Procs : p \notin Range(p_mlist[e])
  BY DEF ListsFit, WaitsExact, SendsLinked
<1>2. PICK u : u = Append(p_mlist[d], p)
  OBVIOUS
<1>3. u \in Seq(Procs) /\ IsInjective(u) /\ Range(u) = Range(p_mlist[d]) \cup {p}
  <2>1. PICK s : s = p_mlist[d]
    OBVIOUS
  <2>2. s \in Seq(Procs) /\ IsInjective(s) /\ p \notin Range(s) /\ u = Append(s, p)
    BY <1>1, <1>2, <2>1 DEF ListsFit, ListsTyped, LinkedOnce
  <2>3. u \in Seq(Procs) /\ IsInjective(u) /\ Range(u) = Range(s) \cup {p}
    BY <2>2, AppendExact
  <2>4. QED
    BY <2>1, <2>3
<1>4. /\ p_mlist' \in [Procs -> Seq(Procs)] /\ p_mlist'[d] = u
      /\ \A e \in Procs \ {d} : p_mlist'[e] = p_mlist[e]
  BY <1>2, <1>3 DEF ListsFit, ListsTyped
<1>5. ASSUME NEW q \in Procs, NEW e \in Procs
      PROVE  q \in Range(p_mlist'[e]) <=> "WAITMIGR" \in proc'[q].rts /\ proc'[q].waitmigr = e
  <2>1. q \in Range(p_mlist[e]) <=> "WAITMIGR" \in proc[q].rts /\ proc[q].waitmigr = e
    BY DEF ListsFit, WaitsExact, SendsLinked
  <2>2. CASE q # p
    BY <1>3, <1>4, <2>1, <2>2 DEF StillWaits
  <2>3. CASE q = p
    BY <1>1, <1>3, <1>4, <2>3
  <2>4. QED
    BY <2>2, <2>3
<1>6. \A e \in Procs : IsInjective(p_mlist'[e])
  BY <1>3, <1>4 DEF ListsFit, LinkedOnce
<1>7. SendsLinked'
  BY DEF ListsFit, SendsLinked, StillSends
<1>8. ListsFit'
  BY <1>4, <1>5, <1>6, <1>7 DEF ListsFit, ListsTyped, WaitsExact, LinkedOnce
<1>9. MlistGrows(p)
  BY <1>1, <1>2, <1>4 DEF MlistGrows
<1>10. QED
  BY <1>8, <1>9

LEMMA ListAppended ==
    ASSUME ListsFit, NEW p \in Procs, NEW d \in Procs, UNCHANGED p_mlist,
           p_list' = [p_list EXCEPT ![d] = Append(@, p)],
           "SENDING" \notin proc[p].rts, "SENDING" \in proc'[p].rts, proc'[p].sendto = d,
           \A q \in Procs : StillWaits(q), \A q \in Procs \ {p} : StillSends(q)
    PROVE  ListsFit'
<1>1. \A e \in Procs : p \notin Range(p_list[e])
  BY DEF ListsFit, WaitsExact, SendsLinked
<1>2. PICK u : u = Append(p_list[d], p)
  OBVIOUS
<1>3. u \in Seq(Procs) /\ IsInjective(u) /\ Range(u) = Range(p_list[d]) \cup {p}
  <2>1. PICK s : s = p_list[d]
    OBVIOUS
  <2>2. s \in Seq(Procs) /\ IsInjective(s) /\ p \notin Range(s) /\ u = Append(s, p)
    BY <1>1, <1>2, <2>1 DEF ListsFit, ListsTyped, LinkedOnce
  <2>3. u \in Seq(Procs) /\ IsInjective(u) /\ Range(u) = Range(s) \cup {p}
    BY <2>2, AppendExact
  <2>4. QED
    BY <2>1, <2>3
<1>4. /\ p_list' \in [Procs -> Seq(Procs)] /\ p_list'[d] = u
      /\ \A e \in Procs \ {d} : p_list'[e] = p_list[e]
  BY <1>2, <1>3 DEF ListsFit, ListsTyped
<1>5. ASSUME NEW q \in Procs, NEW e \in Procs, q \in Range(p_list'[e])
      PROVE  "SENDING" \in proc'[q].rts /\ proc'[q].sendto = e
  <2>1. q \in Range(p_list[e]) => "SENDING" \in proc[q].rts /\ proc[q].sendto = e
    BY DEF ListsFit, WaitsExact, SendsLinked
  <2>2. CASE q # p
    BY <1>3, <1>4, <1>5, <2>1, <2>2 DEF StillSends
  <2>3. CASE q = p
    BY <1>1, <1>3, <1>4, <1>5, <2>3
  <2>4. QED
    BY <2>2, <2>3
<1>6. \A e \in Procs : IsInjective(p_list'[e])
  BY <1>3, <1>4 DEF ListsFit, LinkedOnce
<1>7. WaitsExact'
  BY DEF ListsFit, WaitsExact, StillWaits
<1>8. QED
  BY <1>4, <1>5, <1>6, <1>7 DEF ListsFit, ListsTyped, SendsLinked, LinkedOnce

LEMMA ListDropped ==
    ASSUME ListsFit, UNCHANGED p_mlist, NEW x \in Procs, p_list' \in [Procs -> Seq(Procs)],
           \A d \in Procs : /\ IsInjective(p_list'[d]) /\ x \notin Range(p_list'[d])
                            /\ Range(p_list'[d]) \subseteq Range(p_list[d]),
           \A q \in Procs : StillWaits(q), \A q \in Procs \ {x} : StillSends(q)
    PROVE  ListsFit'
<1>1. ASSUME NEW q \in Procs, NEW e \in Procs, q \in Range(p_list'[e])
      PROVE  "SENDING" \in proc'[q].rts /\ proc'[q].sendto = e
  <2>1. q \in Range(p_list[e]) /\ q # x
    BY <1>1
  <2>2. "SENDING" \in proc[q].rts /\ proc[q].sendto = e
    BY <2>1 DEF ListsFit, WaitsExact, SendsLinked
  <2>3. QED
    BY <2>1, <2>2 DEF StillSends
<1>2. WaitsExact'
  BY DEF ListsFit, WaitsExact, StillWaits
<1>3. ListsTyped' /\ LinkedOnce'
  BY DEF ListsFit, ListsTyped, LinkedOnce
<1>4. QED
  BY <1>1, <1>2, <1>3 DEF ListsFit, SendsLinked

-----------------------------------------------------------------------------
(* A step of a thread, once more *)

LEMMA Its ==
    ASSUME IInv, NEW p \in Procs
    PROVE  /\ proc[p] \in Descriptors /\ Fit(p, proc[p], pc[p], Hit(p), Rolls(p))
           /\ Called(p, call[p], pc[p])
           /\ Sent(p, proc[p], pc[p], ret[p], taken[p], flushed[p])
           /\ expired[p] => pc[p] \in {"migrating", "sending", "receiving"}
BY DEF IInv, AllGood, Good, RestTyped

LEMMA Lands ==
    ASSUME IInv, NEW p \in Procs, UNCHANGED office, RestTyped', ListsFit', MlistGrows(p), Others(p),
           expired'[p] = FALSE, Fit(p, proc'[p], pc'[p], Hit(p), Rolls(p)),
           Called(p, call'[p], pc'[p]), Sent(p, proc'[p], pc'[p], ret'[p], taken'[p], flushed'[p])
    PROVE  IInv'
<1>1. Hit(p)' = Hit(p) /\ Rolls(p)' = Rolls(p)
  BY DEF Hit, Rolls, Walking, office
<1>2. Own(p)'
  BY <1>1 DEF Own, Good
<1>3. QED
  BY <1>2, StepKeeps

\* Nobody else is touched.
LEMMA Alone ==
    ASSUME NEW p \in Procs,
           \A q \in Procs \ {p} :
              /\ proc'[q] = proc[q] /\ pc'[q] = pc[q] /\ call'[q] = call[q] /\ ret'[q] = ret[q]
              /\ expired'[q] = expired[q] /\ taken'[q] = taken[q] /\ flushed'[q] = flushed[q]
    PROVE  Others(p) /\ \A q \in Procs \ {p} : StillWaits(q) /\ StillSends(q)
BY DEF Others, StillWaits, StillSends

LEMMA MlistStays == ASSUME NEW p, UNCHANGED p_mlist PROVE MlistGrows(p)
BY DEF MlistGrows

-----------------------------------------------------------------------------
(* check_caller *)

LEMMA CheckLands ==
    ASSUME IInv, NEW p \in Procs, pc[p] = "user", NEW c \in CallOf(p),
           call' = [call EXCEPT ![p] = c], taken' = [taken EXCEPT ![p] = 0],
           flushed' = [flushed EXCEPT ![p] = FALSE], UNCHANGED <<ret, office>>,
           NEW f \in Descriptors, NEW l \in PcValues \ {"user", "sending"}, Goto(p, l),
           proc' = [proc EXCEPT ![p] = f], Fit(p, f, l, Hit(p), Rolls(p)), Called(p, c, l),
           ListsFit', MlistGrows(p)
    PROVE  IInv'
<1>1. c \in CallRecords
  BY CallsAssumption DEF CallOf, CallRecords
<1>2. /\ pc' \in [Procs -> PcValues] /\ expired' \in [Procs -> BOOLEAN]
      /\ pc'[p] = l /\ expired'[p] = FALSE
      /\ \A q \in Procs \ {p} : pc'[q] = pc[q] /\ expired'[q] = expired[q]
  BY GotoTyped DEF IInv
<1>3. /\ proc' \in [Procs -> Descriptors] /\ call' \in [Procs -> CallRecords]
      /\ taken' \in [Procs -> Nat] /\ flushed' \in [Procs -> BOOLEAN] /\ ret' = ret
      /\ proc'[p] = f /\ call'[p] = c /\ taken'[p] = 0 /\ flushed'[p] = FALSE
      /\ \A q \in Procs \ {p} : /\ proc'[q] = proc[q] /\ call'[q] = call[q]
                                /\ taken'[q] = taken[q] /\ flushed'[q] = flushed[q]
  BY <1>1 DEF IInv, RestTyped
<1>4. RestTyped'
  BY <1>2, <1>3 DEF IInv, RestTyped
<1>5. Others(p)
  BY <1>2, <1>3, Alone
<1>6. Sent(p, f, l, ret'[p], 0, FALSE)
  BY DEF Sent
<1>7. QED
  BY <1>2, <1>3, <1>4, <1>5, <1>6, Lands

LEMMA StopKeeps ==
    ASSUME IInv, NEW p \in Procs, pc[p] = "user", NEW c \in CallOf(p),
           call' = [call EXCEPT ![p] = c], taken' = [taken EXCEPT ![p] = 0],
           flushed' = [flushed EXCEPT ![p] = FALSE], UNCHANGED <<ret, office>>, Stop(p, c)
    PROVE  IInv'
<1>1. PICK d : d = proc[p]
  OBVIOUS
<1>2. PICK e : e = NeedToMigrate(d)
  OBVIOUS
<1>3. PICK f : f = Down(e)
  OBVIOUS
<1>4. /\ "MIGRATE" \in e.rts /\ "REMOTE" \notin e.rts /\ Goto(p, "stopped")
      /\ proc' = [proc EXCEPT ![p] = f] /\ UNCHANGED lists
  BY <1>1, <1>2, <1>3 DEF Stop, CheckStops
<1>5. d \in Descriptors /\ Fit(p, d, "user", Hit(p), Rolls(p))
  BY <1>1, Its
<1>6. /\ e \in Descriptors /\ e.misc = d.misc \ {"NEEDMIGR"}
      /\ e.rts = IF "NEEDMIGR" \in d.misc THEN d.rts \cup {"MIGRATE"} ELSE d.rts
      /\ e.nodeid = d.nodeid /\ e.sendto = d.sendto /\ e.waitmigr = d.waitmigr
  BY <1>2, <1>5, NeedFields
<1>7. /\ f \in Descriptors /\ f.rts = e.rts /\ f.misc = e.misc
      /\ f.nodeid = e.nodeid /\ f.sendto = e.sendto /\ f.waitmigr = e.waitmigr
      /\ f.sem = -1 /\ f.rcode = "OK"
  BY <1>3, <1>6, DownFields
<1>8. SendsTo[p] = {}
  BY <1>4, <1>5, <1>6 DEF Fit, Sender, SenderFlags
<1>9. Receiver(p, d, "user", Rolls(p))
  BY <1>5, <1>8 DEF Fit
<1>10. Receiver(p, f, "stopped", Rolls(p))
  BY <1>4, <1>6, <1>7, <1>9 DEF Receiver, Image
<1>11. Called(p, c, "stopped")
  BY <1>8 DEF Called, CallOf
<1>12. StillWaits(p) /\ StillSends(p)
  <2>1. proc'[p] = f
    BY <1>4 DEF IInv, RestTyped
  <2>2. d.rts \subseteq {"MIGRATE", "REMOTE"} /\ f.rts \subseteq {"MIGRATE", "REMOTE"}
    BY <1>9, <1>10 DEF Receiver
  <2>3. QED
    BY <1>1, <2>1, <2>2 DEF StillWaits, StillSends
<1>13. \A q \in Procs \ {p} : StillWaits(q) /\ StillSends(q)
  BY <1>4 DEF StillWaits, StillSends, IInv, RestTyped
<1>14. ListsFit'
  BY <1>4, <1>12, <1>13, SameLists DEF IInv
<1>15. MlistGrows(p)
  BY <1>4, MlistStays DEF lists
<1>16. Fit(p, f, "stopped", Hit(p), Rolls(p)) /\ "stopped" \in PcValues \ {"user", "sending"}
  BY <1>8, <1>10 DEF Fit, PcValues
<1>17. QED
  BY <1>4, <1>7, <1>11, <1>14, <1>15, <1>16, CheckLands

LEMMA WaitAsBackupKeeps ==
    ASSUME IInv, NEW p \in Procs, pc[p] = "user", NEW c \in CallOf(p),
           call' = [call EXCEPT ![p] = c], taken' = [taken EXCEPT ![p] = 0],
           flushed' = [flushed EXCEPT ![p] = FALSE], UNCHANGED <<ret, office>>, WaitAsBackup(p, c)
    PROVE  IInv'
<1>1. PICK d : d = proc[p]
  OBVIOUS
<1>2. PICK e : e = NeedToMigrate(d)
  OBVIOUS
<1>3. PICK g : g = [Set(e, "WAITMIGR") EXCEPT !.waitmigr = p]
  OBVIOUS
<1>4. PICK f : f = Down(g)
  OBVIOUS
<1>5. /\ Image(d) /\ "REMOTE" \in d.rts /\ Goto(p, "backup") /\ proc' = [proc EXCEPT ![p] = f]
      /\ p_mlist' = [p_mlist EXCEPT ![p] = Append(@, p)] /\ UNCHANGED p_list
  BY <1>1, <1>2, <1>3, <1>4 DEF WaitAsBackup, Has, Image
<1>6. d \in Descriptors /\ Fit(p, d, "user", Hit(p), Rolls(p))
  BY <1>1, Its
<1>7. /\ e \in Descriptors /\ e.misc = d.misc \ {"NEEDMIGR"}
      /\ e.rts = IF "NEEDMIGR" \in d.misc THEN d.rts \cup {"MIGRATE"} ELSE d.rts
      /\ e.nodeid = d.nodeid
  BY <1>2, <1>6, NeedFields
<1>8. /\ g \in Descriptors /\ g.rts = e.rts \cup {"WAITMIGR"} /\ g.misc = e.misc
      /\ g.nodeid = e.nodeid /\ g.waitmigr = p
  BY <1>3, <1>7 DEF Set, Descriptors, RtsFlags
<1>9. /\ f \in Descriptors /\ f.rts = g.rts /\ f.misc = g.misc /\ f.nodeid = g.nodeid
      /\ f.waitmigr = g.waitmigr /\ f.sem = -1 /\ f.rcode = "OK"
  BY <1>4, <1>8, DownFields
<1>10. SendsTo[p] = {}
  BY <1>5, <1>6 DEF Fit, Sender, SenderFlags
<1>11. Receiver(p, d, "user", Rolls(p))
  BY <1>6, <1>10 DEF Fit
<1>12. Receiver(p, f, "backup", Rolls(p))
  BY <1>5, <1>7, <1>8, <1>9, <1>11 DEF Receiver, Image
<1>13. Called(p, c, "backup")
  BY DEF Called
<1>14. proc'[p] = f /\ \A q \in Procs \ {p} : StillWaits(q) /\ StillSends(q)
  BY <1>5 DEF IInv, RestTyped, StillWaits, StillSends
<1>15. "WAITMIGR" \notin proc[p].rts /\ "SENDING" \notin proc[p].rts
  BY <1>1, <1>11 DEF Receiver
<1>16. ListsFit' /\ MlistGrows(p)
  <2>1. StillSends(p)
    BY <1>15 DEF StillSends
  <2>2. "WAITMIGR" \in proc'[p].rts /\ proc'[p].waitmigr = p
    BY <1>8, <1>9, <1>14
  <2>3. QED
    BY <1>5, <1>14, <1>15, <2>1, <2>2, MlistAppended DEF IInv
<1>17. Fit(p, f, "backup", Hit(p), Rolls(p)) /\ "backup" \in PcValues \ {"user", "sending"}
  BY <1>10, <1>12 DEF Fit, PcValues
<1>18. QED
  BY <1>5, <1>9, <1>13, <1>16, <1>17, CheckLands

LEMMA PassKeeps ==
    ASSUME IInv, NEW p \in Procs, pc[p] = "user", NEW c \in CallOf(p),
           call' = [call EXCEPT ![p] = c], taken' = [taken EXCEPT ![p] = 0],
           flushed' = [flushed EXCEPT ![p] = FALSE], UNCHANGED <<ret, office>>, Pass(p, c)
    PROVE  IInv'
<1>1. PICK d, l : d = proc[p] /\ l = Begin(c.op)
  OBVIOUS
<1>2. /\ d.rts = {} /\ "NEEDMIGR" \notin d.misc /\ Goto(p, l)
      /\ proc' = proc /\ UNCHANGED lists
  BY <1>1 DEF Pass
<1>3. d \in Descriptors /\ Fit(p, d, "user", Hit(p), Rolls(p))
  BY <1>1, Its
<1>4. l = IF SendsTo[p] = {} THEN "scan" ELSE "enter"
  BY <1>1 DEF Begin, CallOf
<1>5. Fit(p, d, l, Hit(p), Rolls(p))
  <2>1. CASE SendsTo[p] = {}
    <3>1. Receiver(p, d, "user", Rolls(p))
      BY <1>3, <2>1 DEF Fit
    <3>2. Receiver(p, d, "scan", Rolls(p))
      BY <1>2, <3>1 DEF Receiver, Image
    <3>3. QED
      BY <1>4, <2>1, <3>2 DEF Fit
  <2>2. CASE SendsTo[p] # {}
    <3>1. Sender(d, "user", Hit(p))
      BY <1>3, <2>2 DEF Fit
    <3>2. Sender(d, "enter", Hit(p))
      BY <1>2, <3>1 DEF Sender, SenderFlags
    <3>3. QED
      BY <1>4, <2>2, <3>2 DEF Fit
  <2>3. QED
    BY <2>1, <2>2
<1>6. Called(p, c, l)
  BY <1>4 DEF Called, CallOf
<1>7. ListsFit'
  <2>1. \A q \in Procs : StillWaits(q) /\ StillSends(q)
    BY <1>2 DEF StillWaits, StillSends
  <2>2. QED
    BY <1>2, <2>1, SameLists DEF IInv
<1>8. MlistGrows(p)
  BY <1>2, MlistStays DEF lists
<1>9. proc' = [proc EXCEPT ![p] = d] /\ l \in PcValues \ {"user", "sending"}
  BY <1>1, <1>2, <1>4 DEF IInv, RestTyped, PcValues
<1>10. QED
  BY <1>2, <1>3, <1>5, <1>6, <1>7, <1>8, <1>9, CheckLands

LEMMA CheckCallerKeeps == ASSUME IInv, NEW p \in Procs, CheckCaller(p) PROVE IInv'
BY StopKeeps, WaitAsBackupKeeps, PassKeeps DEF CheckCaller

-----------------------------------------------------------------------------
(* Where a step leaves its thread *)

\* What may happen to the descriptors of others.
Touched(p) ==
    \A q \in Procs \ {p} :
        \/ proc'[q] = proc[q] /\ taken'[q] = taken[q] /\ flushed'[q] = flushed[q]
        \/ /\ Fit(q, proc'[q], pc[q], Hit(q), Rolls(q))
           /\ Sent(q, proc'[q], pc[q], ret[q], taken'[q], flushed'[q])
HistTyped == taken \in [Procs -> Nat] /\ flushed \in [Procs -> BOOLEAN]

LEMMA TouchedOthers ==
    ASSUME NEW p \in Procs, UNCHANGED office, Touched(p),
           \A q \in Procs \ {p} : /\ pc'[q] = pc[q] /\ call'[q] = call[q] /\ ret'[q] = ret[q]
                                  /\ expired'[q] = expired[q]
    PROVE  Others(p)
<1>1. \A q \in Procs : Hit(q)' = Hit(q) /\ Rolls(q)' = Rolls(q)
  BY DEF Hit, Rolls, Walking, office
<1>2. QED
  BY <1>1 DEF Touched, Others

LEMMA GotoLands ==
    ASSUME IInv, NEW p \in Procs, NEW l \in PcValues, Goto(p, l), UNCHANGED <<call, ret, office>>,
           proc' \in [Procs -> Descriptors], HistTyped', Touched(p), ListsFit', MlistGrows(p),
           Fit(p, proc'[p], l, Hit(p), Rolls(p)), Called(p, call[p], l),
           Sent(p, proc'[p], l, ret[p], taken'[p], flushed'[p])
    PROVE  IInv'
<1>1. /\ pc' \in [Procs -> PcValues] /\ expired' \in [Procs -> BOOLEAN]
      /\ pc'[p] = l /\ expired'[p] = FALSE /\ call' = call /\ ret' = ret
      /\ \A q \in Procs \ {p} : pc'[q] = pc[q] /\ expired'[q] = expired[q]
  BY GotoTyped DEF IInv
<1>2. RestTyped'
  BY <1>1 DEF IInv, RestTyped, HistTyped
<1>3. Others(p)
  BY <1>1, TouchedOthers
<1>4. QED
  BY <1>1, <1>2, <1>3, Lands

LEMMA ReturnLands ==
    ASSUME IInv, NEW p \in Procs, NEW rc \in {"OK", "PROCRUN", "TIMEDOUT"}, Return(p, rc),
           UNCHANGED office, proc' \in [Procs -> Descriptors], HistTyped', Touched(p),
           ListsFit', MlistGrows(p), Fit(p, proc'[p], "user", Hit(p), Rolls(p)),
           Sent(p, proc'[p], "user", rc, taken'[p], flushed'[p])
    PROVE  IInv'
<1>1. /\ pc' \in [Procs -> PcValues] /\ expired' \in [Procs -> BOOLEAN]
      /\ ret' \in [Procs -> {"none", "OK", "PROCRUN", "TIMEDOUT"}]
      /\ call' \in [Procs -> CallRecords]
      /\ pc'[p] = "user" /\ expired'[p] = FALSE /\ ret'[p] = rc
      /\ \A q \in Procs \ {p} : /\ pc'[q] = pc[q] /\ expired'[q] = expired[q]
                                /\ ret'[q] = ret[q] /\ call'[q] = call[q]
  BY ReturnTyped DEF IInv
<1>2. RestTyped'
  BY <1>1 DEF RestTyped, HistTyped
<1>3. Others(p)
  BY <1>1, TouchedOthers
<1>4. Called(p, call'[p], "user")
  BY DEF Called
<1>5. QED
  BY <1>1, <1>2, <1>3, <1>4, Lands

\* Only the descriptor of the thread changes.
LEMMA OneDescriptor ==
    ASSUME IInv, NEW p \in Procs, NEW f \in Descriptors, proc' = [proc EXCEPT ![p] = f],
           UNCHANGED hist
    PROVE  /\ proc' \in [Procs -> Descriptors] /\ HistTyped' /\ Touched(p) /\ proc'[p] = f
           /\ taken'[p] = taken[p] /\ flushed'[p] = flushed[p]
           /\ \A q \in Procs \ {p} : StillWaits(q) /\ StillSends(q)
<1>1. /\ proc' \in [Procs -> Descriptors] /\ proc'[p] = f
      /\ \A q \in Procs \ {p} : proc'[q] = proc[q]
  BY DEF IInv, RestTyped
<1>2. taken' = taken /\ flushed' = flushed /\ HistTyped'
  BY DEF hist, HistTyped, IInv, RestTyped
<1>3. QED
  BY <1>1, <1>2 DEF Touched, StillWaits, StillSends

LEMMA ListsRemain ==
    ASSUME IInv, NEW p \in Procs, UNCHANGED lists, StillWaits(p), StillSends(p),
           \A q \in Procs \ {p} : StillWaits(q) /\ StillSends(q)
    PROVE  ListsFit' /\ MlistGrows(p)
BY SameLists, MlistStays DEF IInv, lists

LEMMA Plain ==
    ASSUME NEW p, {"WAITMIGR", "SENDING"} \cap (proc[p].rts \cup proc'[p].rts) = {}
    PROVE  StillWaits(p) /\ StillSends(p)
BY DEF StillWaits, StillSends

-----------------------------------------------------------------------------
(* The end of the stop in check_caller, and new_mini_receive *)

LEMMA ResumeKeeps == ASSUME IInv, NEW p \in Procs, Resume(p) PROVE IInv'
<1>1. PICK d, f, rc : d = proc[p] /\ f = Up(p) /\ rc = Result(p)
  OBVIOUS
<1>2. /\ pc[p] = "stopped" /\ (d.sem >= 0 \/ expired[p]) /\ proc' = [proc EXCEPT ![p] = f]
      /\ UNCHANGED <<lists, office, hist>>
  BY <1>1 DEF Resume, Leaves
<1>3. d \in Descriptors /\ Fit(p, d, "stopped", Hit(p), Rolls(p)) /\ ~expired[p]
  BY <1>1, <1>2, Its
<1>4. SendsTo[p] = {} /\ Receiver(p, d, "stopped", Rolls(p))
  BY <1>3 DEF Fit, Sender
<1>5. d.sem = 0 /\ d.rts = {} /\ d.rcode = "OK" /\ ~Rolls(p)
  BY <1>2, <1>3, <1>4 DEF Receiver
<1>6. rc = "OK"
  BY <1>1, <1>3, <1>5 DEF Result
<1>7. /\ f \in Descriptors /\ f.misc = d.misc \ {"NEEDMIGR"}
      /\ f.rts = IF "NEEDMIGR" \in d.misc THEN d.rts \cup {"MIGRATE"} ELSE d.rts
      /\ f.nodeid = d.nodeid /\ f.sendto = d.sendto /\ f.waitmigr = d.waitmigr
      /\ f.sem = d.sem /\ f.rcode = rc
  <2>1. /\ f \in Descriptors /\ f.misc = d.misc \ {"NEEDMIGR"}
        /\ f.rts = IF "NEEDMIGR" \in d.misc THEN d.rts \cup {"MIGRATE"} ELSE d.rts
        /\ f.nodeid = d.nodeid /\ f.sendto = d.sendto /\ f.waitmigr = d.waitmigr
        /\ f.sem = (IF rc # "OK" /\ d.sem < 0 THEN 0 ELSE d.sem) /\ f.rcode = rc
    BY <1>1, <1>3, UpFields
  <2>2. QED
    BY <1>6, <2>1
<1>8. /\ proc' \in [Procs -> Descriptors] /\ HistTyped' /\ Touched(p) /\ proc'[p] = f
      /\ taken'[p] = taken[p] /\ flushed'[p] = flushed[p]
      /\ \A q \in Procs \ {p} : StillWaits(q) /\ StillSends(q)
  BY <1>2, <1>7, OneDescriptor
<1>9. f.rts \subseteq {"MIGRATE"}
  BY <1>5, <1>7
<1>10. ListsFit' /\ MlistGrows(p)
  <2>1. StillWaits(p) /\ StillSends(p)
    BY <1>1, <1>5, <1>8, <1>9, Plain
  <2>2. QED
    BY <1>2, <1>8, <2>1, ListsRemain
<1>11. Sent(p, d, "stopped", ret[p], taken[p], flushed[p]) /\ Called(p, call[p], "stopped")
  BY <1>1, <1>2, Its
<1>12. CASE f.rts = {}
  <2>1. Goto(p, "scan") /\ UNCHANGED <<ret, call>>
    BY <1>2, <1>8, <1>11, <1>12 DEF Resume, Begin, Called
  <2>2. Receiver(p, f, "scan", Rolls(p))
    BY <1>4, <1>5, <1>7, <1>12 DEF Receiver, Image
  <2>3. Fit(p, f, "scan", Hit(p), Rolls(p)) /\ Called(p, call[p], "scan") /\ "scan" \in PcValues
    BY <1>4, <2>2 DEF Fit, Called, PcValues
  <2>4. Sent(p, f, "scan", ret[p], taken[p], flushed[p])
    BY <1>11, <1>12 DEF Sent
  <2>5. QED
    BY <1>2, <1>8, <1>10, <2>1, <2>3, <2>4, GotoLands
<1>13. CASE f.rts # {}
  <2>1. Return(p, "PROCRUN")
    BY <1>8, <1>13 DEF Resume
  <2>2. Receiver(p, f, "user", Rolls(p))
    BY <1>4, <1>5, <1>7, <1>9 DEF Receiver, Image
  <2>3. Fit(p, f, "user", Hit(p), Rolls(p))
    BY <1>4, <2>2 DEF Fit
  <2>4. Sent(p, f, "user", "PROCRUN", taken[p], flushed[p])
    BY <1>9, <1>11 DEF Sent
  <2>5. QED
    BY <1>2, <1>8, <1>10, <2>1, <2>3, <2>4, ReturnLands
<1>14. QED
  BY <1>12, <1>13

LEMMA ReceiveBlockKeeps == ASSUME IInv, NEW p \in Procs, ReceiveBlock(p) PROVE IInv'
<1>1. PICK d, e, f : d = proc[p] /\ e = Set(d, "RECEIVING") /\ f = Down(e)
  OBVIOUS
<1>2. /\ pc[p] = "scan" /\ Goto(p, "receiving") /\ proc' = [proc EXCEPT ![p] = f]
      /\ UNCHANGED <<lists, call, ret, office, hist>>
  BY <1>1 DEF ReceiveBlock
<1>3. d \in Descriptors /\ Fit(p, d, "scan", Hit(p), Rolls(p))
  BY <1>1, <1>2, Its
<1>4. SendsTo[p] = {} /\ Receiver(p, d, "scan", Rolls(p))
  BY <1>3 DEF Fit, Sender
<1>5. /\ e \in Descriptors /\ e.rts = d.rts \cup {"RECEIVING"} /\ e.misc = d.misc
      /\ e.nodeid = d.nodeid
  BY <1>1, <1>3, SetFields DEF RtsFlags
<1>6. /\ f \in Descriptors /\ f.rts = e.rts /\ f.misc = e.misc /\ f.nodeid = e.nodeid
      /\ f.sem = -1 /\ f.rcode = "OK"
  BY <1>1, <1>5, DownFields
<1>7. f.rts = {"RECEIVING"} /\ d.rts = {}
  BY <1>4, <1>5, <1>6 DEF Receiver
<1>8. Receiver(p, f, "receiving", Rolls(p))
  BY <1>4, <1>5, <1>6, <1>7 DEF Receiver, Image
<1>9. /\ proc' \in [Procs -> Descriptors] /\ HistTyped' /\ Touched(p) /\ proc'[p] = f
      /\ taken'[p] = taken[p] /\ flushed'[p] = flushed[p]
      /\ \A q \in Procs \ {p} : StillWaits(q) /\ StillSends(q)
  BY <1>2, <1>6, OneDescriptor
<1>10. ListsFit' /\ MlistGrows(p)
  <2>1. StillWaits(p) /\ StillSends(p)
    BY <1>1, <1>7, <1>9, Plain
  <2>2. QED
    BY <1>2, <1>9, <2>1, ListsRemain
<1>11. Sent(p, d, "scan", ret[p], taken[p], flushed[p])
  BY <1>1, <1>2, Its
<1>12. Sent(p, f, "receiving", ret[p], taken[p], flushed[p])
  BY <1>7, <1>11 DEF Sent
<1>13. /\ Fit(p, f, "receiving", Hit(p), Rolls(p)) /\ Called(p, call[p], "receiving")
       /\ "receiving" \in PcValues
  BY <1>4, <1>8 DEF Fit, Called, PcValues
<1>14. QED
  BY <1>2, <1>9, <1>10, <1>12, <1>13, GotoLands

LEMMA ReceiveDoneKeeps == ASSUME IInv, NEW p \in Procs, ReceiveDone(p) PROVE IInv'
<1>1. PICK d, e, rc : d = proc[p] /\ e = Up(p) /\ rc = Result(p)
  OBVIOUS
<1>2. PICK f : f = IF rc = "OK" THEN e ELSE Clear(e, {"RECEIVING"})
  OBVIOUS
<1>3. /\ pc[p] = "receiving" /\ (d.sem >= 0 \/ expired[p]) /\ Return(p, rc)
      /\ proc' = [proc EXCEPT ![p] = f] /\ UNCHANGED <<lists, office, hist>>
  BY <1>1, <1>2 DEF ReceiveDone, Leaves
<1>4. d \in Descriptors /\ Fit(p, d, "receiving", Hit(p), Rolls(p))
  BY <1>1, <1>3, Its
<1>5. SendsTo[p] = {} /\ Receiver(p, d, "receiving", Rolls(p))
  BY <1>4 DEF Fit, Sender
<1>6. rc = IF expired[p] THEN "TIMEDOUT" ELSE "OK"
  BY <1>1, <1>5 DEF Result, Receiver
<1>7. /\ e \in Descriptors /\ e.misc = d.misc \ {"NEEDMIGR"}
      /\ e.rts = IF "NEEDMIGR" \in d.misc THEN d.rts \cup {"MIGRATE"} ELSE d.rts
      /\ e.nodeid = d.nodeid /\ e.sem = IF rc # "OK" /\ d.sem < 0 THEN 0 ELSE d.sem
  BY <1>1, <1>4, UpFields
<1>8. /\ f \in Descriptors /\ f.misc = e.misc /\ f.nodeid = e.nodeid /\ f.sem = e.sem
      /\ f.rts = IF rc = "OK" THEN e.rts ELSE e.rts \ {"RECEIVING"}
  <2>1. CASE rc = "OK"
    BY <1>2, <1>7, <2>1
  <2>2. CASE rc # "OK"
    BY <1>2, <1>7, <2>2, ClearFields
  <2>3. QED
    BY <2>1, <2>2
<1>9. /\ f.sem \in 0 .. 1 /\ f.rts \subseteq {"MIGRATE", "REMOTE"}
      /\ d.rts \subseteq {"RECEIVING", "MIGRATE", "REMOTE"}
  BY <1>3, <1>5, <1>6, <1>7, <1>8 DEF Receiver
<1>10. Receiver(p, f, "user", Rolls(p))
  BY <1>5, <1>7, <1>8, <1>9 DEF Receiver, Image
<1>11. /\ proc' \in [Procs -> Descriptors] /\ HistTyped' /\ Touched(p) /\ proc'[p] = f
       /\ taken'[p] = taken[p] /\ flushed'[p] = flushed[p]
       /\ \A q \in Procs \ {p} : StillWaits(q) /\ StillSends(q)
  BY <1>3, <1>8, OneDescriptor
<1>12. ListsFit' /\ MlistGrows(p)
  <2>1. StillWaits(p) /\ StillSends(p)
    BY <1>1, <1>9, <1>11, Plain
  <2>2. QED
    BY <1>3, <1>11, <2>1, ListsRemain
<1>13. Sent(p, d, "receiving", ret[p], taken[p], flushed[p])
  BY <1>1, <1>3, Its
<1>14. Sent(p, f, "user", rc, taken[p], flushed[p])
  BY <1>5, <1>9, <1>13 DEF Sent
<1>15. Fit(p, f, "user", Hit(p), Rolls(p))
  BY <1>5, <1>10 DEF Fit
<1>16. QED
  BY <1>3, <1>6, <1>11, <1>12, <1>14, <1>15, ReturnLands

LEMMA ReceiveTakeKeeps == ASSUME IInv, NEW p \in Procs, ReceiveTake(p) PROVE IInv'
<1>1. PICK s, x : s = p_list[p] /\ x = Head(s)
  OBVIOUS
<1>2. PICK d, e, f : d = proc[x] /\ e = EndSend(d) /\ f = Wake(e, "OK")
  OBVIOUS
<1>3. /\ pc[p] = "scan" /\ s # <<>> /\ proc' = [proc EXCEPT ![x] = f]
      /\ taken' = [taken EXCEPT ![x] = @ + 1] /\ p_list' = [p_list EXCEPT ![p] = Tail(s)]
      /\ Return(p, "OK") /\ UNCHANGED <<p_mlist, office, flushed>>
  BY <1>1, <1>2 DEF ReceiveTake
<1>4. s \in Seq(Procs) /\ IsInjective(s)
  BY <1>1 DEF IInv, ListsFit, ListsTyped, LinkedOnce
<1>5. /\ Tail(s) \in Seq(Procs) /\ IsInjective(Tail(s)) /\ Range(Tail(s)) = Range(s) \ {x}
      /\ x \in Range(s)
  BY <1>1, <1>3, <1>4, TailIsWithout
<1>6. x \in Procs /\ "SENDING" \in d.rts
  <2>1. x \in Procs
    BY <1>4, <1>5 DEF Range
  <2>2. QED
    BY <1>1, <1>2, <1>5, <2>1 DEF IInv, ListsFit, SendsLinked
<1>7. /\ d \in Descriptors /\ Fit(x, d, pc[x], Hit(x), Rolls(x))
      /\ Sent(x, d, pc[x], ret[x], taken[x], flushed[x])
  BY <1>2, <1>6, Its
<1>8. SendsTo[x] # {} /\ Sender(d, pc[x], Hit(x))
  BY <1>6, <1>7 DEF Fit, Receiver
<1>9. pc[x] = "sending" /\ d.rts = {"SENDING"} /\ d.sem = -1 /\ x # p
  BY <1>3, <1>6, <1>8 DEF Sender, SenderFlags
<1>10. /\ e \in Descriptors /\ e.rts = {} /\ e.misc = d.misc /\ e.sem = -1
  <2>1. /\ e \in Descriptors /\ e.rts = d.rts \ {"SENDING"} /\ e.misc = d.misc /\ e.sem = d.sem
    BY <1>2, <1>7, EndSendFields
  <2>2. QED
    BY <1>9, <2>1
<1>11. /\ f \in Descriptors /\ f.rts = {} /\ f.misc = d.misc /\ f.sem = 0 /\ f.rcode = "OK"
  <2>1. e.rts = {} => e.sem <= 1
    BY <1>10
  <2>2. /\ f \in Descriptors /\ f.rts = e.rts /\ f.misc = e.misc
        /\ e.rts = {} => f.sem = e.sem + 1 /\ f.rcode = "OK"
    BY <1>2, <1>10, <2>1, WakeFields
  <2>3. QED
    BY <1>10, <2>2
<1>12. Fit(x, f, pc[x], Hit(x), Rolls(x))
  <2>1. Sender(f, pc[x], Hit(x))
    BY <1>8, <1>9, <1>11 DEF Sender, SenderFlags
  <2>2. QED
    BY <1>8, <2>1 DEF Fit
<1>13. /\ proc' \in [Procs -> Descriptors] /\ proc'[x] = f
       /\ \A q \in Procs \ {x} : proc'[q] = proc[q]
  BY <1>3, <1>6, <1>11 DEF IInv, RestTyped
<1>14. taken[x] = 0 /\ taken \in [Procs -> Nat]
  BY <1>6, <1>7 DEF Sent, IInv, RestTyped
<1>15. /\ taken' \in [Procs -> Nat] /\ taken'[x] = 1 /\ flushed' = flushed
       /\ \A q \in Procs \ {x} : taken'[q] = taken[q]
  BY <1>3, <1>6, <1>14
<1>16. HistTyped'
  BY <1>15 DEF HistTyped, IInv, RestTyped
<1>17. Sent(x, f, pc[x], ret[x], 1, flushed[x])
  BY <1>9, <1>11 DEF Sent
<1>18. Touched(p)
  BY <1>12, <1>13, <1>15, <1>17 DEF Touched
<1>19. ListsFit'
  <2>1. p_list' \in [Procs -> Seq(Procs)] /\ p_list'[p] = Tail(s)
        /\ \A q \in Procs \ {p} : p_list'[q] = p_list[q]
    BY <1>3, <1>5 DEF IInv, ListsFit, ListsTyped
  <2>2. ASSUME NEW q \in Procs, q # p PROVE x \notin Range(p_list[q])
    <3>1. d.sendto = p
      BY <1>1, <1>2, <1>5, <1>6 DEF IInv, ListsFit, SendsLinked
    <3>2. QED
      BY <1>2, <1>6, <2>2, <3>1 DEF IInv, ListsFit, SendsLinked
  <2>3. \A q \in Procs : /\ IsInjective(p_list'[q]) /\ x \notin Range(p_list'[q])
                         /\ Range(p_list'[q]) \subseteq Range(p_list[q])
    BY <1>1, <1>5, <2>1, <2>2 DEF IInv, ListsFit, LinkedOnce
  <2>4. \A q \in Procs \ {x} : StillWaits(q) /\ StillSends(q)
    BY <1>13 DEF StillWaits, StillSends
  <2>5. StillWaits(x)
    BY <1>2, <1>9, <1>11, <1>13 DEF StillWaits
  <2>6. QED
    BY <1>3, <1>6, <2>1, <2>3, <2>4, <2>5, ListDropped DEF IInv
<1>20. MlistGrows(p)
  BY <1>3, MlistStays
<1>21. /\ proc[p] \in Descriptors /\ Fit(p, proc[p], "scan", Hit(p), Rolls(p))
       /\ Sent(p, proc[p], "scan", ret[p], taken[p], flushed[p])
  BY <1>3, Its
<1>22. SendsTo[p] = {} /\ Receiver(p, proc[p], "scan", Rolls(p))
  BY <1>21 DEF Fit, Sender
<1>23. Receiver(p, proc[p], "user", Rolls(p)) /\ proc[p].rts = {}
  BY <1>22 DEF Receiver, Image
<1>24. Fit(p, proc[p], "user", Hit(p), Rolls(p))
  BY <1>22, <1>23 DEF Fit
<1>25. Sent(p, proc[p], "user", "OK", taken[p], flushed[p])
  BY <1>21, <1>22, <1>23 DEF Sent
<1>26. proc'[p] = proc[p] /\ taken'[p] = taken[p] /\ flushed'[p] = flushed[p]
  BY <1>9, <1>13, <1>15
<1>27. QED
  BY <1>3, <1>13, <1>16, <1>18, <1>19, <1>20, <1>24, <1>25, <1>26, ReturnLands

LEMMA ExpireKeeps == ASSUME IInv, NEW p \in Procs, Expire(p) PROVE IInv'
<1>1. /\ pc[p] \in {"migrating", "sending", "receiving"}
      /\ expired' = [expired EXCEPT ![p] = TRUE]
      /\ UNCHANGED <<proc, lists, pc, call, ret, office, hist>>
  BY DEF Expire
<1>2. RestTyped'
  BY <1>1 DEF IInv, RestTyped, hist
<1>3. ListsFit'
  BY <1>1 DEF IInv, ListsFit, ListsTyped, WaitsExact, SendsLinked, LinkedOnce, lists
<1>4. AdminFit'
  BY <1>1, MlistStays, AdminKept DEF lists
<1>5. ASSUME NEW q \in Procs PROVE Good(q)'
  <2>1. Hit(q)' = Hit(q) /\ Rolls(q)' = Rolls(q)
    BY <1>1 DEF Hit, Rolls, Walking, office
  <2>2. expired'[q] => q = p \/ expired[q]
    BY <1>1 DEF IInv, RestTyped
  <2>3. Good(q)
    BY DEF IInv, AllGood
  <2>4. QED
    BY <1>1, <2>1, <2>2, <2>3 DEF Good, hist
<1>6. QED
  BY <1>2, <1>3, <1>4, <1>5 DEF IInv, AllGood

-----------------------------------------------------------------------------
(* new_mini_send *)

\* A thread that is about to send or to send again, with the descriptor mine.
Ready(p, d, mine) ==
    /\ d = call[p].peer /\ d \in Procs /\ d # p /\ SendsTo[p] # {}
    /\ call[p].op = "send" /\ d \in SendsTo[p]
    /\ proc[p].rts = {} /\ taken[p] = 0
    /\ mine \in Descriptors /\ mine.rts = {} /\ mine.misc = {}
    /\ mine.sem \in 0 .. 1 /\ (Hit(p) => mine.sem = 0)

LEMMA AwaitKeeps ==
    ASSUME IInv, NEW p \in Procs, NEW d, NEW mine, Ready(p, d, mine), AwaitMigration(p, d, mine),
           UNCHANGED <<office, flushed>>
    PROVE  IInv'
<1>1. PICK g, f : g = [Set(mine, "WAITMIGR") EXCEPT !.waitmigr = d] /\ f = Down(g)
  OBVIOUS
<1>2. /\ proc' = [proc EXCEPT ![p] = f] /\ p_mlist' = [p_mlist EXCEPT ![d] = Append(@, p)]
      /\ Goto(p, "migrating") /\ UNCHANGED <<p_list, call, ret, taken>>
  BY <1>1 DEF AwaitMigration
<1>3. d \in Procs /\ SendsTo[p] # {} /\ mine \in Descriptors /\ mine.rts = {} /\ mine.misc = {}
      /\ proc[p].rts = {} /\ taken[p] = 0
  BY DEF Ready
<1>4. g \in Descriptors /\ g.rts = {"WAITMIGR"} /\ g.misc = {} /\ g.waitmigr = d
  BY <1>1, <1>3 DEF Set, Descriptors, RtsFlags
<1>5. /\ f \in Descriptors /\ f.rts = {"WAITMIGR"} /\ f.misc = {} /\ f.waitmigr = d
      /\ f.sem = -1 /\ f.rcode = "OK"
  BY <1>1, <1>4, DownFields
<1>6. Fit(p, f, "migrating", Hit(p), Rolls(p))
  BY <1>3, <1>5 DEF Fit, Sender, SenderFlags
<1>7. /\ proc' \in [Procs -> Descriptors] /\ HistTyped' /\ Touched(p) /\ proc'[p] = f
      /\ taken'[p] = taken[p] /\ flushed'[p] = flushed[p]
      /\ \A q \in Procs \ {p} : StillWaits(q) /\ StillSends(q)
  BY <1>2, <1>5, OneDescriptor DEF hist
<1>8. ListsFit' /\ MlistGrows(p)
  <2>1. StillSends(p) /\ "WAITMIGR" \notin proc[p].rts
    BY <1>3 DEF StillSends
  <2>2. "WAITMIGR" \in proc'[p].rts /\ proc'[p].waitmigr = d
    BY <1>5, <1>7
  <2>3. QED
    BY <1>2, <1>3, <1>7, <2>1, <2>2, MlistAppended DEF IInv
<1>9. Called(p, call[p], "migrating") /\ "migrating" \in PcValues
  BY DEF Ready, Called, PcValues
<1>10. Sent(p, f, "migrating", ret[p], taken[p], flushed[p])
  BY <1>3 DEF Sent
<1>11. QED
  BY <1>2, <1>6, <1>7, <1>8, <1>9, <1>10, GotoLands

\* The descriptor of a sender that goes to sleep.
LEMMA SendSleeps ==
    ASSUME NEW p \in Procs, NEW d, NEW mine, Ready(p, d, mine),
           NEW f, f = Down([Set(mine, "SENDING") EXCEPT !.sendto = d])
    PROVE  /\ f \in Descriptors /\ f.rts = {"SENDING"} /\ f.sendto = d
           /\ Fit(p, f, "sending", Hit(p), Rolls(p)) /\ "sending" \in PcValues
           /\ Called(p, call[p], "sending") /\ Sent(p, f, "sending", ret[p], taken[p], flushed[p])
<1>1. PICK g : g = [Set(mine, "SENDING") EXCEPT !.sendto = d]
  OBVIOUS
<1>2. d \in Procs /\ SendsTo[p] # {} /\ mine \in Descriptors /\ mine.rts = {} /\ mine.misc = {}
      /\ taken[p] = 0
  BY DEF Ready
<1>3. g \in Descriptors /\ g.rts = {"SENDING"} /\ g.misc = {} /\ g.sendto = d
  BY <1>1, <1>2 DEF Set, Descriptors, RtsFlags
<1>4. /\ f \in Descriptors /\ f.rts = {"SENDING"} /\ f.misc = {} /\ f.sendto = d
      /\ f.sem = -1 /\ f.rcode = "OK"
  BY <1>1, <1>3, DownFields
<1>5. Fit(p, f, "sending", Hit(p), Rolls(p))
  BY <1>2, <1>4 DEF Fit, Sender, SenderFlags
<1>6. Called(p, call[p], "sending") /\ "sending" \in PcValues
  BY DEF Ready, Called, PcValues
<1>7. Sent(p, f, "sending", ret[p], taken[p], flushed[p])
  BY <1>2, <1>4 DEF Sent
<1>8. QED
  BY <1>4, <1>5, <1>6, <1>7

LEMMA SendBlockKeeps ==
    ASSUME IInv, NEW p \in Procs, NEW d, NEW mine, Ready(p, d, mine), SendBlock(p, d, mine),
           UNCHANGED <<office, flushed>>
    PROVE  IInv'
<1>1. PICK f : f = Down([Set(mine, "SENDING") EXCEPT !.sendto = d])
  OBVIOUS
<1>2. /\ proc' = [proc EXCEPT ![p] = f] /\ p_list' = [p_list EXCEPT ![d] = Append(@, p)]
      /\ Goto(p, "sending") /\ UNCHANGED <<p_mlist, call, ret, taken>>
  BY <1>1 DEF SendBlock
<1>3. /\ f \in Descriptors /\ f.rts = {"SENDING"} /\ f.sendto = d
      /\ Fit(p, f, "sending", Hit(p), Rolls(p)) /\ "sending" \in PcValues
      /\ Called(p, call[p], "sending") /\ Sent(p, f, "sending", ret[p], taken[p], flushed[p])
  BY <1>1, SendSleeps
<1>4. /\ proc' \in [Procs -> Descriptors] /\ HistTyped' /\ Touched(p) /\ proc'[p] = f
      /\ taken'[p] = taken[p] /\ flushed'[p] = flushed[p]
      /\ \A q \in Procs \ {p} : StillWaits(q) /\ StillSends(q)
  BY <1>2, <1>3, OneDescriptor DEF hist
<1>5. d \in Procs /\ proc[p].rts = {}
  BY DEF Ready
<1>6. ListsFit' /\ MlistGrows(p)
  <2>1. StillWaits(p) /\ "SENDING" \notin proc[p].rts
    BY <1>3, <1>4, <1>5 DEF StillWaits
  <2>2. "SENDING" \in proc'[p].rts /\ proc'[p].sendto = d
    BY <1>3, <1>4
  <2>3. MlistGrows(p)
    BY <1>2, MlistStays
  <2>4. QED
    BY <1>2, <1>4, <1>5, <2>1, <2>2, <2>3, ListAppended DEF IInv
<1>7. QED
  BY <1>2, <1>3, <1>4, <1>6, GotoLands

LEMMA SendRemoteKeeps ==
    ASSUME IInv, NEW p \in Procs, NEW d, NEW mine, Ready(p, d, mine), SendRemote(p, d, mine),
           UNCHANGED <<office, flushed>>
    PROVE  IInv'
<1>1. PICK f, o, e : /\ f = Down([Set(mine, "SENDING") EXCEPT !.sendto = d])
                     /\ o = proc[d] /\ e = Clear(o, {"RECEIVING"})
  OBVIOUS
<1>2. d \in Procs /\ d # p /\ proc[p].rts = {}
  BY DEF Ready
<1>3. /\ "REMOTE" \in o.rts /\ proc' = [proc EXCEPT ![p] = f, ![d] = e]
      /\ Goto(p, "sending") /\ UNCHANGED <<lists, call, ret, taken>>
  BY <1>1, <1>2 DEF SendRemote, Has, IInv, RestTyped
<1>4. /\ f \in Descriptors /\ f.rts = {"SENDING"} /\ f.sendto = d
      /\ Fit(p, f, "sending", Hit(p), Rolls(p)) /\ "sending" \in PcValues
      /\ Called(p, call[p], "sending") /\ Sent(p, f, "sending", ret[p], taken[p], flushed[p])
  BY <1>1, SendSleeps
<1>5. /\ o \in Descriptors /\ Fit(d, o, pc[d], Hit(d), Rolls(d))
      /\ Sent(d, o, pc[d], ret[d], taken[d], flushed[d])
  BY <1>1, <1>2, Its
<1>6. /\ e \in Descriptors /\ e.rts = o.rts \ {"RECEIVING"} /\ e.misc = o.misc
      /\ e.nodeid = o.nodeid /\ e.sendto = o.sendto /\ e.waitmigr = o.waitmigr
      /\ e.sem = o.sem /\ e.rcode = o.rcode
  BY <1>1, <1>5, ClearFields
<1>7. Fit(d, e, pc[d], Hit(d), Rolls(d))
  <2>1. ASSUME SendsTo[d] # {} PROVE Sender(e, pc[d], Hit(d))
    <3>1. Sender(o, pc[d], Hit(d))
      BY <1>5, <2>1 DEF Fit
    <3>2. "RECEIVING" \notin o.rts
      BY <3>1 DEF Sender, SenderFlags
    <3>3. e.rts = o.rts
      BY <1>6, <3>2
    <3>4. QED
      BY <1>6, <3>1, <3>3 DEF Sender
  <2>2. ASSUME SendsTo[d] = {} PROVE Receiver(d, e, pc[d], Rolls(d))
    <3>1. Receiver(d, o, pc[d], Rolls(d))
      BY <1>5, <2>2 DEF Fit
    <3>2. "REMOTE" \in e.rts
      BY <1>3, <1>6
    <3>3. QED
      BY <1>3, <1>6, <3>1, <3>2 DEF Receiver, Image
  <2>3. QED
    BY <2>1, <2>2 DEF Fit
<1>8. Sent(d, e, pc[d], ret[d], taken[d], flushed[d])
  BY <1>3, <1>5, <1>6 DEF Sent
<1>9. /\ proc' \in [Procs -> Descriptors] /\ proc'[p] = f /\ proc'[d] = e
      /\ \A q \in Procs \ {p, d} : proc'[q] = proc[q]
  BY <1>2, <1>3, <1>4, <1>6 DEF IInv, RestTyped
<1>10. HistTyped' /\ taken' = taken /\ flushed' = flushed
  BY <1>3 DEF HistTyped, IInv, RestTyped
<1>11. Touched(p)
  BY <1>2, <1>7, <1>8, <1>9, <1>10 DEF Touched
<1>12. ListsFit' /\ MlistGrows(p)
  <2>1. StillWaits(p) /\ StillSends(p)
    BY <1>2, <1>4, <1>9 DEF StillWaits, StillSends
  <2>2. StillWaits(d) /\ StillSends(d)
    BY <1>1, <1>6, <1>9 DEF StillWaits, StillSends
  <2>3. \A q \in Procs \ {p} : StillWaits(q) /\ StillSends(q)
    BY <1>9, <2>2 DEF StillWaits, StillSends
  <2>4. QED
    BY <1>3, <2>1, <2>3, ListsRemain
<1>13. QED
  BY <1>3, <1>4, <1>9, <1>10, <1>11, <1>12, GotoLands

LEMMA SendDeliverKeeps ==
    ASSUME IInv, NEW p \in Procs, NEW d, NEW mine, Ready(p, d, mine), SendDeliver(p, d, mine),
           UNCHANGED <<office, flushed>>
    PROVE  IInv'
<1>1. PICK f, o, e, w : /\ f = [mine EXCEPT !.rcode = "OK"]
                        /\ o = proc[d] /\ e = Clear(o, {"RECEIVING"}) /\ w = Wake(e, "OK")
  OBVIOUS
<1>2. /\ d \in Procs /\ d # p /\ proc[p].rts = {} /\ SendsTo[p] # {} /\ taken[p] = 0
      /\ mine \in Descriptors /\ mine.rts = {} /\ mine.misc = {}
      /\ mine.sem \in 0 .. 1 /\ (Hit(p) => mine.sem = 0)
  BY DEF Ready
<1>3. /\ "REMOTE" \notin o.rts /\ "MIGRATE" \notin o.rts /\ "RECEIVING" \in o.rts
      /\ "SENDING" \notin o.rts /\ proc' = [proc EXCEPT ![p] = f, ![d] = w]
      /\ taken' = [taken EXCEPT ![p] = @ + 1] /\ Return(p, "OK") /\ UNCHANGED lists
  BY <1>1, <1>2 DEF SendDeliver, Waits, Has, IInv, RestTyped
<1>4. /\ f \in Descriptors /\ f.rts = {} /\ f.misc = {} /\ f.sem = mine.sem
  BY <1>1, <1>2 DEF Descriptors
<1>5. Fit(p, f, "user", Hit(p), Rolls(p))
  BY <1>2, <1>4 DEF Fit, Sender, SenderFlags
<1>6. /\ o \in Descriptors /\ Fit(d, o, pc[d], Hit(d), Rolls(d))
      /\ Sent(d, o, pc[d], ret[d], taken[d], flushed[d])
  BY <1>1, <1>2, Its
<1>7. SendsTo[d] = {} /\ Receiver(d, o, pc[d], Rolls(d))
  BY <1>3, <1>6 DEF Fit, Sender, SenderFlags
<1>8. pc[d] = "receiving" /\ o.sem = -1 /\ o.rts = {"RECEIVING"}
  BY <1>3, <1>7 DEF Receiver
<1>9. /\ e \in Descriptors /\ e.rts = {} /\ e.misc = o.misc /\ e.nodeid = o.nodeid
      /\ e.sem = o.sem
  BY <1>1, <1>6, <1>8, ClearFields
<1>10. /\ w \in Descriptors /\ w.rts = {} /\ w.misc = o.misc /\ w.nodeid = o.nodeid
       /\ w.sem = 0 /\ w.rcode = "OK"
  <2>1. e.rts = {} => e.sem <= 1
    BY <1>8, <1>9
  <2>2. /\ w \in Descriptors /\ w.rts = e.rts /\ w.misc = e.misc /\ w.nodeid = e.nodeid
        /\ e.rts = {} => w.sem = e.sem + 1 /\ w.rcode = "OK"
    BY <1>1, <1>9, <2>1, WakeFields
  <2>3. QED
    BY <1>8, <1>9, <2>2
<1>11. Fit(d, w, pc[d], Hit(d), Rolls(d))
  <2>1. Receiver(d, w, "receiving", Rolls(d))
    BY <1>7, <1>8, <1>10 DEF Receiver, Image
  <2>2. QED
    BY <1>7, <1>8, <2>1 DEF Fit
<1>12. Sent(d, w, pc[d], ret[d], taken[d], flushed[d])
  BY <1>6, <1>8, <1>10 DEF Sent
<1>13. /\ proc' \in [Procs -> Descriptors] /\ proc'[p] = f /\ proc'[d] = w
       /\ \A q \in Procs \ {p, d} : proc'[q] = proc[q]
  BY <1>2, <1>3, <1>4, <1>10 DEF IInv, RestTyped
<1>14. /\ taken' \in [Procs -> Nat] /\ taken'[p] = 1 /\ flushed' = flushed
       /\ \A q \in Procs \ {p} : taken'[q] = taken[q]
  BY <1>2, <1>3 DEF IInv, RestTyped
<1>15. HistTyped'
  BY <1>14 DEF HistTyped, IInv, RestTyped
<1>16. Touched(p)
  BY <1>2, <1>11, <1>12, <1>13, <1>14 DEF Touched
<1>17. ListsFit' /\ MlistGrows(p)
  <2>1. StillWaits(p) /\ StillSends(p)
    BY <1>2, <1>4, <1>13 DEF StillWaits, StillSends
  <2>2. StillWaits(d) /\ StillSends(d)
    BY <1>1, <1>8, <1>10, <1>13 DEF StillWaits, StillSends
  <2>3. \A q \in Procs \ {p} : StillWaits(q) /\ StillSends(q)
    BY <1>13, <2>2 DEF StillWaits, StillSends
  <2>4. QED
    BY <1>3, <2>1, <2>3, ListsRemain
<1>18. Sent(p, f, "user", "OK", 1, flushed[p])
  BY <1>4 DEF Sent
<1>19. QED
  BY <1>3, <1>5, <1>13, <1>14, <1>15, <1>16, <1>17, <1>18, ReturnLands

LEMMA AttemptKeeps ==
    ASSUME IInv, NEW p \in Procs, NEW mine, Ready(p, call[p].peer, mine), Attempt(p, mine)
    PROVE  IInv'
BY AwaitKeeps, SendRemoteKeeps, SendDeliverKeeps, SendBlockKeeps DEF Attempt

LEMMA SendKeeps == ASSUME IInv, NEW p \in Procs, Send(p) PROVE IInv'
<1>1. PICK d : d = proc[p]
  OBVIOUS
<1>2. pc[p] = "enter" /\ Attempt(p, d)
  BY <1>1 DEF Send
<1>3. /\ d \in Descriptors /\ Fit(p, d, "enter", Hit(p), Rolls(p))
      /\ Called(p, call[p], "enter") /\ Sent(p, d, "enter", ret[p], taken[p], flushed[p])
  BY <1>1, <1>2, Its
<1>4. SendsTo[p] # {} /\ Sender(d, "enter", Hit(p))
  BY <1>3 DEF Fit, Receiver
<1>5. d.rts = {} /\ d.misc = {} /\ d.sem \in 0 .. 1 /\ (Hit(p) => d.sem = 0)
  BY <1>4 DEF Sender, SenderFlags
<1>6. call[p].op = "send" /\ call[p].peer \in SendsTo[p] /\ taken[p] = 0
  BY <1>3 DEF Called, Sent
<1>7. call[p].peer \in Procs /\ call[p].peer # p
  BY <1>6, CallsAssumption
<1>8. Ready(p, call[p].peer, d)
  BY <1>1, <1>3, <1>4, <1>5, <1>6, <1>7 DEF Ready
<1>9. QED
  BY <1>2, <1>8, AttemptKeeps

LEMMA SendAgainKeeps == ASSUME IInv, NEW p \in Procs, SendAgain(p) PROVE IInv'
<1>1. PICK d, f, rc : d = proc[p] /\ f = Up(p) /\ rc = Result(p)
  OBVIOUS
<1>2. pc[p] = "migrating" /\ (d.sem >= 0 \/ expired[p]) /\ rc = "OK" /\ Attempt(p, f)
  BY <1>1 DEF SendAgain, Leaves
<1>3. /\ d \in Descriptors /\ Fit(p, d, "migrating", Hit(p), Rolls(p))
      /\ Called(p, call[p], "migrating") /\ Sent(p, d, "migrating", ret[p], taken[p], flushed[p])
  BY <1>1, <1>2, Its
<1>4. SendsTo[p] # {} /\ Sender(d, "migrating", Hit(p))
  BY <1>3 DEF Fit, Receiver
<1>5. ~expired[p]
  BY <1>1, <1>2 DEF Result
<1>6. d.rts = {} /\ d.misc = {} /\ d.sem \in 0 .. 1 /\ (Hit(p) => d.sem = 0)
  BY <1>2, <1>4, <1>5 DEF Sender
<1>7. /\ f \in Descriptors /\ f.misc = d.misc \ {"NEEDMIGR"}
      /\ f.rts = IF "NEEDMIGR" \in d.misc THEN d.rts \cup {"MIGRATE"} ELSE d.rts
      /\ f.sem = IF rc # "OK" /\ d.sem < 0 THEN 0 ELSE d.sem
  BY <1>1, <1>3, UpFields
<1>8. f.rts = {} /\ f.misc = {} /\ f.sem = d.sem
  BY <1>2, <1>6, <1>7
<1>9. call[p].op = "send" /\ call[p].peer \in SendsTo[p] /\ taken[p] = 0
  BY <1>3 DEF Called, Sent
<1>10. call[p].peer \in Procs /\ call[p].peer # p
  BY <1>9, CallsAssumption
<1>11. Ready(p, call[p].peer, f)
  BY <1>1, <1>4, <1>6, <1>7, <1>8, <1>9, <1>10 DEF Ready
<1>12. QED
  BY <1>2, <1>11, AttemptKeeps

LEMMA SendGivesUpKeeps == ASSUME IInv, NEW p \in Procs, SendGivesUp(p) PROVE IInv'
<1>1. PICK d, f, rc : d = proc[p] /\ f = Up(p) /\ rc = Result(p)
  OBVIOUS
<1>2. /\ pc[p] = "migrating" /\ rc # "OK" /\ proc' = [proc EXCEPT ![p] = f] /\ Return(p, rc)
      /\ UNCHANGED <<lists, office, hist>>
  BY <1>1 DEF SendGivesUp, Leaves
<1>3. /\ d \in Descriptors /\ Fit(p, d, "migrating", Hit(p), Rolls(p))
      /\ Sent(p, d, "migrating", ret[p], taken[p], flushed[p])
  BY <1>1, <1>2, Its
<1>4. SendsTo[p] # {} /\ Sender(d, "migrating", Hit(p))
  BY <1>3 DEF Fit, Receiver
<1>5. rc = "TIMEDOUT"
  BY <1>1, <1>2, <1>4 DEF Result, Sender
<1>6. /\ f \in Descriptors /\ f.misc = d.misc \ {"NEEDMIGR"}
      /\ f.rts = IF "NEEDMIGR" \in d.misc THEN d.rts \cup {"MIGRATE"} ELSE d.rts
      /\ f.waitmigr = d.waitmigr /\ f.sem = IF rc # "OK" /\ d.sem < 0 THEN 0 ELSE d.sem
  BY <1>1, <1>3, UpFields
<1>7. d.misc = {} /\ d.rts \subseteq {"WAITMIGR"}
  BY <1>4 DEF Sender, SenderFlags
<1>8. f.misc = {} /\ f.rts = d.rts /\ f.sem = IF d.sem < 0 THEN 0 ELSE d.sem
  BY <1>2, <1>6, <1>7
<1>9. Fit(p, f, "user", Hit(p), Rolls(p))
  <2>1. CASE d.rts = {}
    BY <1>4, <1>6, <1>8, <2>1 DEF Fit, Sender, SenderFlags
  <2>2. CASE d.rts # {}
    <3>1. d.sem = -1 /\ ("WAITMIGR" \in d.rts => d.waitmigr \in Procs)
      BY <1>4, <2>2 DEF Sender
    <3>2. f.sem = 0
      BY <1>8, <3>1
    <3>3. QED
      BY <1>4, <1>6, <1>7, <1>8, <2>2, <3>1, <3>2 DEF Fit, Sender, SenderFlags
  <2>3. QED
    BY <2>1, <2>2
<1>10. /\ proc' \in [Procs -> Descriptors] /\ HistTyped' /\ Touched(p) /\ proc'[p] = f
       /\ taken'[p] = taken[p] /\ flushed'[p] = flushed[p]
       /\ \A q \in Procs \ {p} : StillWaits(q) /\ StillSends(q)
  BY <1>2, <1>6, OneDescriptor
<1>11. ListsFit' /\ MlistGrows(p)
  <2>1. StillWaits(p) /\ StillSends(p)
    BY <1>1, <1>6, <1>7, <1>8, <1>10 DEF StillWaits, StillSends
  <2>2. QED
    BY <1>2, <1>10, <2>1, ListsRemain
<1>12. Sent(p, f, "user", rc, taken[p], flushed[p])
  BY <1>3, <1>5, <1>7, <1>8 DEF Sent
<1>13. QED
  BY <1>2, <1>5, <1>9, <1>10, <1>11, <1>12, ReturnLands

\* The entry of a sender leaves the queue it is in.
LEMMA ListWithout ==
    ASSUME ListsFit, NEW p \in Procs, "SENDING" \in proc[p].rts, proc[p].sendto \in Procs,
           p_list' = [p_list EXCEPT ![proc[p].sendto] = Without(@, p)], UNCHANGED p_mlist,
           \A q \in Procs : StillWaits(q), \A q \in Procs \ {p} : StillSends(q)
    PROVE  ListsFit'
<1>1. PICK d, s, t : d = proc[p].sendto /\ s = p_list[d] /\ t = Without(s, p)
  OBVIOUS
<1>2. d \in Procs /\ s \in Seq(Procs) /\ IsInjective(s)
  BY <1>1 DEF ListsFit, ListsTyped, LinkedOnce
<1>3. t \in Seq(Procs) /\ IsInjective(t) /\ Range(t) = Range(s) \ {p}
  BY <1>1, <1>2, WithoutExact
<1>4. /\ p_list' \in [Procs -> Seq(Procs)] /\ p_list'[d] = t
      /\ \A e \in Procs \ {d} : p_list'[e] = p_list[e]
  BY <1>1, <1>2, <1>3 DEF ListsFit, ListsTyped
<1>5. ASSUME NEW e \in Procs, e # d PROVE p \notin Range(p_list[e])
  BY <1>1, <1>5 DEF ListsFit, SendsLinked
<1>6. \A e \in Procs : /\ IsInjective(p_list'[e]) /\ p \notin Range(p_list'[e])
                       /\ Range(p_list'[e]) \subseteq Range(p_list[e])
  BY <1>1, <1>3, <1>4, <1>5 DEF ListsFit, LinkedOnce
<1>7. QED
  BY <1>4, <1>6, ListDropped

LEMMA SendDoneKeeps == ASSUME IInv, NEW p \in Procs, SendDone(p) PROVE IInv'
<1>1. PICK d, e, rc : d = proc[p] /\ e = Up(p) /\ rc = Result(p)
  OBVIOUS
<1>2. PICK f : f = IF rc = "OK" THEN e ELSE EndSend(e)
  OBVIOUS
<1>3. /\ pc[p] = "sending" /\ (d.sem >= 0 \/ expired[p]) /\ proc' = [proc EXCEPT ![p] = f]
      /\ p_list' = IF rc # "OK" /\ "SENDING" \in d.rts
                   THEN [p_list EXCEPT ![d.sendto] = Without(@, p)] ELSE p_list
      /\ IF rc = "MIGRATE" THEN Goto(p, "enter") /\ UNCHANGED <<ret, call>> ELSE Return(p, rc)
      /\ UNCHANGED <<p_mlist, office, hist>>
  BY <1>1, <1>2 DEF SendDone, Leaves, Has
<1>4. /\ d \in Descriptors /\ Fit(p, d, "sending", Hit(p), Rolls(p))
      /\ Called(p, call[p], "sending") /\ Sent(p, d, "sending", ret[p], taken[p], flushed[p])
  BY <1>1, <1>3, Its
<1>5. SendsTo[p] # {} /\ Sender(d, "sending", Hit(p))
  BY <1>4 DEF Fit, Receiver
<1>6. /\ d.misc = {} /\ d.rts \in {{}, {"SENDING"}}
      /\ d.rts # {} => d.sem = -1 /\ d.rcode = "OK" /\ d.sendto \in Procs
      /\ d.rts = {} => d.sem \in 0 .. 1 /\ (Hit(p) => d.sem = 0)
      /\ d.rcode \in {"OK", "MIGRATE"}
  BY <1>5 DEF Sender, SenderFlags
<1>7. /\ rc \in {"OK", "MIGRATE", "TIMEDOUT"}
      /\ rc = "OK" => d.rts = {} /\ d.rcode = "OK"
      /\ rc = "MIGRATE" => d.rts = {} /\ d.rcode = "MIGRATE"
  <2>1. rc = IF d.rcode # "OK" THEN d.rcode ELSE IF expired[p] THEN "TIMEDOUT" ELSE "OK"
    BY <1>1 DEF Result
  <2>2. CASE d.rts = {}
    BY <1>6, <2>1, <2>2
  <2>3. CASE d.rts # {}
    BY <1>3, <1>6, <2>1, <2>3
  <2>4. QED
    BY <2>2, <2>3
<1>8. /\ e \in Descriptors /\ e.misc = d.misc \ {"NEEDMIGR"}
      /\ e.rts = IF "NEEDMIGR" \in d.misc THEN d.rts \cup {"MIGRATE"} ELSE d.rts
      /\ e.waitmigr = d.waitmigr /\ e.sem = IF rc # "OK" /\ d.sem < 0 THEN 0 ELSE d.sem
      /\ e.rcode = rc
  BY <1>1, <1>4, UpFields
<1>9. e.misc = {} /\ e.rts = d.rts
  BY <1>6, <1>8
<1>10. e.sem \in 0 .. 1 /\ (Hit(p) => e.sem = 0)
  <2>1. CASE d.rts = {}
    BY <1>6, <1>8, <2>1
  <2>2. CASE d.rts # {}
    <3>1. rc # "OK" /\ d.sem = -1
      BY <1>6, <1>7, <2>2
    <3>2. QED
      BY <1>8, <3>1
  <2>3. QED
    BY <2>1, <2>2
<1>11. f \in Descriptors /\ f.misc = {} /\ f.rts = {} /\ f.sem = e.sem
  <2>1. CASE rc = "OK"
    BY <1>2, <1>7, <1>8, <1>9, <2>1
  <2>2. CASE rc # "OK"
    <3>1. /\ f \in Descriptors /\ f.rts = e.rts \ {"SENDING"} /\ f.misc = e.misc
          /\ f.sem = e.sem
      BY <1>2, <1>8, <2>2, EndSendFields
    <3>2. QED
      BY <1>6, <1>9, <3>1
  <2>3. QED
    BY <2>1, <2>2
<1>12. /\ proc' \in [Procs -> Descriptors] /\ HistTyped' /\ Touched(p) /\ proc'[p] = f
       /\ taken'[p] = taken[p] /\ flushed'[p] = flushed[p]
       /\ \A q \in Procs \ {p} : StillWaits(q) /\ StillSends(q)
  BY <1>3, <1>11, OneDescriptor
<1>13. ListsFit' /\ MlistGrows(p)
  <2>1. StillWaits(p)
    BY <1>1, <1>6, <1>11, <1>12 DEF StillWaits
  <2>2. CASE d.rts = {}
    <3>1. UNCHANGED lists /\ StillSends(p)
      BY <1>1, <1>3, <2>2 DEF lists, StillSends
    <3>2. QED
      BY <1>12, <2>1, <3>1, ListsRemain
  <2>3. CASE d.rts # {}
    <3>1. "SENDING" \in d.rts /\ d.sendto \in Procs /\ rc # "OK"
      BY <1>6, <1>7, <2>3
    <3>2. ListsFit'
      BY <1>1, <1>3, <1>12, <2>1, <3>1, ListWithout DEF IInv
    <3>3. QED
      BY <1>3, <3>2, MlistStays
  <2>4. QED
    BY <2>2, <2>3
<1>14. CASE rc = "MIGRATE"
  <2>1. Goto(p, "enter") /\ UNCHANGED <<call, ret, office>>
    BY <1>3, <1>14
  <2>2. Fit(p, f, "enter", Hit(p), Rolls(p))
    BY <1>5, <1>10, <1>11 DEF Fit, Sender, SenderFlags
  <2>3. Sent(p, f, "enter", ret[p], taken[p], flushed[p])
    BY <1>4, <1>7, <1>11, <1>14 DEF Sent
  <2>4. Called(p, call[p], "enter") /\ "enter" \in PcValues
    BY <1>4 DEF Called, PcValues
  <2>5. QED
    BY <1>12, <1>13, <2>1, <2>2, <2>3, <2>4, GotoLands
<1>15. CASE rc # "MIGRATE"
  <2>1. Return(p, rc) /\ UNCHANGED office
    BY <1>3, <1>15
  <2>2. Fit(p, f, "user", Hit(p), Rolls(p))
    BY <1>5, <1>10, <1>11 DEF Fit, Sender, SenderFlags
  <2>3. Sent(p, f, "user", rc, taken[p], flushed[p])
    BY <1>4, <1>7, <1>11 DEF Sent
  <2>4. QED
    BY <1>7, <1>12, <1>13, <1>15, <2>1, <2>2, <2>3, ReturnLands
<1>16. QED
  BY <1>14, <1>15

LEMMA AcknowledgedKeeps ==
    ASSUME IInv, NEW p \in Procs, NEW rc \in {"OK", "MIGRATE"}, Acknowledged(p, rc)
    PROVE  IInv'
<1>1. PICK d, e, f : d = proc[p] /\ e = EndSend(d) /\ f = Wake(e, rc)
  OBVIOUS
<1>2. /\ pc[p] = "sending" /\ "SENDING" \in d.rts /\ p \notin Range(p_list[d.sendto])
      /\ proc' = [proc EXCEPT ![p] = f]
      /\ taken' = [taken EXCEPT ![p] = IF rc = "OK" THEN @ + 1 ELSE @]
      /\ UNCHANGED <<lists, thread, office, flushed>>
  BY <1>1 DEF Acknowledged, Has, IInv, RestTyped
<1>3. /\ d \in Descriptors /\ Fit(p, d, "sending", Hit(p), Rolls(p))
      /\ Called(p, call[p], "sending") /\ Sent(p, d, "sending", ret[p], taken[p], flushed[p])
  BY <1>1, <1>2, Its
<1>4. SendsTo[p] # {} /\ Sender(d, "sending", Hit(p))
  BY <1>3 DEF Fit, Receiver
<1>5. d.misc = {} /\ d.rts = {"SENDING"} /\ d.sem = -1 /\ d.sendto \in Procs
  BY <1>2, <1>4 DEF Sender, SenderFlags
<1>6. e \in Descriptors /\ e.rts = {} /\ e.misc = {} /\ e.sem = -1
  <2>1. e \in Descriptors /\ e.rts = d.rts \ {"SENDING"} /\ e.misc = d.misc /\ e.sem = d.sem
    BY <1>1, <1>3, EndSendFields
  <2>2. QED
    BY <1>5, <2>1
<1>7. f \in Descriptors /\ f.rts = {} /\ f.misc = {} /\ f.sem = 0 /\ f.rcode = rc
  <2>1. e.rts = {} => e.sem <= 1
    BY <1>6
  <2>2. /\ f \in Descriptors /\ f.rts = e.rts /\ f.misc = e.misc
        /\ e.rts = {} => f.sem = e.sem + 1 /\ f.rcode = rc
    BY <1>1, <1>6, <2>1, WakeFields
  <2>3. QED
    BY <1>6, <2>2
<1>8. Fit(p, f, "sending", Hit(p), Rolls(p))
  BY <1>4, <1>7 DEF Fit, Sender, SenderFlags
<1>9. /\ proc' \in [Procs -> Descriptors] /\ proc'[p] = f
      /\ \A q \in Procs \ {p} : proc'[q] = proc[q]
  BY <1>2, <1>7 DEF IInv, RestTyped
<1>10. taken[p] = 0 /\ taken \in [Procs -> Nat]
  BY <1>3, <1>5 DEF Sent, IInv, RestTyped
<1>11. /\ taken' \in [Procs -> Nat] /\ taken'[p] = (IF rc = "OK" THEN 1 ELSE 0)
       /\ \A q \in Procs \ {p} : taken'[q] = taken[q]
  BY <1>2, <1>10
<1>12. /\ pc' = pc /\ call' = call /\ ret' = ret /\ expired' = expired /\ flushed' = flushed
  BY <1>2 DEF thread
<1>13. RestTyped'
  BY <1>9, <1>11, <1>12 DEF IInv, RestTyped
<1>14. Sent(p, f, "sending", ret[p], taken'[p], flushed[p])
  BY <1>7, <1>11 DEF Sent
<1>15. Own(p)'
  <2>1. Hit(p)' = Hit(p) /\ Rolls(p)' = Rolls(p)
    BY <1>2 DEF Hit, Rolls, Walking, office
  <2>2. expired[p] => pc[p] \in {"migrating", "sending", "receiving"}
    BY Its
  <2>3. QED
    BY <1>2, <1>3, <1>8, <1>9, <1>12, <1>14, <2>1, <2>2 DEF Own, Good
<1>16. Others(p)
  BY <1>9, <1>11, <1>12 DEF Others
<1>17. ListsFit'
  <2>1. \A q \in Procs \ {p} : StillWaits(q) /\ StillSends(q)
    BY <1>9 DEF StillWaits, StillSends
  <2>2. StillWaits(p)
    BY <1>1, <1>5, <1>7, <1>9 DEF StillWaits
  <2>3. \A t \in Procs : p \notin Range(p_list[t])
    BY <1>1, <1>2 DEF IInv, ListsFit, SendsLinked
  <2>4. p_list' = p_list /\ p_mlist' = p_mlist
    BY <1>2 DEF lists
  <2>5. QED
    BY <2>1, <2>2, <2>3, <2>4, ListDropped DEF IInv, ListsFit, ListsTyped, LinkedOnce
<1>18. MlistGrows(p)
  BY <1>2, MlistStays DEF lists
<1>19. QED
  BY <1>2, <1>13, <1>15, <1>16, <1>17, <1>18, StepKeeps

LEMMA ThreadKeeps == ASSUME IInv, NEW p \in Procs, Step(p) PROVE IInv'
BY CheckCallerKeeps, ResumeKeeps, SendKeeps, SendAgainKeeps, SendGivesUpKeeps, SendDoneKeeps,
   AcknowledgedKeeps, ReceiveTakeKeeps, ReceiveBlockKeeps, ReceiveDoneKeeps, ExpireKeeps
DEF Step

-----------------------------------------------------------------------------
(* The administrator: what holds while it goes from one entry to the next *)

\* Nothing that the end of a flush clears keeps a thread asleep.
Steady(d) == "REMOTE" \in d.rts \/ ("MIGRATE" \notin d.rts /\ "NEEDMIGR" \notin d.misc)
WalkFit == Walking => Steady(proc[admin.proc])

ListsAs(ps, ls, ms) ==
    /\ ls \in [Procs -> Seq(Procs)] /\ ms \in [Procs -> Seq(Procs)]
    /\ \A p, d \in Procs :
          /\ p \in Range(ms[d]) <=> "WAITMIGR" \in ps[p].rts /\ ps[p].waitmigr = d
          /\ p \in Range(ls[d]) => "SENDING" \in ps[p].rts /\ ps[p].sendto = d
    /\ \A d \in Procs : IsInjective(ls[d]) /\ IsInjective(ms[d])

\* The descriptors ps fit where the threads are; t is rolled back if r.
Placed(ps, t, r) ==
    /\ ps \in [Procs -> Descriptors]
    /\ \A q \in Procs \ {t} : Fit(q, ps[q], pc'[q], FALSE, FALSE)
    /\ Fit(t, ps[t], pc'[t], FALSE, r)
    /\ \A q \in Procs :
          /\ Called(q, call'[q], pc'[q])
          /\ Sent(q, ps[q], pc'[q], ret'[q], taken'[q], flushed'[q])
          /\ expired'[q] => pc'[q] \in {"migrating", "sending", "receiving"}
    /\ ListsAs(ps, p_list', p_mlist')
OthersTyped ==
    /\ pc \in [Procs -> PcValues] /\ call \in [Procs -> CallRecords]
    /\ expired \in [Procs -> BOOLEAN] /\ ret \in [Procs -> {"none", "OK", "PROCRUN", "TIMEDOUT"}]
    /\ taken \in [Procs -> Nat] /\ flushed \in [Procs -> BOOLEAN]
    /\ starts \in 0 .. MaxStarts

LEMMA ListsFitAs == ListsFit <=> ListsAs(proc, p_list, p_mlist)
BY DEF ListsFit, ListsTyped, WaitsExact, SendsLinked, LinkedOnce, ListsAs

LEMMA PlacedLands ==
    ASSUME NEW t, NEW r, Placed(proc', t, r), OthersTyped', AdminFit', WalkFit',
           \A q \in Procs : Fit(q, proc'[q], pc'[q], Hit(q)', Rolls(q)')
    PROVE  IInv' /\ WalkFit'
<1>1. ListsFit'
  <2>1. ListsAs(proc', p_list', p_mlist')
    BY DEF Placed
  <2>2. QED
    BY <2>1, ListsFitAs DEF ListsFit, ListsTyped, WaitsExact, SendsLinked, LinkedOnce, ListsAs
<1>2. RestTyped'
  BY DEF Placed, OthersTyped, RestTyped
<1>3. AllGood'
  BY DEF AllGood, Good, Placed
<1>4. QED
  BY <1>1, <1>2, <1>3 DEF IInv

LEMMA NotWalking == Idle \notin AdminRecords /\ Wild \notin AdminRecords /\ Idle # Wild
BY DEF Idle, Wild, AdminRecords

LEMMA IdleLands ==
    ASSUME NEW t, Placed(proc', t, FALSE), OthersTyped', admin' = Idle
    PROVE  IInv' /\ WalkFit'
<1>1. ~Walking'
  BY DEF Walking
<1>2. \A q \in Procs : Hit(q)' = FALSE /\ Rolls(q)' = FALSE
  BY <1>1 DEF Hit, Rolls
<1>3. AdminFit' /\ WalkFit'
  BY <1>1 DEF AdminFit, WalkFit, OthersTyped
<1>4. \A q \in Procs : Fit(q, proc'[q], pc'[q], Hit(q)', Rolls(q)')
  BY <1>2 DEF Placed
<1>5. QED
  BY <1>3, <1>4, PlacedLands

\* Only the semaphore of a process without a flag depends on the flush to come.
LEMMA SendsFit ==
    ASSUME NEW p, NEW d, NEW l, NEW h, NEW r, "SENDING" \in d.rts, Fit(p, d, l, FALSE, r)
    PROVE  Fit(p, d, l, h, r) /\ SendsTo[p] # {}
<1>1. SendsTo[p] # {}
  BY DEF Fit, Receiver
<1>2. d.rts # {}
  OBVIOUS
<1>3. QED
  BY <1>1, <1>2 DEF Fit, Sender

LEMMA WildLands ==
    ASSUME NEW t, Placed(proc', t, FALSE), OthersTyped', admin' = Wild
    PROVE  IInv' /\ WalkFit'
<1>1. ~Walking'
  BY DEF Walking
<1>2. \A q \in Procs : Hit(q)' = FALSE /\ Rolls(q)' = FALSE
  BY <1>1 DEF Hit, Rolls
<1>3. AdminFit' /\ WalkFit'
  BY <1>1 DEF AdminFit, WalkFit, OthersTyped
<1>4. \A q \in Procs : Fit(q, proc'[q], pc'[q], Hit(q)', Rolls(q)')
  BY <1>2 DEF Placed
<1>5. QED
  BY <1>3, <1>4, PlacedLands

\* The node after the one the walk comes to.
LEMMA AfterType ==
    ASSUME NEW q \in Seq(Procs), IsInjective(q), NEW x \in Range(q), NEW a, a = After(q, x)
    PROVE  /\ x \in Procs /\ a \in Procs \cup {NONE}
           /\ q # <<>> /\ x = q[1] /\ a # NONE => Len(q) > 1 /\ a = q[2]
<1>1. PICK j \in DOMAIN q : q[j] = x
  BY DEF Range
<1>2. PICK k : k = CHOOSE i \in DOMAIN q : q[i] = x
  OBVIOUS
<1>3. k = j
  BY <1>1, <1>2 DEF IsInjective
<1>4. a = IF k < Len(q) THEN q[k + 1] ELSE NONE
  BY <1>2 DEF After
<1>5. j \in 1 .. Len(q) /\ Len(q) \in Nat
  BY <1>1
<1>6. x \in Procs /\ a \in Procs \cup {NONE}
  BY <1>1, <1>3, <1>4, <1>5
<1>7. ASSUME x = q[1], a # NONE PROVE Len(q) > 1 /\ a = q[2]
  <2>1. 1 \in DOMAIN q
    BY <1>5
  <2>2. j = 1
    BY <1>1, <1>7, <2>1 DEF IsInjective
  <2>3. QED
    BY <1>3, <1>4, <1>7, <2>2
<1>8. QED
  BY <1>6, <1>7

LEMMA WalkSendLands ==
    ASSUME NEW t \in Migrants, Placed(proc', t, FALSE), OthersTyped', Steady(proc'[t]), NEW x,
           Walk("old", t, "send", p_list'[t], x)
    PROVE  IInv' /\ WalkFit'
<1>1. CASE x \notin Range(p_list'[t])
  BY <1>1, WildLands DEF Walk
<1>2. CASE x \in Range(p_list'[t])
  <2>1. PICK s, a : s = p_list'[t] /\ a = After(s, x)
    OBVIOUS
  <2>2. admin' = [oper |-> "old", proc |-> t, list |-> "send", xpp |-> x, tmp |-> a]
    BY <1>2, <2>1 DEF Walk
  <2>3. t \in Procs /\ s \in Seq(Procs) /\ IsInjective(s)
    BY <2>1, CallsAssumption DEF Placed, ListsAs
  <2>4. x \in Procs /\ a \in Procs \cup {NONE}
    BY <1>2, <2>1, <2>3, AfterType
  <2>5. admin' \in AdminRecords
    BY <2>2, <2>3, <2>4 DEF AdminRecords
  <2>6. "SENDING" \in proc'[x].rts
    BY <1>2, <2>3, <2>4 DEF Placed, ListsAs
  <2>7. /\ admin'.oper = "old" /\ admin'.list = "send" /\ admin'.proc = t /\ admin'.xpp = x
    BY <2>2
  <2>8. Fit(x, proc'[x], pc'[x], FALSE, FALSE)
    BY <2>4 DEF Placed
  <2>9. SendsTo[x] # {} /\ Fit(x, proc'[x], pc'[x], TRUE, FALSE)
    BY <2>6, <2>8, SendsFit
  <2>10. AdminFit' /\ WalkFit'
    BY <2>5, <2>7, <2>9 DEF AdminFit, WalkFit, OthersTyped
  <2>11. ASSUME NEW q \in Procs PROVE Rolls(q)' = FALSE /\ (q # x => Hit(q)' = FALSE)
    BY <2>7 DEF Rolls, Hit
  <2>12. Hit(x)' \in BOOLEAN
    BY DEF Hit
  <2>13. ASSUME NEW q \in Procs
         PROVE  Fit(q, proc'[q], pc'[q], Hit(q)', Rolls(q)')
    <3>1. CASE q = x
      BY <2>8, <2>9, <2>11, <2>12, <3>1
    <3>2. CASE q # x
      <4>1. Fit(q, proc'[q], pc'[q], FALSE, FALSE)
        BY DEF Placed
      <4>2. QED
        BY <2>11, <3>2, <4>1
    <3>3. QED
      BY <3>1, <3>2
  <2>14. QED
    BY <2>10, <2>13, PlacedLands
<1>3. QED
  BY <1>1, <1>2

LEMMA WalkMigrLands ==
    ASSUME NEW t \in Migrants, NEW oper \in {"rollback", "old", "new", "third"},
           Placed(proc', t, oper = "rollback"), OthersTyped', Steady(proc'[t]),
           p_mlist'[t] # <<>>, NEW x, x = p_mlist'[t][1], Walk(oper, t, "migr", p_mlist'[t], x)
    PROVE  IInv' /\ WalkFit'
<1>1. PICK s, a : s = p_mlist'[t] /\ a = After(s, x)
  OBVIOUS
<1>2. t \in Procs /\ s \in Seq(Procs) /\ IsInjective(s) /\ s # <<>>
  BY <1>1, CallsAssumption DEF Placed, ListsAs
<1>3. x \in Range(s)
  <2>1. 1 \in DOMAIN s
    BY <1>2, EmptySeq, LenProperties
  <2>2. QED
    BY <1>1, <2>1 DEF Range
<1>4. admin' = [oper |-> oper, proc |-> t, list |-> "migr", xpp |-> x, tmp |-> a]
  BY <1>1, <1>3 DEF Walk
<1>5. x \in Procs /\ a \in Procs \cup {NONE} /\ (a # NONE => Len(s) > 1 /\ a = s[2])
  BY <1>1, <1>2, <1>3, AfterType
<1>6. admin' \in AdminRecords
  BY <1>2, <1>4, <1>5 DEF AdminRecords
<1>7. /\ admin'.oper = oper /\ admin'.list = "migr" /\ admin'.proc = t /\ admin'.xpp = x
      /\ admin'.tmp = a
  BY <1>4
<1>8. AdminFit'
  BY <1>1, <1>2, <1>5, <1>6, <1>7 DEF AdminFit, OthersTyped
<1>9. WalkFit'
  BY <1>7 DEF WalkFit
<1>10. admin' # Idle /\ admin' # Wild
  BY <1>6, NotWalking
<1>11. ASSUME NEW q \in Procs
       PROVE  Hit(q)' = FALSE /\ Rolls(q)' = IF q = t THEN oper = "rollback" ELSE FALSE
  BY <1>7, <1>10 DEF Rolls, Hit, Walking
<1>12. ASSUME NEW q \in Procs PROVE Fit(q, proc'[q], pc'[q], Hit(q)', Rolls(q)')
  <2>1. CASE q = t
    <3>1. Fit(t, proc'[t], pc'[t], FALSE, oper = "rollback")
      BY DEF Placed
    <3>2. QED
      BY <1>11, <2>1, <3>1
  <2>2. CASE q # t
    <3>1. Fit(q, proc'[q], pc'[q], FALSE, FALSE)
      BY <2>2 DEF Placed
    <3>2. QED
      BY <1>11, <2>2, <3>1
  <2>3. QED
    BY <2>1, <2>2
<1>13. QED
  BY <1>8, <1>9, <1>12, PlacedLands

-----------------------------------------------------------------------------
(* The end of a flush, and its beginning *)

LEMMA ListsSameAs ==
    ASSUME NEW ps, NEW qs, NEW ls, NEW ms, ListsAs(ps, ls, ms),
           \A q \in Procs : /\ "WAITMIGR" \in qs[q].rts <=> "WAITMIGR" \in ps[q].rts
                            /\ "SENDING" \in ps[q].rts => "SENDING" \in qs[q].rts
                            /\ qs[q].waitmigr = ps[q].waitmigr /\ qs[q].sendto = ps[q].sendto
    PROVE  ListsAs(qs, ls, ms)
BY DEF ListsAs

\* The descriptor of the process that migrates is changed to f.
LEMMA PlacedChange ==
    ASSUME NEW t \in Procs, NEW ps, NEW r, NEW s, Placed(ps, t, r), SendsTo[t] = {},
           NEW f \in Descriptors, Receiver(t, f, pc'[t], s),
           f.waitmigr = ps[t].waitmigr, f.sendto = ps[t].sendto,
           \A bit \in {"WAITMIGR", "SENDING"} : bit \in f.rts <=> bit \in ps[t].rts
    PROVE  Placed([ps EXCEPT ![t] = f], t, s)
<1>1. PICK qs : qs = [ps EXCEPT ![t] = f]
  OBVIOUS
<1>2. ps \in [Procs -> Descriptors]
  BY DEF Placed
<1>3. /\ qs \in [Procs -> Descriptors] /\ qs[t] = f
      /\ \A q \in Procs \ {t} : qs[q] = ps[q]
  BY <1>1, <1>2
<1>4. \A q \in Procs \ {t} : Fit(q, qs[q], pc'[q], FALSE, FALSE)
  BY <1>3 DEF Placed
<1>5. Fit(t, qs[t], pc'[t], FALSE, s)
  BY <1>3 DEF Fit
<1>6. ASSUME NEW q \in Procs
      PROVE  /\ Called(q, call'[q], pc'[q])
             /\ Sent(q, qs[q], pc'[q], ret'[q], taken'[q], flushed'[q])
             /\ expired'[q] => pc'[q] \in {"migrating", "sending", "receiving"}
  <2>1. /\ Called(q, call'[q], pc'[q])
        /\ Sent(q, ps[q], pc'[q], ret'[q], taken'[q], flushed'[q])
        /\ expired'[q] => pc'[q] \in {"migrating", "sending", "receiving"}
    BY DEF Placed
  <2>2. CASE q # t
    BY <1>3, <2>1, <2>2
  <2>3. CASE q = t
    <3>1. "SENDING" \in f.rts => "SENDING" \in ps[t].rts
      OBVIOUS
    <3>2. pc'[t] # "sending" /\ pc'[t] # "enter" /\ pc'[t] # "migrating"
      BY DEF Receiver
    <3>3. Sent(t, f, pc'[t], ret'[t], taken'[t], flushed'[t])
      BY <2>1, <2>3, <3>1, <3>2 DEF Sent
    <3>4. QED
      BY <1>3, <2>1, <2>3, <3>3
  <2>4. QED
    BY <2>2, <2>3
<1>7. ListsAs(qs, p_list', p_mlist')
  <2>1. ListsAs(ps, p_list', p_mlist')
    BY DEF Placed
  <2>2. \A q \in Procs : /\ "WAITMIGR" \in qs[q].rts <=> "WAITMIGR" \in ps[q].rts
                         /\ "SENDING" \in ps[q].rts => "SENDING" \in qs[q].rts
                         /\ qs[q].waitmigr = ps[q].waitmigr /\ qs[q].sendto = ps[q].sendto
    BY <1>3
  <2>3. QED
    BY <2>1, <2>2, ListsSameAs
<1>8. QED
  BY <1>1, <1>3, <1>4, <1>5, <1>6, <1>7 DEF Placed

LEMMA FinishLands ==
    ASSUME NEW t \in Migrants, NEW oper \in {"rollback", "old", "new", "third"}, NEW ps,
           Placed(ps, t, oper = "rollback"), OthersTyped', Steady(ps[t]),
           proc' = [ps EXCEPT ![t] = Finished(oper, @)], admin' = Idle
    PROVE  IInv' /\ WalkFit'
<1>1. t \in Procs /\ SendsTo[t] = {} /\ ps \in [Procs -> Descriptors]
  BY CallsAssumption, ServersMigrate DEF Placed
<1>2. PICK d, f, l : d = ps[t] /\ f = Finished(oper, d) /\ l = pc'[t]
  OBVIOUS
<1>3. d \in Descriptors /\ Receiver(t, d, l, oper = "rollback")
  BY <1>1, <1>2 DEF Placed, Fit
<1>4. /\ f \in Descriptors /\ Receiver(t, f, l, FALSE)
      /\ f.waitmigr = d.waitmigr /\ f.sendto = d.sendto
      /\ \A bit \in {"WAITMIGR", "SENDING"} : bit \in f.rts <=> bit \in d.rts
  <2>1. CASE oper = "rollback"
    <3>1. f = Wake(d, "OK") /\ Receiver(t, d, l, TRUE)
      BY <1>2, <1>3, <2>1 DEF Finished
    <3>2. d.rts = {} => d.sem <= 1
      BY <3>1 DEF Receiver, Image
    <3>3. /\ f \in Descriptors /\ f.rts = d.rts /\ f.misc = d.misc
          /\ f.nodeid = d.nodeid /\ f.sendto = d.sendto /\ f.waitmigr = d.waitmigr
          /\ d.rts # {} => f.sem = d.sem /\ f.rcode = d.rcode
          /\ d.rts = {} => f.sem = d.sem + 1 /\ f.rcode = "OK"
      BY <1>3, <3>1, <3>2, WakeFields
    <3>4. Receiver(t, f, l, FALSE)
      <4>1. CASE d.rts = {}
        BY <3>1, <3>3, <4>1 DEF Receiver, Image
      <4>2. CASE d.rts # {}
        <5>1. /\ f.sem = d.sem /\ f.rcode = d.rcode
          BY <3>3, <4>2
        <5>2. QED
          BY <3>1, <3>3, <4>2, <5>1 DEF Receiver, Image
      <4>3. QED
        BY <4>1, <4>2
    <3>5. QED
      BY <3>3, <3>4
  <2>2. CASE oper # "rollback"
    <3>1. f = Clear(d, {"MIGRATE"}) /\ Receiver(t, d, l, FALSE)
      BY <1>2, <1>3, <2>2 DEF Finished
    <3>2. /\ f \in Descriptors /\ f.rts = d.rts \ {"MIGRATE"} /\ f.misc = d.misc
          /\ f.nodeid = d.nodeid /\ f.sendto = d.sendto /\ f.waitmigr = d.waitmigr
          /\ f.sem = d.sem /\ f.rcode = d.rcode
      BY <1>3, <3>1, ClearFields
    <3>3. Receiver(t, f, l, FALSE)
      <4>1. CASE "REMOTE" \in d.rts
        BY <3>1, <3>2, <4>1 DEF Receiver, Image
      <4>2. CASE "REMOTE" \notin d.rts
        <5>1. f.rts = d.rts
          BY <1>2, <3>2, <4>2 DEF Steady
        <5>2. QED
          BY <3>1, <3>2, <5>1 DEF Receiver, Image
      <4>3. QED
        BY <4>1, <4>2
    <3>4. QED
      BY <3>2, <3>3
  <2>3. QED
    BY <2>1, <2>2
<1>5. proc' = [ps EXCEPT ![t] = f]
  BY <1>1, <1>2
<1>6. Placed([ps EXCEPT ![t] = f], t, FALSE)
  BY <1>1, <1>2, <1>4, PlacedChange
<1>7. Placed(proc', t, FALSE)
  BY <1>5, <1>6
<1>8. QED
  BY <1>7, IdleLands

LEMMA MigrFlushedLands ==
    ASSUME NEW t \in Migrants, NEW oper \in {"rollback", "old", "new", "third"}, NEW ps,
           Placed(ps, t, oper = "rollback"), OthersTyped', Steady(ps[t]), UNCHANGED p_list,
           MigrFlushed(oper, t, ps)
    PROVE  IInv' /\ WalkFit'
<1>1. CASE oper = "old" /\ p_list[t] # <<>>
  <2>1. proc' = ps /\ Walk("old", t, "send", p_list'[t], Head(p_list[t]))
    BY <1>1 DEF MigrFlushed
  <2>2. Placed(ps, t, FALSE)
    BY <1>1
  <2>3. QED
    BY <2>1, <2>2, WalkSendLands
<1>2. CASE ~(oper = "old" /\ p_list[t] # <<>>)
  <2>1. proc' = [ps EXCEPT ![t] = Finished(oper, @)] /\ admin' = Idle
    BY <1>2 DEF MigrFlushed
  <2>2. QED
    BY <2>1, FinishLands
<1>3. QED
  BY <1>1, <1>2

\* The thread of t goes to where the operation puts it.
LEMMA OperPlaced ==
    ASSUME IInv, admin = Idle, NEW t \in Migrants, NEW f \in Descriptors, NEW r,
           UNCHANGED <<lists, call, ret, hist>>,
           \A q \in Procs \ {t} : pc'[q] = pc[q] /\ expired'[q] = expired[q],
           Called(t, call[t], pc'[t]), expired'[t] => pc'[t] \in {"migrating", "sending", "receiving"},
           Receiver(t, f, pc'[t], r),
           f.waitmigr = proc[t].waitmigr, f.sendto = proc[t].sendto,
           \A bit \in {"WAITMIGR", "SENDING"} : bit \in f.rts <=> bit \in proc[t].rts
    PROVE  Placed([proc EXCEPT ![t] = f], t, r)
<1>1. t \in Procs /\ SendsTo[t] = {} /\ proc \in [Procs -> Descriptors]
  BY CallsAssumption, ServersMigrate DEF IInv, RestTyped
<1>2. PICK qs : qs = [proc EXCEPT ![t] = f]
  OBVIOUS
<1>3. /\ qs \in [Procs -> Descriptors] /\ qs[t] = f
      /\ \A q \in Procs \ {t} : qs[q] = proc[q]
  BY <1>1, <1>2
<1>4. \A q \in Procs : Hit(q) = FALSE /\ Rolls(q) = FALSE
  BY DEF Hit, Rolls, Walking
<1>5. ASSUME NEW q \in Procs \ {t} PROVE Fit(q, qs[q], pc'[q], FALSE, FALSE)
  <2>1. Fit(q, proc[q], pc[q], Hit(q), Rolls(q))
    BY Its
  <2>2. QED
    BY <1>3, <1>4, <2>1
<1>6. Fit(t, qs[t], pc'[t], FALSE, r)
  BY <1>1, <1>3 DEF Fit
<1>7. call' = call /\ ret' = ret /\ taken' = taken /\ flushed' = flushed
      /\ p_list' = p_list /\ p_mlist' = p_mlist
  BY DEF hist, lists
<1>8. ASSUME NEW q \in Procs
      PROVE  /\ Called(q, call'[q], pc'[q])
             /\ Sent(q, qs[q], pc'[q], ret'[q], taken'[q], flushed'[q])
             /\ expired'[q] => pc'[q] \in {"migrating", "sending", "receiving"}
  <2>1. /\ Called(q, call[q], pc[q])
        /\ Sent(q, proc[q], pc[q], ret[q], taken[q], flushed[q])
        /\ expired[q] => pc[q] \in {"migrating", "sending", "receiving"}
    BY Its
  <2>2. CASE q # t
    BY <1>3, <1>7, <2>1, <2>2
  <2>3. CASE q = t
    <3>1. "SENDING" \in f.rts => "SENDING" \in proc[t].rts
      OBVIOUS
    <3>2. pc'[t] # "sending" /\ pc'[t] # "enter" /\ pc'[t] # "migrating"
      BY DEF Receiver
    <3>3. Sent(t, f, pc'[t], ret[t], taken[t], flushed[t])
      BY <1>1, <2>1, <2>3, <3>1, <3>2 DEF Sent
    <3>4. QED
      BY <1>3, <1>7, <2>3, <3>3
  <2>4. QED
    BY <2>2, <2>3
<1>9. ListsAs(qs, p_list', p_mlist')
  <2>1. ListsAs(proc, p_list', p_mlist')
    BY <1>7, ListsFitAs DEF IInv
  <2>2. \A q \in Procs : /\ "WAITMIGR" \in qs[q].rts <=> "WAITMIGR" \in proc[q].rts
                         /\ "SENDING" \in proc[q].rts => "SENDING" \in qs[q].rts
                         /\ qs[q].waitmigr = proc[q].waitmigr /\ qs[q].sendto = proc[q].sendto
    BY <1>3
  <2>3. QED
    BY <2>1, <2>2, ListsSameAs
<1>10. QED
  BY <1>2, <1>3, <1>5, <1>6, <1>8, <1>9 DEF Placed

LEMMA FlushLands ==
    ASSUME NEW t \in Migrants, NEW oper \in {"rollback", "old", "new", "third"}, NEW f,
           Placed([proc EXCEPT ![t] = f], t, oper = "rollback"), OthersTyped', Steady(f),
           proc \in [Procs -> Descriptors], UNCHANGED lists, Flush(oper, t, f)
    PROVE  IInv' /\ WalkFit'
<1>1. PICK ps : ps = [proc EXCEPT ![t] = f]
  OBVIOUS
<1>2. t \in Procs /\ ps[t] = f /\ p_mlist' = p_mlist /\ p_list' = p_list
  BY <1>1, CallsAssumption DEF lists
<1>3. Placed(ps, t, oper = "rollback") /\ Steady(ps[t])
  BY <1>1, <1>2
<1>4. CASE p_mlist[t] # <<>>
  <2>1. proc' = ps /\ Walk(oper, t, "migr", p_mlist'[t], Head(p_mlist'[t]))
    BY <1>1, <1>2, <1>4 DEF Flush
  <2>2. PICK x : x = p_mlist'[t][1]
    OBVIOUS
  <2>3. x = Head(p_mlist'[t])
    <3>1. p_mlist'[t] \in Seq(Procs) /\ p_mlist'[t] # <<>>
      BY <1>2, <1>3, <1>4 DEF Placed, ListsAs
    <3>2. QED
      BY <2>2, <3>1, HeadTailProperties
  <2>4. QED
    BY <1>2, <1>3, <1>4, <2>1, <2>2, <2>3, WalkMigrLands
<1>5. CASE p_mlist[t] = <<>>
  <2>1. MigrFlushed(oper, t, ps)
    BY <1>1, <1>5 DEF Flush
  <2>2. QED
    BY <1>2, <1>3, <2>1, MigrFlushedLands
<1>6. QED
  BY <1>4, <1>5

-----------------------------------------------------------------------------
(* new_migrate *)

\* What is known of the process that is to migrate.
LEMMA Migrant ==
    ASSUME IInv, admin = Idle, NEW t \in Migrants
    PROVE  /\ t \in Procs /\ SendsTo[t] = {} /\ proc[t] \in Descriptors
           /\ Receiver(t, proc[t], pc[t], FALSE) /\ Called(t, call[t], pc[t])
           /\ expired[t] => pc[t] \in {"migrating", "sending", "receiving"}
           /\ proc \in [Procs -> Descriptors]
<1>1. t \in Procs /\ SendsTo[t] = {}
  BY CallsAssumption, ServersMigrate
<1>2. Rolls(t) = FALSE
  BY DEF Rolls, Walking
<1>3. Fit(t, proc[t], pc[t], Hit(t), Rolls(t))
  BY <1>1, Its
<1>4. Receiver(t, proc[t], pc[t], FALSE)
  BY <1>1, <1>2, <1>3 DEF Fit
<1>5. QED
  BY <1>1, <1>4, Its DEF IInv, RestTyped

LEMMA OthersStay ==
    ASSUME IInv, UNCHANGED <<starts, thread, hist>>
    PROVE  OthersTyped' /\ UNCHANGED <<call, ret>> /\ pc' = pc /\ expired' = expired
BY DEF IInv, RestTyped, AdminFit, OthersTyped, thread, hist

\* The thread of t stays where it is.
LEMMA OperPlacedHere ==
    ASSUME IInv, admin = Idle, NEW t \in Migrants, NEW f \in Descriptors, NEW r,
           UNCHANGED <<lists, thread, hist>>, Receiver(t, f, pc[t], r),
           f.waitmigr = proc[t].waitmigr, f.sendto = proc[t].sendto,
           \A bit \in {"WAITMIGR", "SENDING"} : bit \in f.rts <=> bit \in proc[t].rts
    PROVE  Placed([proc EXCEPT ![t] = f], t, r)
<1>1. pc' = pc /\ expired' = expired /\ UNCHANGED <<call, ret>>
  BY DEF thread
<1>2. /\ Called(t, call[t], pc[t])
      /\ expired[t] => pc[t] \in {"migrating", "sending", "receiving"}
  BY Migrant
<1>3. /\ Called(t, call[t], pc'[t]) /\ Receiver(t, f, pc'[t], r)
      /\ expired'[t] => pc'[t] \in {"migrating", "sending", "receiving"}
      /\ \A q \in Procs \ {t} : pc'[q] = pc[q] /\ expired'[q] = expired[q]
  BY <1>1, <1>2
<1>4. QED
  BY <1>1, <1>3, OperPlaced

LEMMA StartKeeps == ASSUME IInv, NEW t \in Procs, Start(t) PROVE IInv' /\ WalkFit'
<1>1. PICK d, f : d = proc[t] /\ f = Told(d)
  OBVIOUS
<1>2. /\ admin = Idle /\ t \in Migrants /\ starts < MaxStarts /\ starts' = starts + 1
      /\ ~Image(d) /\ proc' = [proc EXCEPT ![t] = f] /\ UNCHANGED <<lists, thread, admin, hist>>
  BY <1>1 DEF Start, Image, IInv, RestTyped
<1>3. d \in Descriptors /\ Receiver(t, d, pc[t], FALSE)
  BY <1>1, <1>2, Migrant
<1>4. /\ f \in Descriptors /\ Receiver(t, f, pc[t], FALSE)
      /\ f.waitmigr = d.waitmigr /\ f.sendto = d.sendto
      /\ \A bit \in {"WAITMIGR", "SENDING"} : bit \in f.rts <=> bit \in d.rts
  <2>1. CASE d.rts = {}
    <3>1. /\ f \in Descriptors /\ f.rts = {} /\ f.misc = d.misc \cup {"NEEDMIGR"}
          /\ f.nodeid = d.nodeid /\ f.sem = d.sem /\ f.rcode = d.rcode
          /\ f.waitmigr = d.waitmigr /\ f.sendto = d.sendto
      BY <1>1, <1>3, <2>1 DEF Descriptors, Told
    <3>2. Receiver(t, f, pc[t], FALSE)
      BY <1>2, <1>3, <2>1, <3>1 DEF Receiver, Image
    <3>3. QED
      BY <2>1, <3>1, <3>2
  <2>2. CASE d.rts # {}
    <3>1. /\ f \in Descriptors /\ f.rts = d.rts \cup {"MIGRATE"} /\ f.misc = d.misc
          /\ f.nodeid = d.nodeid /\ f.sem = d.sem /\ f.rcode = d.rcode
          /\ f.waitmigr = d.waitmigr /\ f.sendto = d.sendto
      BY <1>1, <1>3, <2>2, SetFields DEF RtsFlags, Told
    <3>2. Receiver(t, f, pc[t], FALSE)
      BY <1>2, <1>3, <2>2, <3>1 DEF Receiver, Image
    <3>3. QED
      BY <3>1, <3>2
  <2>3. QED
    BY <2>1, <2>2
<1>5. Placed(proc', t, FALSE)
  BY <1>1, <1>2, <1>4, OperPlacedHere
<1>6. OthersTyped'
  <2>1. starts' \in 0 .. MaxStarts
    BY <1>2, BoundAssumption DEF IInv, AdminFit
  <2>2. QED
    BY <1>2, <2>1 DEF IInv, RestTyped, OthersTyped, thread, hist
<1>7. QED
  BY <1>2, <1>5, <1>6, IdleLands

LEMMA RolledBackFields ==
    ASSUME NEW d \in Descriptors, NEW e, e = RolledBack(d)
    PROVE  /\ e \in Descriptors /\ e.rts = d.rts \ {"MIGRATE"} /\ e.misc = d.misc \ {"NEEDMIGR"}
           /\ e.nodeid = d.nodeid /\ e.sendto = d.sendto /\ e.waitmigr = d.waitmigr
           /\ e.sem = d.sem /\ e.rcode = d.rcode
BY DEF Descriptors, RolledBack, Clear

LEMMA RollbackKeeps == ASSUME IInv, NEW t \in Procs, Rollback(t) PROVE IInv' /\ WalkFit'
<1>1. PICK d, f : d = proc[t] /\ f = RolledBack(d)
  OBVIOUS
<1>2. /\ admin = Idle /\ t \in Migrants /\ "MIGRATE" \in d.rts
      /\ IF "REMOTE" \in d.rts THEN proc' = [proc EXCEPT ![t] = f] /\ admin' = Idle
         ELSE Flush("rollback", t, f)
      /\ UNCHANGED <<starts, lists, thread, hist>>
  BY <1>1 DEF Rollback, Has, IInv, RestTyped
<1>3. /\ d \in Descriptors /\ Receiver(t, d, pc[t], FALSE) /\ proc \in [Procs -> Descriptors]
  BY <1>1, <1>2, Migrant
<1>4. /\ f \in Descriptors /\ f.rts = d.rts \ {"MIGRATE"} /\ f.misc = d.misc \ {"NEEDMIGR"}
      /\ f.nodeid = d.nodeid /\ f.sendto = d.sendto /\ f.waitmigr = d.waitmigr
      /\ f.sem = d.sem /\ f.rcode = d.rcode
  BY <1>1, <1>3, RolledBackFields
<1>5. \A bit \in {"WAITMIGR", "SENDING"} : bit \in f.rts <=> bit \in d.rts
  BY <1>4
<1>6. OthersTyped'
  BY <1>2, OthersStay
<1>7. CASE "REMOTE" \in d.rts
  <2>1. Receiver(t, f, pc[t], FALSE)
    BY <1>2, <1>3, <1>4, <1>7 DEF Receiver, Image
  <2>2. Placed([proc EXCEPT ![t] = f], t, FALSE)
    BY <1>1, <1>2, <1>4, <1>5, <2>1, OperPlacedHere
  <2>3. proc' = [proc EXCEPT ![t] = f]
    BY <1>2, <1>7
  <2>4. Placed(proc', t, FALSE)
    BY <2>2, <2>3
  <2>5. QED
    BY <1>2, <1>6, <1>7, <2>4, IdleLands
<1>8. CASE "REMOTE" \notin d.rts
  <2>1. Receiver(t, f, pc[t], TRUE)
    BY <1>2, <1>3, <1>4, <1>8 DEF Receiver, Image
  <2>2. Placed([proc EXCEPT ![t] = f], t, TRUE)
    BY <1>1, <1>2, <1>4, <1>5, <2>1, OperPlacedHere
  <2>3. Steady(f)
    BY <1>4 DEF Steady
  <2>4. PICK oper : oper = "rollback"
    OBVIOUS
  <2>5. Placed([proc EXCEPT ![t] = f], t, oper = "rollback")
    BY <2>2, <2>4
  <2>6. oper \in {"rollback", "old", "new", "third"} /\ UNCHANGED lists /\ Flush(oper, t, f)
    BY <1>2, <1>8, <2>4
  <2>7. QED
    BY <1>2, <1>3, <1>6, <2>3, <2>5, <2>6, FlushLands
<1>9. QED
  BY <1>7, <1>8

\* A commit is no rollback.
LEMMA CommitLands ==
    ASSUME NEW t \in Migrants, NEW oper \in {"old", "new", "third"}, NEW f,
           Placed([proc EXCEPT ![t] = f], t, FALSE), OthersTyped', Steady(f),
           proc \in [Procs -> Descriptors], UNCHANGED lists, Flush(oper, t, f)
    PROVE  IInv' /\ WalkFit'
<1>1. oper \in {"rollback", "old", "new", "third"} /\ (oper = "rollback") = FALSE
  OBVIOUS
<1>2. Placed([proc EXCEPT ![t] = f], t, oper = "rollback")
  BY <1>1
<1>3. QED
  BY <1>1, <1>2, FlushLands

LEMMA CommitOldKeeps ==
    ASSUME IInv, NEW t \in Procs, NEW n \in Nodes, CommitOld(t, n) PROVE IInv' /\ WalkFit'
<1>1. PICK d, f : /\ d = proc[t]
                  /\ f = [d EXCEPT !.nodeid = n, !.rts = (@ \ {"MIGRATE"}) \cup {"REMOTE"},
                                   !.misc = @ \cup {"RMTBACKUP"}]
  OBVIOUS
<1>2. /\ admin = Idle /\ t \in Migrants /\ "MIGRATE" \in d.rts /\ ~Image(d) /\ d.nodeid = local
      /\ n # local /\ Flush("old", t, f) /\ UNCHANGED <<starts, lists, thread, hist>>
  BY <1>1 DEF CommitOld, Commits, Has, Image
<1>3. /\ d \in Descriptors /\ Receiver(t, d, pc[t], FALSE) /\ proc \in [Procs -> Descriptors]
  BY <1>1, <1>2, Migrant
<1>4. /\ f \in Descriptors /\ f.rts = (d.rts \ {"MIGRATE"}) \cup {"REMOTE"}
      /\ f.misc = d.misc \cup {"RMTBACKUP"} /\ f.nodeid = n
      /\ f.sendto = d.sendto /\ f.waitmigr = d.waitmigr /\ f.sem = d.sem /\ f.rcode = d.rcode
  BY <1>1, <1>3 DEF Descriptors, RtsFlags
<1>5. \A bit \in {"WAITMIGR", "SENDING"} : bit \in f.rts <=> bit \in d.rts
  BY <1>4
<1>6. Receiver(t, f, pc[t], FALSE)
  BY <1>2, <1>3, <1>4 DEF Receiver, Image
<1>7. Placed([proc EXCEPT ![t] = f], t, FALSE)
  BY <1>1, <1>2, <1>4, <1>5, <1>6, OperPlacedHere
<1>8. OthersTyped'
  BY <1>2, OthersStay
<1>9. Steady(f)
  BY <1>4 DEF Steady
<1>10. QED
  BY <1>2, <1>3, <1>7, <1>8, <1>9, CommitLands

LEMMA CommitThirdKeeps ==
    ASSUME IInv, NEW t \in Procs, NEW n \in Nodes, CommitThird(t, n) PROVE IInv' /\ WalkFit'
<1>1. PICK d, f : d = proc[t] /\ f = [d EXCEPT !.nodeid = n]
  OBVIOUS
<1>2. /\ admin = Idle /\ t \in Migrants /\ "MIGRATE" \in d.rts /\ ~Image(d)
      /\ d.nodeid # local /\ n # local /\ Flush("third", t, f)
      /\ UNCHANGED <<starts, lists, thread, hist>>
  BY <1>1 DEF CommitThird, Commits, Has, Image
<1>3. /\ d \in Descriptors /\ Receiver(t, d, pc[t], FALSE) /\ proc \in [Procs -> Descriptors]
  BY <1>1, <1>2, Migrant
<1>4. /\ f \in Descriptors /\ f.rts = d.rts /\ f.misc = d.misc /\ f.nodeid = n
      /\ f.sendto = d.sendto /\ f.waitmigr = d.waitmigr /\ f.sem = d.sem /\ f.rcode = d.rcode
  BY <1>1, <1>3 DEF Descriptors
<1>5. "REMOTE" \in f.rts /\ Receiver(t, f, pc[t], FALSE)
  BY <1>2, <1>3, <1>4 DEF Receiver, Image
<1>6. Placed([proc EXCEPT ![t] = f], t, FALSE)
  BY <1>1, <1>2, <1>4, <1>5, OperPlacedHere
<1>7. OthersTyped'
  BY <1>2, OthersStay
<1>8. Steady(f)
  BY <1>5 DEF Steady
<1>9. QED
  BY <1>2, <1>3, <1>6, <1>7, <1>8, CommitLands

LEMMA CommitNewKeeps == ASSUME IInv, NEW t \in Procs, CommitNew(t) PROVE IInv' /\ WalkFit'
<1>1. PICK d, f : d = proc[t] /\ f = [d EXCEPT !.nodeid = local, !.rts = {}]
  OBVIOUS
<1>2. /\ admin = Idle /\ t \in Migrants /\ ~Image(d) /\ d.nodeid # local
      /\ Flush("new", t, f) /\ Goto(t, "user") /\ UNCHANGED <<starts, lists, call, ret, hist>>
  BY <1>1 DEF CommitNew, Commits, Image
<1>3. /\ d \in Descriptors /\ Receiver(t, d, pc[t], FALSE) /\ proc \in [Procs -> Descriptors]
      /\ t \in Procs
  BY <1>1, <1>2, Migrant
<1>4. /\ f \in Descriptors /\ f.rts = {} /\ f.misc = d.misc /\ f.nodeid = local
      /\ f.sendto = d.sendto /\ f.waitmigr = d.waitmigr /\ f.sem = d.sem /\ f.rcode = d.rcode
  BY <1>1, <1>3, NodesAssumption DEF Descriptors
<1>5. pc[t] = "away" /\ d.rts \subseteq {"REMOTE", "MIGRATE"} /\ d.sem = 0 /\ d.misc = {}
  BY <1>2, <1>3 DEF Receiver
<1>6. Receiver(t, f, "user", FALSE)
  BY <1>4, <1>5 DEF Receiver, Image
<1>7. \A bit \in {"WAITMIGR", "SENDING"} : bit \in f.rts <=> bit \in d.rts
  BY <1>4, <1>5
<1>8. /\ pc' \in [Procs -> PcValues] /\ expired' \in [Procs -> BOOLEAN]
      /\ pc'[t] = "user" /\ expired'[t] = FALSE
      /\ \A q \in Procs \ {t} : pc'[q] = pc[q] /\ expired'[q] = expired[q]
  <2>1. "user" \in PcValues
    BY DEF PcValues
  <2>2. QED
    BY <1>2, <1>3, <2>1, GotoTyped DEF IInv
<1>9. Called(t, call[t], "user")
  BY DEF Called
<1>10. Placed([proc EXCEPT ![t] = f], t, FALSE)
  BY <1>1, <1>2, <1>4, <1>6, <1>7, <1>8, <1>9, OperPlaced
<1>11. OthersTyped'
  BY <1>2, <1>8 DEF IInv, RestTyped, AdminFit, OthersTyped, hist
<1>12. Steady(f)
  BY <1>4, <1>5 DEF Steady
<1>13. QED
  BY <1>2, <1>3, <1>10, <1>11, <1>12, CommitLands

\* Where the administrator is.
LEMMA WalkerIs ==
    ASSUME IInv, Walking
    PROVE  /\ admin.oper \in {"rollback", "old", "new", "third"} /\ admin.list \in {"migr", "send"}
           /\ admin.proc \in Migrants /\ admin.proc \in Procs /\ admin.xpp \in Procs
           /\ admin.tmp \in Procs \cup {NONE} /\ SendsTo[admin.proc] = {}
           /\ admin # Idle /\ admin # Wild
<1>1. admin \in AdminRecords /\ admin.proc \in Migrants /\ admin # Idle /\ admin # Wild
  BY DEF IInv, AdminFit, Walking
<1>2. SendsTo[admin.proc] = {}
  BY <1>1, ServersMigrate
<1>3. QED
  BY <1>1, <1>2 DEF AdminRecords

LEMMA FlushMigrKeeps == ASSUME IInv, WalkFit, FlushMigr PROVE IInv' /\ WalkFit'
<1>1. PICK oper, t, x, s : oper = admin.oper /\ t = admin.proc /\ x = admin.xpp /\ s = p_mlist[t]
  OBVIOUS
<1>2. PICK d, e, f : /\ d = proc[x] /\ e = [Clear(d, {"WAITMIGR"}) EXCEPT !.waitmigr = NONE]
                     /\ f = Wake(e, "OK")
  OBVIOUS
<1>3. Walking /\ admin.list = "migr"
  BY DEF FlushMigr, Walking
<1>4. /\ oper \in {"rollback", "old", "new", "third"} /\ t \in Migrants /\ t \in Procs
      /\ x \in Procs /\ SendsTo[t] = {}
  BY <1>1, <1>3, WalkerIs
<1>5. /\ s \in Seq(Procs) /\ IsInjective(s) /\ s # <<>> /\ x = s[1]
      /\ admin.tmp # NONE => Len(s) > 1 /\ admin.tmp = s[2]
  BY <1>1, <1>3, <1>4 DEF IInv, AdminFit, ListsFit, ListsTyped, LinkedOnce
<1>6. PICK u : u = Without(s, x)
  OBVIOUS
<1>7. u \in Seq(Procs) /\ IsInjective(u) /\ Range(u) = Range(s) \ {x} /\ x \in Range(s)
  <2>1. 1 \in DOMAIN s
    BY <1>5, EmptySeq, LenProperties
  <2>2. x \in Range(s)
    BY <1>5, <2>1 DEF Range
  <2>3. QED
    BY <1>5, <1>6, <2>2, WithoutExact
<1>8. admin.tmp # NONE => u # <<>> /\ admin.tmp = u[1]
  <2>1. Len(u) = Len(s) - 1 /\ \A j \in 1 .. Len(s) - 1 : u[j] = s[j + 1]
    BY <1>5, <1>6, WithoutHead
  <2>2. ASSUME admin.tmp # NONE PROVE u # <<>> /\ admin.tmp = u[1]
    <3>1. Len(s) > 1 /\ admin.tmp = s[2] /\ Len(s) \in Nat
      BY <1>5, <2>2
    <3>2. 1 \in 1 .. Len(s) - 1 /\ 1 + 1 = 2 /\ Len(s) - 1 # 0
      BY <3>1
    <3>3. u[1] = s[2] /\ Len(u) # 0
      BY <2>1, <3>2
    <3>4. QED
      BY <3>1, <3>3
  <2>3. QED
    BY <2>2
<1>9. "WAITMIGR" \in d.rts /\ d.waitmigr = t
  BY <1>1, <1>2, <1>4, <1>7 DEF IInv, ListsFit, WaitsExact
<1>10. PICK ps : ps = [proc EXCEPT ![x] = f]
  OBVIOUS
<1>11. /\ p_mlist' = [p_mlist EXCEPT ![t] = u]
       /\ IF admin.tmp = NONE THEN MigrFlushed(oper, t, ps)
          ELSE proc' = ps /\ Walk(oper, t, "migr", p_mlist'[t], admin.tmp)
       /\ UNCHANGED <<starts, p_list, thread, hist>>
  <2>1. proc \in [Procs -> Descriptors]
    BY DEF IInv, RestTyped
  <2>2. ps = [proc EXCEPT ![x] = IF @.waitmigr = t
                 THEN Wake([Clear(@, {"WAITMIGR"}) EXCEPT !.waitmigr = NONE], "OK") ELSE @]
    BY <1>2, <1>4, <1>9, <1>10, <2>1
  <2>3. QED
    BY <1>1, <1>6, <2>2 DEF FlushMigr
<1>12. /\ d \in Descriptors /\ Fit(x, d, pc[x], Hit(x), Rolls(x))
       /\ Called(x, call[x], pc[x]) /\ Sent(x, d, pc[x], ret[x], taken[x], flushed[x])
  BY <1>2, <1>4, Its
<1>13. \A q \in Procs : Hit(q) = FALSE /\ Rolls(q) = IF q = t THEN oper = "rollback" ELSE FALSE
  BY <1>1, <1>3 DEF Hit, Rolls
<1>14. /\ e \in Descriptors /\ e.rts = d.rts \ {"WAITMIGR"} /\ e.misc = d.misc
       /\ e.nodeid = d.nodeid /\ e.sendto = d.sendto /\ e.waitmigr = NONE
       /\ e.sem = d.sem /\ e.rcode = d.rcode
  <2>1. d \in Descriptors
    BY <1>12
  <2>2. QED
    BY <1>2, <2>1, UnwaitFields
<1>15. /\ f \in Descriptors /\ f.rts = d.rts \ {"WAITMIGR"} /\ f.misc = d.misc
       /\ f.nodeid = d.nodeid /\ f.sendto = d.sendto
       /\ Fit(x, f, pc[x], FALSE, Rolls(x))
       /\ Sent(x, f, pc[x], ret[x], taken[x], flushed[x])
  <2>1. CASE SendsTo[x] # {}
    <3>1. Sender(d, pc[x], FALSE)
      BY <1>4, <1>12, <1>13, <2>1 DEF Fit
    <3>2. d.rts = {"WAITMIGR"} /\ d.misc = {} /\ pc[x] \in {"user", "migrating"}
          /\ d.sem = IF pc[x] = "user" THEN 0 ELSE -1
      BY <1>9, <3>1 DEF Sender, SenderFlags
    <3>3. e.rts = {} /\ e.sem <= 1
      BY <1>14, <3>2
    <3>4. /\ f \in Descriptors /\ f.rts = e.rts /\ f.misc = e.misc
          /\ f.nodeid = e.nodeid /\ f.sendto = e.sendto
          /\ e.rts = {} => f.sem = e.sem + 1 /\ f.rcode = "OK"
      <4>1. e \in Descriptors /\ (e.rts = {} => e.sem <= 1) /\ f = Wake(e, "OK")
        BY <1>2, <1>14, <3>3
      <4>2. QED
        BY <4>1, WakeFields
    <3>5. f.rts = {} /\ f.misc = {} /\ f.sem \in 0 .. 1 /\ f.rcode = "OK"
      BY <1>14, <3>2, <3>3, <3>4
    <3>6. Sender(f, pc[x], FALSE)
      BY <3>2, <3>5 DEF Sender, SenderFlags
    <3>7. Sent(x, f, pc[x], ret[x], taken[x], flushed[x])
      BY <1>12, <3>2, <3>5 DEF Sent
    <3>8. QED
      BY <1>14, <2>1, <3>4, <3>6, <3>7 DEF Fit
  <2>2. CASE SendsTo[x] = {}
    <3>1. Receiver(x, d, pc[x], Rolls(x))
      BY <1>12, <2>2 DEF Fit
    <3>2. pc[x] = "backup" /\ "REMOTE" \in d.rts /\ "SENDING" \notin d.rts
      BY <1>9, <3>1 DEF Receiver, Image
    <3>3. f = e
      BY <1>2, <1>14, <3>2 DEF Wake
    <3>4. Receiver(x, f, pc[x], Rolls(x))
      BY <1>14, <3>1, <3>2, <3>3 DEF Receiver, Image
    <3>5. Sent(x, f, pc[x], ret[x], taken[x], flushed[x])
      BY <1>12, <1>14, <3>2, <3>3 DEF Sent
    <3>6. QED
      BY <1>14, <2>2, <3>3, <3>4, <3>5 DEF Fit
  <2>3. QED
    BY <2>1, <2>2
<1>16. /\ ps \in [Procs -> Descriptors] /\ ps[x] = f
       /\ \A q \in Procs \ {x} : ps[q] = proc[q]
  BY <1>4, <1>10, <1>15 DEF IInv, RestTyped
<1>17. /\ pc' = pc /\ call' = call /\ ret' = ret /\ expired' = expired /\ taken' = taken
       /\ flushed' = flushed /\ p_list' = p_list /\ OthersTyped'
  BY <1>11, OthersStay DEF hist
<1>18. \A q \in Procs : Fit(q, ps[q], pc'[q], FALSE, IF q = t THEN oper = "rollback" ELSE FALSE)
  <2>1. ASSUME NEW q \in Procs PROVE Fit(q, ps[q], pc[q], FALSE, Rolls(q))
    <3>1. CASE q = x
      BY <1>15, <1>16, <3>1
    <3>2. CASE q # x
      <4>1. Fit(q, proc[q], pc[q], Hit(q), Rolls(q))
        BY Its
      <4>2. QED
        BY <1>13, <1>16, <3>2, <4>1
    <3>3. QED
      BY <3>1, <3>2
  <2>2. QED
    BY <1>13, <1>17, <2>1
<1>19. \A q \in Procs : /\ Called(q, call'[q], pc'[q])
                        /\ Sent(q, ps[q], pc'[q], ret'[q], taken'[q], flushed'[q])
                        /\ expired'[q] => pc'[q] \in {"migrating", "sending", "receiving"}
  BY <1>15, <1>16, <1>17, Its
<1>20. ListsAs(ps, p_list', p_mlist')
  <2>1. ListsFit
    BY DEF IInv
  <2>2. /\ p_mlist' \in [Procs -> Seq(Procs)] /\ p_mlist'[t] = u
        /\ \A q \in Procs \ {t} : p_mlist'[q] = p_mlist[q]
    BY <1>4, <1>7, <1>11, <2>1 DEF ListsFit, ListsTyped
  <2>3. ASSUME NEW q \in Procs, NEW o \in Procs
        PROVE  q \in Range(p_mlist'[o]) <=> "WAITMIGR" \in ps[q].rts /\ ps[q].waitmigr = o
    <3>1. q \in Range(p_mlist[o]) <=> "WAITMIGR" \in proc[q].rts /\ proc[q].waitmigr = o
      BY <2>1 DEF ListsFit, WaitsExact
    <3>2. CASE q # x
      BY <1>1, <1>7, <1>16, <2>2, <3>1, <3>2
    <3>3. CASE q = x
      BY <1>1, <1>2, <1>7, <1>9, <1>15, <1>16, <2>2, <3>1, <3>3
    <3>4. QED
      BY <3>2, <3>3
  <2>4. ASSUME NEW q \in Procs, NEW o \in Procs, q \in Range(p_list[o])
        PROVE  "SENDING" \in ps[q].rts /\ ps[q].sendto = o
    <3>1. "SENDING" \in proc[q].rts /\ proc[q].sendto = o
      BY <2>1, <2>4 DEF ListsFit, SendsLinked
    <3>2. QED
      BY <1>2, <1>15, <1>16, <3>1
  <2>5. \A o \in Procs : IsInjective(p_list'[o]) /\ IsInjective(p_mlist'[o])
    BY <1>7, <1>17, <2>1, <2>2 DEF ListsFit, LinkedOnce
  <2>6. QED
    BY <1>17, <2>1, <2>2, <2>3, <2>4, <2>5 DEF ListsAs, ListsFit, ListsTyped
<1>21. Placed(ps, t, oper = "rollback")
  <2>1. \A q \in Procs \ {t} : Fit(q, ps[q], pc'[q], FALSE, FALSE)
    BY <1>18
  <2>2. Fit(t, ps[t], pc'[t], FALSE, oper = "rollback")
    BY <1>4, <1>18
  <2>3. QED
    BY <1>16, <1>19, <1>20, <2>1, <2>2 DEF Placed
<1>22. Steady(ps[t])
  <2>1. Steady(proc[t])
    BY <1>1, <1>3 DEF WalkFit
  <2>2. CASE t = x
    BY <1>2, <1>15, <1>16, <2>1, <2>2 DEF Steady
  <2>3. CASE t # x
    BY <1>4, <1>16, <2>1, <2>3
  <2>4. QED
    BY <2>2, <2>3
<1>23. CASE admin.tmp = NONE
  BY <1>4, <1>11, <1>17, <1>21, <1>22, <1>23, MigrFlushedLands
<1>24. CASE admin.tmp # NONE
  <2>1. p_mlist'[t] = u
    BY <1>4, <1>11 DEF IInv, ListsFit, ListsTyped
  <2>2. PICK y : y = admin.tmp
    OBVIOUS
  <2>3. proc' = ps /\ p_mlist'[t] # <<>> /\ y = p_mlist'[t][1] /\ Walk(oper, t, "migr", p_mlist'[t], y)
    BY <1>8, <1>11, <1>24, <2>1, <2>2
  <2>4. Placed(proc', t, oper = "rollback") /\ Steady(proc'[t])
    BY <1>21, <1>22, <2>3
  <2>5. QED
    BY <1>4, <1>17, <2>3, <2>4, WalkMigrLands
<1>25. QED
  BY <1>23, <1>24

LEMMA FlushSendKeeps == ASSUME IInv, WalkFit, FlushSend PROVE IInv' /\ WalkFit'
<1>1. PICK t, x : t = admin.proc /\ x = admin.xpp
  OBVIOUS
<1>2. PICK d, c, e, f : /\ d = proc[x] /\ c = Clear(d, {"RECEIVING"}) /\ e = EndSend(c)
                        /\ f = Wake(e, "OK")
  OBVIOUS
<1>3. Walking /\ admin.list = "send"
  BY DEF FlushSend, Walking
<1>4. /\ t \in Migrants /\ t \in Procs /\ x \in Procs /\ SendsTo[t] = {}
      /\ SendsTo[x] # {} /\ admin.oper = "old"
  BY <1>1, <1>3, WalkerIs DEF IInv, AdminFit
<1>5. PICK ps : ps = [proc EXCEPT ![x] = f]
  OBVIOUS
<1>6. /\ p_list' = [o \in Procs |-> Without(p_list[o], x)]
      /\ flushed' = [flushed EXCEPT ![x] = TRUE]
      /\ IF admin.tmp = NONE
         THEN proc' = [ps EXCEPT ![t] = Finished("old", @)] /\ admin' = Idle
         ELSE proc' = ps /\ Walk("old", t, "send", p_list'[t], admin.tmp)
      /\ UNCHANGED <<starts, p_mlist, thread, taken>>
  <2>1. ps = [proc EXCEPT ![x] = Wake(EndSend(Clear(@, {"RECEIVING"})), "OK")]
    BY <1>2, <1>4, <1>5 DEF IInv, RestTyped
  <2>2. QED
    BY <1>1, <2>1 DEF FlushSend
<1>7. /\ d \in Descriptors /\ Fit(x, d, pc[x], Hit(x), Rolls(x))
      /\ Called(x, call[x], pc[x]) /\ Sent(x, d, pc[x], ret[x], taken[x], flushed[x])
  BY <1>2, <1>4, Its
<1>8. /\ Hit(x) = TRUE /\ \A q \in Procs \ {x} : Hit(q) = FALSE
      /\ \A q \in Procs : Rolls(q) = FALSE
  BY <1>1, <1>3, <1>4 DEF Hit, Rolls
<1>9. Sender(d, pc[x], TRUE)
  BY <1>4, <1>7, <1>8 DEF Fit
<1>10. /\ e \in Descriptors /\ e.rts = d.rts \ {"SENDING"} /\ e.misc = d.misc
       /\ e.sendto = NONE /\ e.waitmigr = d.waitmigr /\ e.sem = d.sem /\ e.rcode = d.rcode
  <2>1. /\ c \in Descriptors /\ c.rts = d.rts \ {"RECEIVING"} /\ c.misc = d.misc
        /\ c.waitmigr = d.waitmigr /\ c.sem = d.sem /\ c.rcode = d.rcode
    BY <1>2, <1>7, ClearFields
  <2>2. "RECEIVING" \notin d.rts
    BY <1>9 DEF Sender, SenderFlags
  <2>3. /\ e \in Descriptors /\ e.rts = c.rts \ {"SENDING"} /\ e.misc = c.misc
        /\ e.sendto = NONE /\ e.waitmigr = c.waitmigr /\ e.sem = c.sem /\ e.rcode = c.rcode
    BY <1>2, <2>1, EndSendFields
  <2>4. QED
    BY <2>1, <2>2, <2>3
<1>11. e.rts = {} => e.sem <= 0 /\ pc[x] # "away"
  <2>1. CASE d.rts = {}
    BY <1>9, <1>10, <2>1 DEF Sender
  <2>2. CASE d.rts # {}
    BY <1>9, <1>10, <2>2 DEF Sender, SenderFlags
  <2>3. QED
    BY <2>1, <2>2
<1>12. /\ f \in Descriptors /\ f.rts = e.rts /\ f.misc = e.misc
       /\ f.sendto = e.sendto /\ f.waitmigr = e.waitmigr
       /\ e.rts # {} => f.sem = e.sem /\ f.rcode = e.rcode
       /\ e.rts = {} => f.sem = e.sem + 1 /\ f.rcode = "OK"
  <2>1. e.rts = {} => e.sem <= 1
    BY <1>10, <1>11 DEF Descriptors
  <2>2. QED
    BY <1>2, <1>10, <2>1, WakeFields
<1>13. Fit(x, f, pc[x], FALSE, FALSE) /\ Sent(x, f, pc[x], ret[x], taken[x], TRUE)
  <2>1. CASE e.rts # {}
    <3>1. f.sem = d.sem /\ f.rcode = d.rcode /\ f.rts = d.rts /\ "SENDING" \notin d.rts
      BY <1>9, <1>10, <1>12, <2>1 DEF Sender, SenderFlags
    <3>2. Sender(f, pc[x], FALSE)
      BY <1>9, <1>10, <1>12, <2>1, <3>1 DEF Sender, SenderFlags
    <3>3. Sent(x, f, pc[x], ret[x], taken[x], TRUE)
      BY <1>7, <3>1 DEF Sent
    <3>4. QED
      BY <1>4, <3>2, <3>3 DEF Fit
  <2>2. CASE e.rts = {}
    <3>1. f.rts = {} /\ f.misc = {} /\ f.sem = d.sem + 1 /\ f.rcode = "OK"
      BY <1>9, <1>10, <1>12, <2>2 DEF Sender
    <3>2. d.sem \in -1 .. 0 /\ pc[x] # "away"
      <4>1. d.sem <= 0 /\ pc[x] # "away"
        BY <1>10, <1>11, <2>2
      <4>2. QED
        BY <1>7, <4>1 DEF Descriptors
    <3>3. f.sem \in 0 .. 1
      BY <3>1, <3>2
    <3>4. Sender(f, pc[x], FALSE)
      BY <1>9, <3>1, <3>2, <3>3 DEF Sender, SenderFlags
    <3>5. Sent(x, f, pc[x], ret[x], taken[x], TRUE)
      BY <1>7, <3>1 DEF Sent
    <3>6. QED
      BY <1>4, <3>4, <3>5 DEF Fit
  <2>3. QED
    BY <2>1, <2>2
<1>14. /\ ps \in [Procs -> Descriptors] /\ ps[x] = f
       /\ \A q \in Procs \ {x} : ps[q] = proc[q]
  BY <1>4, <1>5, <1>12 DEF IInv, RestTyped
<1>15. /\ pc' = pc /\ call' = call /\ ret' = ret /\ expired' = expired /\ taken' = taken
       /\ p_mlist' = p_mlist /\ starts' = starts
  BY <1>6 DEF thread
<1>16. /\ flushed' \in [Procs -> BOOLEAN] /\ flushed'[x] = TRUE
       /\ \A q \in Procs \ {x} : flushed'[q] = flushed[q]
  BY <1>4, <1>6 DEF IInv, RestTyped
<1>17. OthersTyped'
  BY <1>15, <1>16 DEF IInv, RestTyped, AdminFit, OthersTyped
<1>18. ASSUME NEW q \in Procs
       PROVE  /\ Fit(q, ps[q], pc'[q], FALSE, FALSE) /\ Called(q, call'[q], pc'[q])
              /\ Sent(q, ps[q], pc'[q], ret'[q], taken'[q], flushed'[q])
              /\ expired'[q] => pc'[q] \in {"migrating", "sending", "receiving"}
  <2>1. /\ Fit(q, proc[q], pc[q], Hit(q), Rolls(q)) /\ Called(q, call[q], pc[q])
        /\ Sent(q, proc[q], pc[q], ret[q], taken[q], flushed[q])
        /\ expired[q] => pc[q] \in {"migrating", "sending", "receiving"}
    BY Its
  <2>2. CASE q = x
    BY <1>13, <1>14, <1>15, <1>16, <2>1, <2>2
  <2>3. CASE q # x
    BY <1>8, <1>14, <1>15, <1>16, <2>1, <2>3
  <2>4. QED
    BY <2>2, <2>3
<1>19. ListsAs(ps, p_list', p_mlist')
  <2>1. ListsFit
    BY DEF IInv
  <2>2. ASSUME NEW o \in Procs
        PROVE  /\ p_list'[o] \in Seq(Procs) /\ IsInjective(p_list'[o])
               /\ Range(p_list'[o]) = Range(p_list[o]) \ {x}
    <3>1. PICK s : s = p_list[o]
      OBVIOUS
    <3>2. s \in Seq(Procs) /\ IsInjective(s) /\ p_list'[o] = Without(s, x)
      BY <1>6, <2>1, <3>1 DEF ListsFit, ListsTyped, LinkedOnce
    <3>3. QED
      BY <3>1, <3>2, WithoutExact
  <2>3. p_list' \in [Procs -> Seq(Procs)]
    BY <1>6, <2>2
  <2>4. ASSUME NEW q \in Procs, NEW o \in Procs
        PROVE  q \in Range(p_mlist'[o]) <=> "WAITMIGR" \in ps[q].rts /\ ps[q].waitmigr = o
    <3>1. q \in Range(p_mlist[o]) <=> "WAITMIGR" \in proc[q].rts /\ proc[q].waitmigr = o
      BY <2>1 DEF ListsFit, WaitsExact
    <3>2. CASE q # x
      BY <1>14, <1>15, <3>1, <3>2
    <3>3. CASE q = x
      BY <1>2, <1>10, <1>12, <1>14, <1>15, <3>1, <3>3
    <3>4. QED
      BY <3>2, <3>3
  <2>5. ASSUME NEW q \in Procs, NEW o \in Procs, q \in Range(p_list'[o])
        PROVE  "SENDING" \in ps[q].rts /\ ps[q].sendto = o
    <3>1. q # x /\ q \in Range(p_list[o])
      BY <2>2, <2>5
    <3>2. "SENDING" \in proc[q].rts /\ proc[q].sendto = o
      BY <2>1, <3>1 DEF ListsFit, SendsLinked
    <3>3. QED
      BY <1>14, <3>1, <3>2
  <2>6. \A o \in Procs : IsInjective(p_list'[o]) /\ IsInjective(p_mlist'[o])
    BY <1>15, <2>1, <2>2 DEF ListsFit, LinkedOnce
  <2>7. QED
    BY <1>15, <2>1, <2>3, <2>4, <2>5, <2>6 DEF ListsAs, ListsFit, ListsTyped
<1>20. Placed(ps, t, FALSE)
  BY <1>4, <1>14, <1>18, <1>19 DEF Placed
<1>21. Steady(ps[t])
  <2>1. t # x
    BY <1>4
  <2>2. QED
    BY <1>1, <1>3, <1>4, <1>14, <2>1 DEF WalkFit
<1>22. CASE admin.tmp = NONE
  <2>1. PICK oper : oper = "old"
    OBVIOUS
  <2>2. proc' = [ps EXCEPT ![t] = Finished(oper, @)] /\ admin' = Idle
    BY <1>6, <1>22, <2>1
  <2>3. oper \in {"rollback", "old", "new", "third"} /\ (oper = "rollback") = FALSE
    BY <2>1
  <2>4. Placed(ps, t, oper = "rollback")
    BY <1>20, <2>3
  <2>5. QED
    BY <1>4, <1>17, <1>21, <2>2, <2>3, <2>4, FinishLands
<1>23. CASE admin.tmp # NONE
  <2>1. proc' = ps /\ Walk("old", t, "send", p_list'[t], admin.tmp)
    BY <1>6, <1>23
  <2>2. Placed(proc', t, FALSE) /\ Steady(proc'[t])
    BY <1>20, <1>21, <2>1
  <2>3. QED
    BY <1>4, <1>17, <2>1, <2>2, WalkSendLands
<1>24. QED
  BY <1>22, <1>23

LEMMA MigrateKeeps == ASSUME IInv, WalkFit, Migrate PROVE IInv' /\ WalkFit'
BY StartKeeps, RollbackKeeps, CommitNewKeeps, CommitOldKeeps, CommitThirdKeeps, FlushMigrKeeps,
   FlushSendKeeps DEF Migrate

-----------------------------------------------------------------------------
(* What the threads do to the marks of a migration *)

\* The marks stay, or NEED to migrate becomes MIGRATE.
Same(d, e) ==
    /\ e.misc = d.misc
    /\ "MIGRATE" \in e.rts <=> "MIGRATE" \in d.rts
    /\ "REMOTE" \in e.rts <=> "REMOTE" \in d.rts
Moved(d, e) ==
    /\ e.misc = d.misc \ {"NEEDMIGR"}
    /\ "MIGRATE" \in e.rts <=> "MIGRATE" \in d.rts \/ "NEEDMIGR" \in d.misc
    /\ "REMOTE" \in e.rts <=> "REMOTE" \in d.rts

LEMMA SameAfter ==
    ASSUME NEW d, NEW e, NEW f, Same(e, f)
    PROVE  (Same(d, e) => Same(d, f)) /\ (Moved(d, e) => Moved(d, f))
BY DEF Same, Moved

LEMMA SteadyKept ==
    ASSUME NEW d, NEW e, Same(d, e) \/ Moved(d, e), Steady(d) PROVE Steady(e)
BY DEF Same, Moved, Steady

LEMMA NeedMoves == ASSUME NEW d \in Descriptors PROVE Moved(d, NeedToMigrate(d))
<1>1. PICK e : e = NeedToMigrate(d)
  OBVIOUS
<1>2. /\ e.misc = d.misc \ {"NEEDMIGR"}
      /\ e.rts = IF "NEEDMIGR" \in d.misc THEN d.rts \cup {"MIGRATE"} ELSE d.rts
  BY <1>1, NeedFields
<1>3. QED
  BY <1>1, <1>2 DEF Moved

LEMMA UpMoves ==
    ASSUME NEW p \in Procs, proc[p] \in Descriptors PROVE Moved(proc[p], Up(p))
<1>1. PICK d, e, rc : d = proc[p] /\ e = Up(p) /\ rc = Result(p)
  OBVIOUS
<1>2. /\ e.misc = d.misc \ {"NEEDMIGR"}
      /\ e.rts = IF "NEEDMIGR" \in d.misc THEN d.rts \cup {"MIGRATE"} ELSE d.rts
  BY <1>1, UpFields
<1>3. QED
  BY <1>1, <1>2 DEF Moved

LEMMA DownSame ==
    ASSUME NEW d \in Descriptors PROVE Down(d) \in Descriptors /\ Same(d, Down(d))
<1>1. PICK e : e = Down(d)
  OBVIOUS
<1>2. e \in Descriptors /\ e.rts = d.rts /\ e.misc = d.misc
  BY <1>1, DownFields
<1>3. QED
  BY <1>1, <1>2 DEF Same

LEMMA WakeSame == ASSUME NEW d \in Descriptors, NEW rc PROVE Same(d, Wake(d, rc))
<1>1. Wake(d, rc).rts = d.rts /\ Wake(d, rc).misc = d.misc
  BY DEF Wake, Descriptors
<1>2. QED
  BY <1>1 DEF Same

LEMMA ClearSame ==
    ASSUME NEW d \in Descriptors
    PROVE  /\ Clear(d, {"RECEIVING"}) \in Descriptors /\ Same(d, Clear(d, {"RECEIVING"}))
           /\ EndSend(d) \in Descriptors /\ Same(d, EndSend(d))
<1>1. PICK b, e, f : b = {"RECEIVING"} /\ e = Clear(d, b) /\ f = EndSend(d)
  OBVIOUS
<1>2. e \in Descriptors /\ e.rts = d.rts \ b /\ e.misc = d.misc
  BY <1>1, ClearFields
<1>3. f \in Descriptors /\ f.rts = d.rts \ {"SENDING"} /\ f.misc = d.misc
  BY <1>1, EndSendFields
<1>4. Same(d, e) /\ Same(d, f)
  BY <1>1, <1>2, <1>3 DEF Same
<1>5. QED
  BY <1>1, <1>2, <1>3, <1>4

LEMMA SleepSame ==
    ASSUME NEW d \in Descriptors, NEW t \in Procs
    PROVE  /\ Same(d, Down(Set(d, "RECEIVING")))
           /\ Same(d, Down([Set(d, "WAITMIGR") EXCEPT !.waitmigr = t]))
           /\ Same(d, Down([Set(d, "SENDING") EXCEPT !.sendto = t]))
<1>1. PICK e, f, g : /\ e = Set(d, "RECEIVING")
                     /\ f = [Set(d, "WAITMIGR") EXCEPT !.waitmigr = t]
                     /\ g = [Set(d, "SENDING") EXCEPT !.sendto = t]
  OBVIOUS
<1>2. /\ e \in Descriptors /\ e.rts = d.rts \cup {"RECEIVING"} /\ e.misc = d.misc
      /\ f \in Descriptors /\ f.rts = d.rts \cup {"WAITMIGR"} /\ f.misc = d.misc
      /\ g \in Descriptors /\ g.rts = d.rts \cup {"SENDING"} /\ g.misc = d.misc
  BY <1>1 DEF Descriptors, Set, RtsFlags
<1>3. Same(d, e) /\ Same(d, f) /\ Same(d, g)
  BY <1>2 DEF Same
<1>4. QED
  BY <1>1, <1>2, <1>3, DownSame, SameAfter

\* A step of the thread of p: a sleep that ends in a receive looks at NEED to
\* migrate.
Keeps(p) ==
    /\ \A q \in Procs \ {p} : Same(proc[q], proc'[q])
    /\ \/ Moved(proc[p], proc'[p])
       \/ Same(proc[p], proc'[p]) /\ (pc[p] = "receiving" => pc'[p] = "receiving")

LEMMA SameSelf == ASSUME NEW d PROVE Same(d, d)
BY DEF Same

LEMMA KeepsOne ==
    ASSUME IInv, NEW p \in Procs, NEW f, proc' = [proc EXCEPT ![p] = f],
           Moved(proc[p], f) \/ (Same(proc[p], f) /\ pc[p] # "receiving")
    PROVE  Keeps(p)
<1>1. \A q \in Procs : proc'[q] = IF q = p THEN f ELSE proc[q]
  BY DEF IInv, RestTyped
<1>2. QED
  BY <1>1, SameSelf DEF Keeps

LEMMA KeepsOther ==
    ASSUME IInv, NEW p \in Procs, NEW x \in Procs, NEW f, proc' = [proc EXCEPT ![x] = f],
           Same(proc[x], f), pc[p] # "receiving"
    PROVE  Keeps(p)
<1>1. \A q \in Procs : proc'[q] = IF q = x THEN f ELSE proc[q]
  BY DEF IInv, RestTyped
<1>2. QED
  BY <1>1, SameSelf DEF Keeps

LEMMA KeepsAll ==
    ASSUME UNCHANGED proc, NEW p \in Procs, pc[p] = "receiving" => pc'[p] = "receiving"
    PROVE  Keeps(p)
BY SameSelf DEF Keeps

LEMMA KeepsPair ==
    ASSUME IInv, NEW p \in Procs, NEW d \in Procs, NEW f, NEW e,
           proc' = [proc EXCEPT ![p] = f, ![d] = e], d # p, Same(proc[d], e),
           Moved(proc[p], f) \/ (Same(proc[p], f) /\ pc[p] # "receiving")
    PROVE  Keeps(p)
<1>1. \A q \in Procs : proc'[q] = IF q = d THEN e ELSE IF q = p THEN f ELSE proc[q]
  BY DEF IInv, RestTyped
<1>2. QED
  BY <1>1, SameSelf DEF Keeps

LEMMA CheckCallerMarks == ASSUME IInv, NEW p \in Procs, CheckCaller(p) PROVE Keeps(p)
<1>1. proc[p] \in Descriptors /\ pc[p] = "user"
  BY Its DEF CheckCaller
<1>2. PICK d : d = NeedToMigrate(proc[p])
  OBVIOUS
<1>3. d \in Descriptors /\ Moved(proc[p], d)
  BY <1>1, <1>2, NeedFields, NeedMoves
<1>4. PICK c \in CallOf(p) : Stop(p, c) \/ WaitAsBackup(p, c) \/ Pass(p, c)
  BY DEF CheckCaller
<1>5. CASE Stop(p, c)
  <2>1. proc' = [proc EXCEPT ![p] = Down(d)]
    BY <1>2, <1>5 DEF Stop
  <2>2. QED
    BY <1>3, <2>1, DownSame, SameAfter, KeepsOne
<1>6. CASE WaitAsBackup(p, c)
  <2>1. proc' = [proc EXCEPT ![p] = Down([Set(d, "WAITMIGR") EXCEPT !.waitmigr = p])]
    BY <1>2, <1>6 DEF WaitAsBackup, IInv, RestTyped
  <2>2. QED
    BY <1>3, <2>1, SleepSame, SameAfter, KeepsOne
<1>7. CASE Pass(p, c)
  BY <1>1, <1>7, KeepsAll DEF Pass
<1>8. QED
  BY <1>4, <1>5, <1>6, <1>7

LEMMA AttemptMarks ==
    ASSUME IInv, NEW p \in Procs, NEW mine \in Descriptors, Attempt(p, mine),
           call[p].peer \in Procs, call[p].peer # p, pc[p] # "receiving",
           Same(proc[p], mine) \/ Moved(proc[p], mine)
    PROVE  Keeps(p)
<1>1. PICK d : d = call[p].peer
  OBVIOUS
<1>2. d \in Procs /\ d # p /\ proc[d] \in Descriptors
  BY <1>1, Its
<1>3. CASE AwaitMigration(p, d, mine)
  BY <1>2, <1>3, SleepSame, SameAfter, KeepsOne DEF AwaitMigration
<1>4. CASE SendRemote(p, d, mine)
  <2>1. PICK f, e : /\ f = Down([Set(mine, "SENDING") EXCEPT !.sendto = d])
                    /\ e = Clear(proc[d], {"RECEIVING"})
    OBVIOUS
  <2>2. proc' = [proc EXCEPT ![p] = f, ![d] = e]
    BY <1>2, <1>4, <2>1 DEF SendRemote, IInv, RestTyped
  <2>3. Same(mine, f) /\ Same(proc[d], e)
    BY <1>2, <2>1, SleepSame, ClearSame
  <2>4. QED
    BY <1>2, <2>2, <2>3, SameAfter, KeepsPair
<1>5. CASE SendDeliver(p, d, mine)
  <2>1. PICK f, c, e : /\ f = [mine EXCEPT !.rcode = "OK"]
                       /\ c = Clear(proc[d], {"RECEIVING"}) /\ e = Wake(c, "OK")
    OBVIOUS
  <2>2. proc' = [proc EXCEPT ![p] = f, ![d] = e]
    BY <1>2, <1>5, <2>1 DEF SendDeliver, IInv, RestTyped
  <2>3. f.rts = mine.rts /\ f.misc = mine.misc
    BY <2>1 DEF Descriptors
  <2>4. Same(mine, f)
    BY <2>3 DEF Same
  <2>5. c \in Descriptors /\ Same(proc[d], c) /\ Same(c, e)
    BY <1>2, <2>1, ClearSame, WakeSame
  <2>6. QED
    BY <1>2, <2>2, <2>4, <2>5, SameAfter, KeepsPair
<1>6. CASE SendBlock(p, d, mine)
  BY <1>2, <1>6, SleepSame, SameAfter, KeepsOne DEF SendBlock
<1>7. QED
  BY <1>1, <1>3, <1>4, <1>5, <1>6 DEF Attempt

LEMMA SendMarks ==
    ASSUME IInv, NEW p \in Procs, Send(p) \/ SendAgain(p) PROVE Keeps(p)
<1>1. proc[p] \in Descriptors /\ Called(p, call[p], pc[p])
  BY Its
<1>2. pc[p] \in {"enter", "migrating"}
  BY DEF Send, SendAgain, Leaves
<1>3. call[p].peer \in Procs /\ call[p].peer # p
  BY <1>1, <1>2, CallsAssumption DEF Called
<1>4. CASE Send(p)
  BY <1>1, <1>2, <1>3, <1>4, SameSelf, AttemptMarks DEF Send
<1>5. CASE SendAgain(p)
  <2>1. Up(p) \in Descriptors /\ Moved(proc[p], Up(p))
    BY <1>1, UpFields, UpMoves
  <2>2. QED
    BY <1>2, <1>3, <1>5, <2>1, AttemptMarks DEF SendAgain
<1>6. QED
  BY <1>4, <1>5

LEMMA DoneMarks ==
    ASSUME IInv, NEW p \in Procs,
           Resume(p) \/ SendGivesUp(p) \/ SendDone(p) \/ ReceiveBlock(p) \/ ReceiveDone(p)
    PROVE  Keeps(p)
<1>1. proc[p] \in Descriptors
  BY Its
<1>2. PICK e : e = Up(p)
  OBVIOUS
<1>3. e \in Descriptors /\ Moved(proc[p], e)
  BY <1>1, <1>2, UpFields, UpMoves
<1>4. CASE Resume(p) \/ SendGivesUp(p)
  BY <1>2, <1>3, <1>4, KeepsOne DEF Resume, SendGivesUp
<1>5. CASE SendDone(p)
  <2>1. PICK f : f = IF Result(p) = "OK" THEN e ELSE EndSend(e)
    OBVIOUS
  <2>2. proc' = [proc EXCEPT ![p] = f]
    BY <1>2, <1>5, <2>1 DEF SendDone
  <2>3. Moved(proc[p], f)
    BY <1>3, <2>1, ClearSame, SameAfter
  <2>4. QED
    BY <2>2, <2>3, KeepsOne
<1>6. CASE ReceiveDone(p)
  <2>1. PICK f : f = IF Result(p) = "OK" THEN e ELSE Clear(e, {"RECEIVING"})
    OBVIOUS
  <2>2. proc' = [proc EXCEPT ![p] = f]
    BY <1>2, <1>6, <2>1 DEF ReceiveDone
  <2>3. Moved(proc[p], f)
    BY <1>3, <2>1, ClearSame, SameAfter
  <2>4. QED
    BY <2>2, <2>3, KeepsOne
<1>7. CASE ReceiveBlock(p)
  <2>1. proc' = [proc EXCEPT ![p] = Down(Set(proc[p], "RECEIVING"))] /\ pc[p] = "scan"
    BY <1>7 DEF ReceiveBlock, IInv, RestTyped
  <2>2. QED
    BY <1>1, <2>1, SleepSame, KeepsOne
<1>8. QED
  BY <1>4, <1>5, <1>6, <1>7

LEMMA TakenMarks ==
    ASSUME IInv, NEW p \in Procs, (\E rc \in {"OK", "MIGRATE"} : Acknowledged(p, rc)) \/ ReceiveTake(p)
    PROVE  Keeps(p)
<1>1. CASE \E rc \in {"OK", "MIGRATE"} : Acknowledged(p, rc)
  <2>1. PICK rc \in {"OK", "MIGRATE"} : Acknowledged(p, rc)
    BY <1>1
  <2>2. PICK e : e = EndSend(proc[p])
    OBVIOUS
  <2>3. proc' = [proc EXCEPT ![p] = Wake(e, rc)] /\ pc[p] = "sending"
    BY <2>1, <2>2 DEF Acknowledged, IInv, RestTyped
  <2>4. e \in Descriptors /\ Same(proc[p], e) /\ Same(e, Wake(e, rc))
    BY <2>2, Its, ClearSame, WakeSame
  <2>5. QED
    BY <2>3, <2>4, SameAfter, KeepsOne
<1>2. CASE ReceiveTake(p)
  <2>1. PICK x, e : x = Head(p_list[p]) /\ e = EndSend(proc[x])
    OBVIOUS
  <2>2. x \in Procs /\ pc[p] = "scan"
    <3>1. p_list[p] \in Seq(Procs) /\ p_list[p] # <<>> /\ pc[p] = "scan"
      BY <1>2 DEF ReceiveTake, IInv, ListsFit, ListsTyped
    <3>2. QED
      BY <2>1, <3>1, HeadTailProperties
  <2>3. proc' = [proc EXCEPT ![x] = Wake(e, "OK")]
    BY <1>2, <2>1, <2>2 DEF ReceiveTake, IInv, RestTyped
  <2>4. e \in Descriptors /\ Same(proc[x], e) /\ Same(e, Wake(e, "OK"))
    BY <2>1, <2>2, Its, ClearSame, WakeSame
  <2>5. QED
    BY <2>2, <2>3, <2>4, SameAfter, KeepsOther
<1>3. QED
  BY <1>1, <1>2

LEMMA ThreadMarks == ASSUME IInv, NEW p \in Procs, Step(p) PROVE Keeps(p)
<1>1. CASE Expire(p)
  BY <1>1, KeepsAll DEF Expire
<1>2. QED
  BY <1>1, CheckCallerMarks, SendMarks, DoneMarks, TakenMarks DEF Step

LEMMA ThreadOffice == ASSUME NEW p \in Procs, Step(p) PROVE UNCHANGED office
BY DEF Step, CheckCaller, Resume, Send, SendAgain, Attempt, SendGivesUp, SendDone, Acknowledged,
       ReceiveTake, ReceiveBlock, ReceiveDone, Expire

LEMMA ThreadWalkFit == ASSUME IInv, WalkFit, NEW p \in Procs, Step(p) PROVE WalkFit'
<1>1. UNCHANGED office
  BY ThreadOffice
<1>2. CASE Walking
  <2>1. Steady(proc[admin.proc]) /\ admin.proc \in Procs
    BY <1>2, WalkerIs DEF WalkFit
  <2>2. Steady(proc'[admin.proc])
    BY <2>1, ThreadMarks, SteadyKept DEF Keeps
  <2>3. QED
    BY <1>1, <2>2 DEF WalkFit, office
<1>3. CASE ~Walking
  BY <1>1, <1>3 DEF WalkFit, Walking, office
<1>4. QED
  BY <1>2, <1>3

-----------------------------------------------------------------------------
(* The invariant of the specification *)

LEMMA InitFits == Init => IInv /\ WalkFit
<1> SUFFICES ASSUME Init PROVE IInv /\ WalkFit
  OBVIOUS
<1>1. /\ admin = Idle /\ starts = 0 /\ ~Walking
      /\ \A p \in Procs : Hit(p) = FALSE /\ Rolls(p) = FALSE
  BY DEF Init, Walking, Hit, Rolls
<1>2. ASSUME NEW p \in Procs
      PROVE  /\ proc[p] \in Descriptors /\ proc[p].misc = {} /\ proc[p].nodeid = Home[p]
             /\ proc[p].sem = 0 /\ proc[p].rcode = "OK"
             /\ Home[p] = local => proc[p].rts = {} /\ pc[p] = "user"
             /\ Home[p] # local => proc[p].rts = {"REMOTE"} /\ pc[p] = "away"
  <2>1. PICK d : d = proc[p]
    OBVIOUS
  <2>2. d = [rts |-> IF Home[p] = local THEN {} ELSE {"REMOTE"}, misc |-> {},
             nodeid |-> Home[p], sendto |-> NONE, waitmigr |-> NONE, sem |-> 0, rcode |-> "OK"]
    BY <2>1 DEF Init
  <2>3. Home[p] \in Nodes
    BY NodesAssumption
  <2>4. d \in Descriptors
    BY <2>2, <2>3 DEF Descriptors, RtsFlags
  <2>5. CASE Home[p] = local
    <3>1. d.rts = {}
      BY <2>2, <2>5
    <3>2. QED
      BY <2>1, <2>2, <2>4, <2>5, <3>1 DEF Init
  <2>6. CASE Home[p] # local
    <3>1. d.rts = {"REMOTE"}
      BY <2>2, <2>6
    <3>2. QED
      BY <2>1, <2>2, <2>4, <2>6, <3>1 DEF Init
  <2>7. QED
    BY <2>5, <2>6
<1>3. \A p \in Procs : ~expired[p] /\ ret[p] = "none" /\ taken[p] = 0
  BY DEF Init
<1>4. RestTyped
  <2>1. proc \in [Procs -> Descriptors]
    BY <1>2 DEF Init
  <2>2. QED
    BY <2>1 DEF Init, RestTyped, PcValues, CallRecords, NoCall
<1>5. ASSUME NEW p \in Procs PROVE Good(p)
  <2>1. Fit(p, proc[p], pc[p], FALSE, FALSE)
    <3>1. CASE Home[p] = local
      BY <1>2, <3>1 DEF Fit, Sender, SenderFlags, Receiver, Image
    <3>2. CASE Home[p] # local
      BY <1>2, <3>2 DEF Fit, Sender, SenderFlags, Receiver, Image
    <3>3. QED
      BY <3>1, <3>2
  <2>2. Called(p, call[p], pc[p]) /\ Sent(p, proc[p], pc[p], ret[p], taken[p], flushed[p])
    BY <1>2, <1>3 DEF Called, Sent
  <2>3. QED
    BY <1>1, <1>3, <2>1, <2>2 DEF Good
<1>6. ListsFit
  <2>1. p_list = [p \in Procs |-> <<>>] /\ p_mlist = [p \in Procs |-> <<>>]
    BY DEF Init
  <2>2. \A p \in Procs : "WAITMIGR" \notin proc[p].rts
    BY <1>2
  <2>3. QED
    BY <2>1, <2>2, EmptyExact DEF ListsFit, ListsTyped, WaitsExact, SendsLinked, LinkedOnce
<1>7. AdminFit /\ WalkFit
  BY <1>1, BoundAssumption DEF AdminFit, WalkFit
<1>8. QED
  BY <1>4, <1>5, <1>6, <1>7 DEF IInv, AllGood

LEMMA StutterFits == ASSUME IInv, WalkFit, UNCHANGED vars PROVE IInv' /\ WalkFit'
<1>1. /\ proc' = proc /\ p_list' = p_list /\ p_mlist' = p_mlist /\ pc' = pc /\ call' = call
      /\ expired' = expired /\ ret' = ret /\ admin' = admin /\ starts' = starts
      /\ taken' = taken /\ flushed' = flushed
  BY DEF vars, lists, thread, office, hist
<1>2. \A p \in Procs : Hit(p)' = Hit(p) /\ Rolls(p)' = Rolls(p)
  BY <1>1 DEF Hit, Rolls, Walking
<1>3. AllGood' /\ ListsFit' /\ RestTyped'
  BY <1>1, <1>2 DEF IInv, AllGood, Good, ListsFit, ListsTyped, WaitsExact, SendsLinked, LinkedOnce,
                    RestTyped
<1>4. AdminFit' /\ WalkFit'
  BY <1>1 DEF IInv, AdminFit, WalkFit, Walking
<1>5. QED
  BY <1>3, <1>4 DEF IInv

LEMMA NextFits == IInv /\ WalkFit /\ [Next]_vars => IInv' /\ WalkFit'
BY MigrateKeeps, ThreadKeeps, ThreadWalkFit, StutterFits DEF Next

LEMMA Invariant == Spec => [](IInv /\ WalkFit)
BY InitFits, NextFits, PTL DEF Spec

\* Every variable keeps its type; the semaphore of a process that sleeps is
\* raised by nobody but those whose business it is, so it stays below 3.
THEOREM TypeCorrect == Spec => []TypeOK
<1>1. IInv => TypeOK
  BY DEF IInv, RestTyped, AdminFit, ListsFit, ListsTyped, TypeOK
<1>2. QED
  BY <1>1, Invariant, PTL

\* The lists of the descriptors and the flags say the same of who waits and who
\* sends, whatever timeouts, receivers and the flushes do at once.
THEOREM ListsAgree == Spec => []ListsExact
<1>1. IInv => ListsExact
  BY DEF IInv, ListsFit, WaitsExact, SendsLinked, LinkedOnce, ListsExact, Has
<1>2. QED
  BY <1>1, Invariant, PTL

\* A send that is started again, flushed or acknowledged from another node has
\* its message taken once at most, and returns OK only if that is so or it was
\* flushed.
THEOREM MessagesOnce == Spec => []SentOnce
<1>1. ASSUME IInv PROVE SentOnce
  <2>1. ASSUME NEW p \in Procs
        PROVE  /\ taken[p] <= 1
               /\ Has(p, "SENDING") \/ pc[p] = "migrating" => taken[p] = 0
               /\ pc[p] = "user" /\ SendsTo[p] # {} /\ ret[p] = "OK" => taken[p] = 1 \/ flushed[p]
    <3>1. Sent(p, proc[p], pc[p], ret[p], taken[p], flushed[p])
      BY <1>1, Its
    <3>2. QED
      BY <3>1 DEF Sent, Has
  <2>2. QED
    BY <2>1 DEF SentOnce
<1>2. QED
  BY <1>1, Invariant, PTL

-----------------------------------------------------------------------------
(* The image that is left behind *)

LEMMA ImageAsleep ==
    ASSUME IInv, NEW p \in Procs, Image(proc[p]), pc[p] # "user"
    PROVE  /\ SendsTo[p] = {} /\ pc[p] \in {"stopped", "backup", "receiving"}
           /\ pc[p] # "backup" => proc[p].sem = -1 /\ proc[p].rcode = "OK"
<1>1. PICK d : d = proc[p]
  OBVIOUS
<1>2. d \in Descriptors /\ Fit(p, d, pc[p], Hit(p), Rolls(p)) /\ Image(d)
  BY <1>1, Its
<1>3. SendsTo[p] = {}
  BY <1>2 DEF Fit, Sender, Image
<1>4. Receiver(p, d, pc[p], Rolls(p))
  BY <1>2, <1>3 DEF Fit
<1>5. "REMOTE" \in d.rts
  BY <1>2, <1>4 DEF Receiver
<1>6. pc[p] \in {"stopped", "backup", "receiving"}
  BY <1>2, <1>4, <1>5 DEF Receiver, Image
<1>7. pc[p] # "backup" => d.sem = -1 /\ d.rcode = "OK"
  BY <1>4, <1>5, <1>6 DEF Receiver
<1>8. QED
  BY <1>1, <1>3, <1>6, <1>7

LEMMA ThreadMoves ==
    ASSUME IInv, NEW p \in Procs, NEW q \in Procs, q # p, Step(q) PROVE pc'[p] = pc[p]
<1>1. pc' = pc \/ \E l : pc' = [pc EXCEPT ![q] = l]
  BY DEF Step, CheckCaller, Stop, WaitAsBackup, Pass, Resume, Send, SendAgain, Attempt,
         AwaitMigration, SendRemote, SendDeliver, SendBlock, SendGivesUp, SendDone, Acknowledged,
         ReceiveTake, ReceiveBlock, ReceiveDone, Expire, Goto, Return, thread
<1>2. QED
  BY <1>1 DEF IInv, RestTyped

LEMMA ImageReturns ==
    ASSUME IInv, NEW p \in Procs, Image(proc[p]), pc[p] # "user", Step(p), pc'[p] = "user"
    PROVE  ret'[p] # "OK"
<1>1. /\ pc[p] \in {"stopped", "backup", "receiving"}
      /\ pc[p] # "backup" => proc[p].sem = -1 /\ proc[p].rcode = "OK"
  BY ImageAsleep
<1>2. Resume(p) \/ ReceiveDone(p) \/ pc' = pc
  BY <1>1 DEF Step, CheckCaller, Resume, Send, SendAgain, SendGivesUp, SendDone, Acknowledged,
              ReceiveTake, ReceiveBlock, ReceiveDone, Expire, Leaves, thread
<1>3. ~Resume(p)
  <2>1. expired[p] => pc[p] # "stopped"
    BY Its
  <2>2. QED
    BY <1>1, <2>1 DEF Resume, Leaves
<1>4. CASE ReceiveDone(p)
  <2>1. pc[p] = "receiving" /\ proc[p].sem = -1 /\ proc[p].rcode = "OK" /\ expired[p]
    BY <1>1, <1>4 DEF ReceiveDone, Leaves
  <2>2. Result(p) = "TIMEDOUT"
    BY <2>1 DEF Result
  <2>3. ret' = [ret EXCEPT ![p] = "TIMEDOUT"]
    BY <1>4, <2>2 DEF ReceiveDone, Return
  <2>4. QED
    BY <2>3 DEF IInv, RestTyped
<1>5. QED
  BY <1>2, <1>3, <1>4

\* No call of the image that a process leaves on its old node returns OK: it is
\* on the new node that the process goes on.
THEOREM ImagesStay == Spec => ImageStays
<1>1. ASSUME IInv, [Next]_vars, NEW p \in Procs, "RMTBACKUP" \in proc[p].misc,
             pc[p] # "user", pc'[p] = "user"
      PROVE  ret'[p] # "OK"
  <2>1. Image(proc[p])
    BY <1>1 DEF Image
  <2>2. CASE \E q \in Procs : Step(q)
    BY <1>1, <2>1, <2>2, ThreadMoves, ImageReturns
  <2>3. CASE Migrate
    <3>1. CASE \E t \in Procs : CommitNew(t)
      <4>1. PICK t \in Procs : CommitNew(t)
        BY <3>1
      <4>2. t # p /\ pc' = [pc EXCEPT ![t] = "user"]
        BY <1>1, <4>1 DEF CommitNew, Commits, Goto
      <4>3. QED
        BY <1>1, <4>2 DEF IInv, RestTyped
    <3>2. CASE ~\E t \in Procs : CommitNew(t)
      <4>1. UNCHANGED thread
        BY <2>3, <3>2 DEF Migrate, Start, Rollback, CommitOld, CommitThird, FlushMigr, FlushSend
      <4>2. QED
        BY <1>1, <4>1 DEF thread
    <3>3. QED
      BY <3>1, <3>2
  <2>4. CASE UNCHANGED vars
    BY <1>1, <2>4 DEF vars, thread
  <2>5. QED
    BY <1>1, <2>2, <2>3, <2>4 DEF Next
<1>2. IInv /\ [Next]_vars =>
        [\A p \in Procs : "RMTBACKUP" \in proc[p].misc /\ pc[p] # "user" /\ pc'[p] = "user" =>
            ret'[p] # "OK"]_vars
  BY <1>1
<1>3. QED
  BY <1>2, Invariant, PTL DEF Spec, ImageStays

-----------------------------------------------------------------------------
(* Who waits for a process of this node *)

\* Where no process that migrates makes a call with a timeout: an image is not
\* marked to migrate again, and those who wait for a process of this node wait
\* for one still marked, or for the flush under way, which leaves nobody behind
\* but the image itself.
MarkedAs(p, d, l, e) ==
    /\ Home[p] = local => l # "away"
    /\ "MIGRATE" \in d.rts => "NEEDMIGR" \notin d.misc \/ l = "receiving"
    /\ Image(d) =>
          /\ p \in Migrants /\ "MIGRATE" \notin d.rts
          /\ l # "receiving" => "NEEDMIGR" \notin d.misc
    /\ e => p \in Timed
AllMarked == \A p \in Procs : MarkedAs(p, proc[p], pc[p], expired[p])
Flushes(t) == Walking /\ admin.list = "migr" /\ admin.proc = t
QueueFit(t) ==
    Home[t] = local /\ p_mlist[t] # <<>> /\ "MIGRATE" \notin proc[t].rts =>
        Flushes(t) \/ p_mlist[t] = <<t>>
TailFit(t) ==
    Home[t] = local /\ Flushes(t) /\ admin.tmp = NONE =>
        \A i \in 2 .. Len(p_mlist[t]) : p_mlist[t][i] = t
MarksFit == AllMarked /\ \A t \in Procs : QueueFit(t) /\ TailFit(t)

\* A process of this node whose lists are flushed is not marked any longer.
LEMMA FlushedUnmarked ==
    ASSUME IInv, WalkFit, AllMarked, Walking, Home[admin.proc] = local
    PROVE  "MIGRATE" \notin proc[admin.proc].rts
<1>1. PICK t, d : t = admin.proc /\ d = proc[t]
  OBVIOUS
<1>2. t \in Procs /\ SendsTo[t] = {} /\ Steady(d)
  BY <1>1, WalkerIs DEF WalkFit
<1>3. Receiver(t, d, pc[t], Rolls(t)) /\ MarkedAs(t, d, pc[t], expired[t])
  BY <1>1, <1>2, Its DEF Fit, AllMarked
<1>4. "MIGRATE" \notin d.rts
  BY <1>1, <1>2, <1>3 DEF Receiver, MarkedAs, Steady
<1>5. QED
  BY <1>1, <1>4

\* The thread of an image that waits in a receive makes no step.
LEMMA ImageWaits ==
    ASSUME IInv, AllMarked, Timed \cap Migrants = {}, NEW p \in Procs, Image(proc[p]),
           pc[p] = "receiving"
    PROVE  ~Step(p)
<1>1. proc[p].sem = -1 /\ p \in Migrants /\ ~expired[p]
  BY ImageAsleep DEF AllMarked, MarkedAs
<1>2. proc[p].sem < 0
  BY <1>1
<1>3. ~ReceiveDone(p) /\ ~Expire(p)
  BY <1>1, <1>2 DEF ReceiveDone, Leaves, Expire
<1>4. QED
  BY <1>3 DEF Step, CheckCaller, Resume, Send, SendAgain, SendGivesUp, SendDone, Acknowledged,
              ReceiveTake, ReceiveBlock, Leaves

LEMMA ThreadClocks ==
    ASSUME IInv, NEW p \in Procs, Step(p)
    PROVE  /\ \A q \in Procs \ {p} : pc'[q] = pc[q] /\ expired'[q] = expired[q]
           /\ pc'[p] = "away" => pc[p] = "away"
           /\ expired'[p] => expired[p] \/ p \in Timed
<1>1. \/ pc' = pc /\ expired' = expired
      \/ \E l \in {"user", "stopped", "backup", "enter", "scan", "migrating", "sending", "receiving"} :
            pc' = [pc EXCEPT ![p] = l] /\ expired' = [expired EXCEPT ![p] = FALSE]
      \/ pc' = pc /\ expired' = [expired EXCEPT ![p] = TRUE] /\ p \in Timed
  <2>1. CASE CheckCaller(p) \/ Resume(p) \/ Send(p) \/ SendAgain(p)
    BY <2>1 DEF CheckCaller, Stop, WaitAsBackup, Pass, Resume, Send, SendAgain, Attempt,
                AwaitMigration, SendRemote, SendDeliver, SendBlock, Goto, Return, Begin
  <2>2. CASE SendGivesUp(p) \/ SendDone(p) \/ ReceiveTake(p) \/ ReceiveBlock(p) \/ ReceiveDone(p)
    BY <2>2 DEF SendGivesUp, SendDone, ReceiveTake, ReceiveBlock, ReceiveDone, Goto, Return
  <2>3. CASE (\E rc \in {"OK", "MIGRATE"} : Acknowledged(p, rc)) \/ Expire(p)
    BY <2>3 DEF Acknowledged, Expire, thread
  <2>4. QED
    BY <2>1, <2>2, <2>3 DEF Step
<1>2. pc \in [Procs -> PcValues] /\ expired \in [Procs -> BOOLEAN]
  BY DEF IInv, RestTyped
<1>3. QED
  BY <1>1, <1>2

LEMMA SameMarked ==
    ASSUME NEW p, NEW d, NEW e, NEW l, NEW x, NEW m, NEW y, Same(d, e), MarkedAs(p, d, l, x),
           l = "receiving" => m = "receiving", m = "away" => l = "away",
           y => x \/ p \in Timed
    PROVE  MarkedAs(p, e, m, y)
BY DEF Same, MarkedAs, Image

LEMMA ThreadMarked ==
    ASSUME IInv, AllMarked, Timed \cap Migrants = {}, NEW p \in Procs, Step(p) PROVE AllMarked'
<1>1. ASSUME NEW q \in Procs, q # p PROVE MarkedAs(q, proc'[q], pc'[q], expired'[q])
  <2>1. Same(proc[q], proc'[q]) /\ pc'[q] = pc[q] /\ expired'[q] = expired[q]
    BY <1>1, ThreadMarks, ThreadClocks DEF Keeps
  <2>2. MarkedAs(q, proc[q], pc[q], expired[q])
    BY DEF AllMarked
  <2>3. QED
    BY <2>1, <2>2, SameMarked
<1>2. MarkedAs(p, proc'[p], pc'[p], expired'[p])
  <2>1. PICK d, e : d = proc[p] /\ e = proc'[p]
    OBVIOUS
  <2>2. /\ Moved(d, e) \/ (Same(d, e) /\ (pc[p] = "receiving" => pc'[p] = "receiving"))
        /\ pc'[p] = "away" => pc[p] = "away"
        /\ expired'[p] => expired[p] \/ p \in Timed
    BY <2>1, ThreadMarks, ThreadClocks DEF Keeps
  <2>3. MarkedAs(p, d, pc[p], expired[p])
    BY <2>1 DEF AllMarked
  <2>4. Image(d) => pc[p] # "receiving"
    BY <2>1, ImageWaits
  <2>5. CASE Same(d, e) /\ (pc[p] = "receiving" => pc'[p] = "receiving")
    BY <2>1, <2>2, <2>3, <2>5, SameMarked
  <2>6. CASE Moved(d, e)
    <3>1. MarkedAs(p, e, pc'[p], expired'[p])
      BY <2>2, <2>3, <2>4, <2>6 DEF Moved, MarkedAs, Image
    <3>2. QED
      BY <2>1, <3>1
  <2>7. QED
    BY <2>2, <2>5, <2>6
<1>3. QED
  BY <1>1, <1>2 DEF AllMarked

\* Only an image queues at a process that is not marked: at itself.
LEMMA ThreadQueues ==
    ASSUME IInv, NEW p \in Procs, Step(p), NEW t \in Procs
    PROVE  \/ p_mlist'[t] = p_mlist[t]
           \/ /\ p_mlist'[t] = Append(p_mlist[t], p)
              /\ "MIGRATE" \in proc[t].rts \/ (t = p /\ p \notin Range(p_mlist[p]))
<1>1. \/ UNCHANGED p_mlist \/ \E c \in CallOf(p) : WaitAsBackup(p, c) /\ pc[p] = "user"
      \/ \E d, mine : AwaitMigration(p, d, mine)
  BY DEF Step, CheckCaller, Stop, Pass, Resume, Send, SendAgain, Attempt, SendRemote,
         SendDeliver, SendBlock, SendGivesUp, SendDone, Acknowledged, ReceiveTake, ReceiveBlock,
         ReceiveDone, Expire, lists
<1>2. p_mlist \in [Procs -> Seq(Procs)]
  BY DEF IInv, ListsFit, ListsTyped
<1>3. CASE \E c \in CallOf(p) : WaitAsBackup(p, c) /\ pc[p] = "user"
  <2>1. Image(proc[p]) /\ pc[p] = "user" /\ p_mlist' = [p_mlist EXCEPT ![p] = Append(@, p)]
    BY <1>3 DEF WaitAsBackup, Image
  <2>2. PICK d : d = proc[p]
    OBVIOUS
  <2>3. Receiver(p, d, "user", Rolls(p))
    BY <2>1, <2>2, Its DEF Fit, Sender, Image
  <2>4. "WAITMIGR" \notin d.rts
    BY <2>3 DEF Receiver
  <2>5. p \notin Range(p_mlist[p])
    BY <2>2, <2>4 DEF IInv, ListsFit, WaitsExact
  <2>6. QED
    BY <1>2, <2>1, <2>5
<1>4. CASE \E d, mine : AwaitMigration(p, d, mine)
  BY <1>2, <1>4 DEF AwaitMigration, Has
<1>5. QED
  BY <1>1, <1>3, <1>4

LEMMA ThreadMarksFit ==
    ASSUME IInv, WalkFit, MarksFit, Timed \cap Migrants = {}, NEW p \in Procs, Step(p)
    PROVE  MarksFit'
<1>1. AllMarked /\ AllMarked'
  BY ThreadMarked DEF MarksFit
<1>2. ASSUME NEW t \in Procs PROVE QueueFit(t)' /\ TailFit(t)'
  <2>1. PICK s, u : s = p_mlist[t] /\ u = p_mlist'[t]
    OBVIOUS
  <2>2. s \in Seq(Procs)
    BY <2>1 DEF IInv, ListsFit, ListsTyped
  <2>3. /\ Home[t] = local /\ s # <<>> /\ "MIGRATE" \notin proc[t].rts => Flushes(t) \/ s = <<t>>
        /\ Home[t] = local /\ Flushes(t) /\ admin.tmp = NONE => \A i \in 2 .. Len(s) : s[i] = t
    BY <2>1 DEF MarksFit, QueueFit, TailFit
  <2>4. Flushes(t)' = Flushes(t) /\ admin' = admin
    BY ThreadOffice DEF Flushes, Walking, office
  <2>5. "MIGRATE" \in proc[t].rts => "MIGRATE" \in proc'[t].rts
    BY ThreadMarks DEF Keeps, Same, Moved
  <2>6. Home[t] = local /\ Flushes(t) => "MIGRATE" \notin proc[t].rts
    BY <1>1, FlushedUnmarked DEF Flushes
  <2>7. CASE u = s
    BY <2>1, <2>3, <2>4, <2>5, <2>7 DEF QueueFit, TailFit
  <2>8. CASE u = Append(s, p) /\ ("MIGRATE" \in proc[t].rts \/ (t = p /\ p \notin Range(s)))
    <3>1. /\ Len(s) \in Nat /\ Len(u) = Len(s) + 1 /\ u[Len(s) + 1] = p
          /\ \A i \in 1 .. Len(s) : u[i] = s[i]
      BY <2>2, <2>8, AppendProperties, LenProperties
    <3>2. CASE "MIGRATE" \in proc[t].rts
      BY <2>4, <2>5, <2>6, <3>2 DEF QueueFit, TailFit
    <3>3. CASE t = p /\ p \notin Range(s)
      <4>1. s # <<t>>
        BY <3>3 DEF Range
      <4>2. s = <<>> => u = <<t>>
        BY <2>8, <3>3
      <4>3. QueueFit(t)'
        BY <2>1, <2>3, <2>4, <2>5, <4>1, <4>2 DEF QueueFit
      <4>4. TailFit(t)'
        <5>1. ASSUME Home[t] = local, Flushes(t), admin.tmp = NONE, NEW i \in 2 .. Len(u)
              PROVE  u[i] = t
          <6>1. CASE i \in 2 .. Len(s)
            BY <2>3, <3>1, <5>1, <6>1
          <6>2. CASE i = Len(s) + 1
            BY <3>1, <3>3, <6>2
          <6>3. QED
            BY <3>1, <5>1, <6>1, <6>2
        <5>2. QED
          BY <2>1, <2>4, <5>1 DEF TailFit
      <4>5. QED
        BY <4>3, <4>4
    <3>4. QED
      BY <2>8, <3>2, <3>3
  <2>9. QED
    BY <2>1, <2>7, <2>8, ThreadQueues
<1>3. QED
  BY <1>1, <1>2 DEF MarksFit

-----------------------------------------------------------------------------
(* The marks and the queues while the administrator works *)

LEMMA FinishedMarked ==
    ASSUME NEW t, NEW d \in Descriptors, NEW l, NEW x, NEW oper, MarkedAs(t, d, l, x)
    PROVE  MarkedAs(t, Finished(oper, d), l, x)
<1>1. PICK e : e = Finished(oper, d)
  OBVIOUS
<1>2. CASE oper = "rollback"
  <2>1. e = Wake(d, "OK")
    BY <1>1, <1>2 DEF Finished
  <2>2. Same(d, e)
    BY <2>1, WakeSame
  <2>3. QED
    BY <1>1, <2>2 DEF Same, MarkedAs, Image
<1>3. CASE oper # "rollback"
  <2>1. PICK b : b = {"MIGRATE"}
    OBVIOUS
  <2>2. e = Clear(d, b)
    BY <1>1, <1>3, <2>1 DEF Finished
  <2>3. e.rts = d.rts \ b /\ e.misc = d.misc
    BY <2>2, ClearFields
  <2>4. QED
    BY <1>1, <2>3 DEF MarkedAs, Image
<1>4. QED
  BY <1>2, <1>3

\* The walk of p_mlist begins or goes on at its head.
LEMMA WalkFrom ==
    ASSUME NEW s \in Seq(Procs), IsInjective(s), s # <<>>, NEW t \in Procs,
           NEW oper \in {"rollback", "old", "new", "third"}, Walk(oper, t, "migr", s, s[1])
    PROVE  /\ Flushes(t)' /\ admin'.proc = t
           /\ admin'.tmp = NONE => Len(s) = 1
<1>1. PICK x : x = s[1]
  OBVIOUS
<1>2. Len(s) \in Nat /\ Len(s) # 0 /\ DOMAIN s = 1 .. Len(s)
  BY EmptySeq, LenProperties
<1>3. x \in Range(s) /\ x \in Procs
  BY <1>1, <1>2 DEF Range
<1>4. PICK a, k : a = After(s, x) /\ k = CHOOSE i \in DOMAIN s : s[i] = x
  OBVIOUS
<1>5. admin' = [oper |-> oper, proc |-> t, list |-> "migr", xpp |-> x, tmp |-> a]
  BY <1>1, <1>3, <1>4 DEF Walk
<1>6. k = 1
  BY <1>1, <1>2, <1>4 DEF IsInjective
<1>7. a = IF k < Len(s) THEN s[k + 1] ELSE NONE
  BY <1>4 DEF After
<1>8. a \in Procs \cup {NONE} /\ (a = NONE => Len(s) = 1)
  BY <1>2, <1>6, <1>7, NamesAssumption
<1>9. admin' \in AdminRecords
  BY <1>3, <1>5, <1>8 DEF AdminRecords
<1>10. Walking' /\ admin'.list = "migr" /\ admin'.proc = t /\ admin'.tmp = a
  BY <1>5, <1>9, NotWalking DEF Walking
<1>11. QED
  BY <1>8, <1>10 DEF Flushes

\* Nobody flushes p_mlist after a step that leaves, where a process is not
\* marked, the image alone in its queue.
LEMMA QueuesRest ==
    ASSUME AllMarked', \A q \in Procs : ~Flushes(q)',
           \A q \in Procs : Home[q] = local /\ p_mlist'[q] # <<>> /\ "MIGRATE" \notin proc'[q].rts
                               => p_mlist'[q] = <<q>>
    PROVE  MarksFit'
BY DEF MarksFit, QueueFit, TailFit

LEMMA WalkSendRests ==
    ASSUME NEW oper, NEW t, NEW q, NEW x, Walk(oper, t, "send", q, x)
    PROVE  \A p \in Procs : ~Flushes(p)'
<1>1. admin' = Wild \/ admin'.list = "send"
  BY DEF Walk
<1>2. QED
  BY <1>1 DEF Flushes, Walking

\* The same of the process whose lists are flushed, marked or not.
LEMMA MigrFlushedMarks ==
    ASSUME NEW oper, NEW t \in Procs, NEW ps \in [Procs -> Descriptors], MigrFlushed(oper, t, ps),
           \A q \in Procs : MarkedAs(q, ps[q], pc'[q], expired'[q]),
           \A q \in Procs : Home[q] = local /\ p_mlist'[q] # <<>> /\ (q = t \/ "MIGRATE" \notin ps[q].rts)
                               => p_mlist'[q] = <<q>>
    PROVE  MarksFit'
<1>1. \/ proc' = ps \/ proc' = [ps EXCEPT ![t] = Finished(oper, @)]
  BY DEF MigrFlushed
<1>2. PICK f : f = Finished(oper, ps[t])
  OBVIOUS
<1>3. \A q \in Procs : proc'[q] = ps[q] \/ (q = t /\ proc'[q] = f)
  BY <1>1, <1>2
<1>4. MarkedAs(t, f, pc'[t], expired'[t])
  BY <1>2, FinishedMarked
<1>5. AllMarked'
  BY <1>3, <1>4 DEF AllMarked
<1>6. admin' = Idle \/ Walk(oper, t, "send", p_list[t], Head(p_list[t]))
  BY DEF MigrFlushed
<1>7. \A q \in Procs : ~Flushes(q)'
  BY <1>6, WalkSendRests DEF Flushes, Walking
<1>8. QED
  BY <1>3, <1>5, <1>7, QueuesRest

\* An operation has changed t to d.
LEMMA FlushMarks ==
    ASSUME IInv, MarksFit, ~Walking, NEW oper \in {"rollback", "old", "new", "third"},
           NEW t \in Procs, NEW d \in Descriptors, Flush(oper, t, d), UNCHANGED p_mlist,
           MarkedAs(t, d, pc'[t], expired'[t]),
           \A q \in Procs \ {t} : pc'[q] = pc[q] /\ expired'[q] = expired[q]
    PROVE  MarksFit'
<1>1. PICK ps : ps = [proc EXCEPT ![t] = d]
  OBVIOUS
<1>2. /\ ps \in [Procs -> Descriptors] /\ ps[t] = d
      /\ \A q \in Procs \ {t} : ps[q] = proc[q]
  BY <1>1 DEF IInv, RestTyped
<1>3. ASSUME NEW q \in Procs PROVE MarkedAs(q, ps[q], pc'[q], expired'[q])
  <2>1. MarkedAs(q, proc[q], pc[q], expired[q])
    BY DEF MarksFit, AllMarked
  <2>2. QED
    BY <1>2, <2>1
<1>4. ASSUME NEW q \in Procs \ {t}, Home[q] = local, p_mlist[q] # <<>>, "MIGRATE" \notin ps[q].rts
      PROVE  p_mlist[q] = <<q>>
  BY <1>2, <1>4 DEF MarksFit, QueueFit, Flushes
<1>5. CASE p_mlist[t] # <<>>
  <2>1. PICK s : s = p_mlist[t]
    OBVIOUS
  <2>2. s \in Seq(Procs) /\ IsInjective(s) /\ s # <<>> /\ p_mlist' = p_mlist
    BY <1>5, <2>1 DEF IInv, ListsFit, ListsTyped, LinkedOnce
  <2>3. proc' = ps /\ Walk(oper, t, "migr", s, s[1])
    BY <1>1, <1>5, <2>1, <2>2 DEF Flush
  <2>4. Flushes(t)' /\ admin'.proc = t /\ (admin'.tmp = NONE => Len(s) = 1)
    BY <2>2, <2>3, WalkFrom
  <2>5. AllMarked'
    BY <1>3, <2>3 DEF AllMarked
  <2>6. ASSUME NEW q \in Procs PROVE QueueFit(q)' /\ TailFit(q)'
    <3>1. CASE q = t
      BY <2>1, <2>2, <2>4, <3>1 DEF QueueFit, TailFit
    <3>2. CASE q # t
      <4>1. ~Flushes(q)'
        BY <2>4, <3>2 DEF Flushes
      <4>2. QED
        BY <1>4, <2>2, <2>3, <3>2, <4>1 DEF QueueFit, TailFit
    <3>3. QED
      BY <3>1, <3>2
  <2>7. QED
    BY <2>5, <2>6 DEF MarksFit
<1>6. CASE p_mlist[t] = <<>>
  <2>1. MigrFlushed(oper, t, ps)
    BY <1>1, <1>6 DEF Flush
  <2>2. \A q \in Procs : Home[q] = local /\ p_mlist'[q] # <<>> /\ (q = t \/ "MIGRATE" \notin ps[q].rts)
                            => p_mlist'[q] = <<q>>
    BY <1>4, <1>6
  <2>3. QED
    BY <1>2, <1>3, <2>1, <2>2, MigrFlushedMarks
<1>7. QED
  BY <1>5, <1>6

\* An operation that flushes nothing.
LEMMA ChangeMarks ==
    ASSUME IInv, MarksFit, NEW t \in Procs, NEW d, proc' = [proc EXCEPT ![t] = d],
           UNCHANGED <<p_mlist, thread, admin>>, MarkedAs(t, d, pc[t], expired[t]),
           Home[t] = local => ("MIGRATE" \in proc[t].rts => "MIGRATE" \in d.rts)
    PROVE  MarksFit'
<1>1. \A q \in Procs : proc'[q] = IF q = t THEN d ELSE proc[q]
  BY DEF IInv, RestTyped
<1>2. AllMarked'
  BY <1>1 DEF MarksFit, AllMarked, thread
<1>3. ASSUME NEW q \in Procs PROVE QueueFit(q)' /\ TailFit(q)'
  <2>1. Flushes(q)' = Flushes(q) /\ admin' = admin /\ p_mlist' = p_mlist
    BY DEF Flushes, Walking
  <2>2. Home[q] = local => ("MIGRATE" \in proc[q].rts => "MIGRATE" \in proc'[q].rts)
    BY <1>1
  <2>3. QED
    BY <2>1, <2>2 DEF MarksFit, QueueFit, TailFit
<1>4. QED
  BY <1>2, <1>3 DEF MarksFit

LEMMA StartMarks ==
    ASSUME IInv, MarksFit, NEW t \in Procs, Start(t) PROVE MarksFit'
<1>1. PICK d, e : d = proc[t] /\ e = Told(d)
  OBVIOUS
<1>2. /\ admin = Idle /\ t \in Migrants /\ ~Image(d) /\ proc' = [proc EXCEPT ![t] = e]
      /\ UNCHANGED <<p_mlist, thread, admin>>
  BY <1>1 DEF Start, Image, lists
<1>3. d \in Descriptors /\ Receiver(t, d, pc[t], FALSE) /\ MarkedAs(t, d, pc[t], expired[t])
  BY <1>1, <1>2, Migrant DEF MarksFit, AllMarked
<1>4. CASE d.rts = {}
  <2>1. e.rts = d.rts /\ e.misc = d.misc \cup {"NEEDMIGR"}
    BY <1>1, <1>3, <1>4 DEF Told, Descriptors
  <2>2. MarkedAs(t, e, pc[t], expired[t])
    BY <1>2, <1>3, <1>4, <2>1 DEF MarkedAs, Image
  <2>3. QED
    BY <1>1, <1>2, <1>4, <2>2, ChangeMarks
<1>5. CASE d.rts # {}
  <2>1. e.rts = d.rts \cup {"MIGRATE"} /\ e.misc = d.misc
    BY <1>1, <1>3, <1>5, SetFields DEF Told, RtsFlags
  <2>2. "NEEDMIGR" \notin d.misc \/ pc[t] = "receiving"
    BY <1>2, <1>3, <1>5 DEF Receiver, MarkedAs
  <2>3. MarkedAs(t, e, pc[t], expired[t])
    BY <1>2, <1>3, <2>1, <2>2 DEF MarkedAs, Image
  <2>4. QED
    BY <1>1, <1>2, <2>1, <2>3, ChangeMarks
<1>6. QED
  BY <1>4, <1>5

LEMMA RollbackMarks ==
    ASSUME IInv, MarksFit, NEW t \in Procs, Rollback(t) PROVE MarksFit'
<1>1. PICK d, e : d = proc[t] /\ e = RolledBack(d)
  OBVIOUS
<1>2. /\ admin = Idle /\ t \in Migrants /\ "MIGRATE" \in d.rts
      /\ UNCHANGED <<p_mlist, thread>>
  BY <1>1 DEF Rollback, Has, lists
<1>3. d \in Descriptors /\ Receiver(t, d, pc[t], FALSE) /\ MarkedAs(t, d, pc[t], expired[t])
  BY <1>1, <1>2, Migrant DEF MarksFit, AllMarked
<1>4. e \in Descriptors /\ e.rts = d.rts \ {"MIGRATE"} /\ e.misc = d.misc \ {"NEEDMIGR"}
  BY <1>1, <1>3, RolledBackFields
<1>5. MarkedAs(t, e, pc[t], expired[t])
  BY <1>3, <1>4 DEF MarkedAs, Image
<1>6. CASE "REMOTE" \in d.rts
  <2>1. Home[t] # local
    BY <1>2, <1>3, <1>6 DEF Receiver, MarkedAs
  <2>2. proc' = [proc EXCEPT ![t] = e] /\ UNCHANGED admin
    BY <1>1, <1>6 DEF Rollback, Has
  <2>3. QED
    BY <1>2, <1>5, <2>1, <2>2, ChangeMarks
<1>7. CASE "REMOTE" \notin d.rts
  <2>1. Flush("rollback", t, e)
    BY <1>1, <1>7 DEF Rollback, Has
  <2>2. QED
    BY <1>2, <1>4, <1>5, <2>1, FlushMarks DEF Walking, thread
<1>8. QED
  BY <1>6, <1>7

\* The process that goes leaves an image that has not NEED to migrate.
LEMMA CommitOldMarks ==
    ASSUME IInv, MarksFit, NEW t \in Procs, NEW n \in Nodes, CommitOld(t, n) PROVE MarksFit'
<1>1. PICK d, f : /\ d = proc[t]
                  /\ f = [d EXCEPT !.nodeid = n, !.rts = (@ \ {"MIGRATE"}) \cup {"REMOTE"},
                                   !.misc = @ \cup {"RMTBACKUP"}]
  OBVIOUS
<1>2. /\ admin = Idle /\ t \in Migrants /\ "MIGRATE" \in d.rts
      /\ Flush("old", t, f) /\ UNCHANGED <<p_mlist, thread>>
  BY <1>1 DEF CommitOld, Commits, Has, lists
<1>3. d \in Descriptors /\ MarkedAs(t, d, pc[t], expired[t])
  BY <1>1, <1>2, Migrant DEF MarksFit, AllMarked
<1>4. /\ f \in Descriptors /\ f.rts = (d.rts \ {"MIGRATE"}) \cup {"REMOTE"}
      /\ f.misc = d.misc \cup {"RMTBACKUP"}
  BY <1>1, <1>3 DEF Descriptors, RtsFlags
<1>5. MarkedAs(t, f, pc[t], expired[t])
  BY <1>2, <1>3, <1>4 DEF MarkedAs, Image
<1>6. QED
  BY <1>2, <1>4, <1>5, FlushMarks DEF Walking, thread

LEMMA CommitThirdMarks ==
    ASSUME IInv, MarksFit, NEW t \in Procs, NEW n \in Nodes, CommitThird(t, n) PROVE MarksFit'
<1>1. PICK d, f : d = proc[t] /\ f = [d EXCEPT !.nodeid = n]
  OBVIOUS
<1>2. admin = Idle /\ t \in Migrants /\ Flush("third", t, f) /\ UNCHANGED <<p_mlist, thread>>
  BY <1>1 DEF CommitThird, Commits, lists
<1>3. d \in Descriptors /\ MarkedAs(t, d, pc[t], expired[t])
  BY <1>1, <1>2, Migrant DEF MarksFit, AllMarked
<1>4. f \in Descriptors /\ f.rts = d.rts /\ f.misc = d.misc
  BY <1>1, <1>3 DEF Descriptors
<1>5. MarkedAs(t, f, pc[t], expired[t])
  BY <1>3, <1>4 DEF MarkedAs, Image
<1>6. QED
  BY <1>2, <1>4, <1>5, FlushMarks DEF Walking, thread

LEMMA CommitNewMarks ==
    ASSUME IInv, MarksFit, NEW t \in Procs, CommitNew(t) PROVE MarksFit'
<1>1. PICK d, f : d = proc[t] /\ f = [d EXCEPT !.nodeid = local, !.rts = {}]
  OBVIOUS
<1>2. /\ admin = Idle /\ t \in Migrants /\ ~Image(d) /\ Flush("new", t, f) /\ Goto(t, "user")
      /\ UNCHANGED p_mlist
  BY <1>1 DEF CommitNew, Commits, Image, lists
<1>3. d \in Descriptors
  BY <1>1, <1>2, Migrant
<1>4. f \in Descriptors /\ f.rts = {} /\ f.misc = d.misc
  BY <1>1, <1>3, NodesAssumption DEF Descriptors
<1>5. /\ pc'[t] = "user" /\ expired'[t] = FALSE
      /\ \A q \in Procs \ {t} : pc'[q] = pc[q] /\ expired'[q] = expired[q]
  <2>1. "user" \in PcValues
    BY DEF PcValues
  <2>2. QED
    BY <1>2, <2>1, GotoTyped DEF IInv
<1>6. MarkedAs(t, f, pc'[t], expired'[t])
  BY <1>2, <1>4, <1>5 DEF MarkedAs, Image
<1>7. QED
  BY <1>2, <1>4, <1>5, <1>6, FlushMarks DEF Walking

LEMMA WaiterAsleep ==
    ASSUME IInv, NEW p \in Procs, "WAITMIGR" \in proc[p].rts PROVE proc[p].sem <= 0
<1>1. PICK d : d = proc[p]
  OBVIOUS
<1>2. d \in Descriptors /\ Fit(p, d, pc[p], Hit(p), Rolls(p)) /\ "WAITMIGR" \in d.rts
  BY <1>1, Its
<1>3. CASE SendsTo[p] # {}
  <2>1. Sender(d, pc[p], Hit(p))
    BY <1>2, <1>3 DEF Fit
  <2>2. d.sem = -1 \/ d.sem = 0
    BY <1>2, <2>1 DEF Sender, SenderFlags
  <2>3. QED
    BY <1>1, <2>2
<1>4. CASE SendsTo[p] = {}
  <2>1. Receiver(p, d, pc[p], Rolls(p))
    BY <1>2, <1>4 DEF Fit
  <2>2. d.sem = -1
    BY <1>2, <2>1 DEF Receiver
  <2>3. QED
    BY <1>1, <2>2
<1>5. QED
  BY <1>3, <1>4

LEMMA FlushMigrMarks == ASSUME IInv, MarksFit, FlushMigr PROVE MarksFit'
<1>1. PICK oper, t, x, s : oper = admin.oper /\ t = admin.proc /\ x = admin.xpp /\ s = p_mlist[t]
  OBVIOUS
<1>2. PICK d, e, f : /\ d = proc[x] /\ e = [Clear(d, {"WAITMIGR"}) EXCEPT !.waitmigr = NONE]
                     /\ f = IF d.waitmigr = t THEN Wake(e, "OK") ELSE d
  OBVIOUS
<1>3. Walking /\ admin.list = "migr"
  BY DEF FlushMigr, Walking
<1>4. /\ oper \in {"rollback", "old", "new", "third"} /\ t \in Procs /\ x \in Procs
  BY <1>1, <1>3, WalkerIs
<1>5. /\ s \in Seq(Procs) /\ IsInjective(s) /\ s # <<>> /\ x = s[1]
      /\ admin.tmp # NONE => Len(s) > 1 /\ admin.tmp = s[2]
  BY <1>1, <1>3, <1>4 DEF IInv, AdminFit, ListsFit, ListsTyped, LinkedOnce
<1>6. PICK u : u = Without(s, x)
  OBVIOUS
<1>7. /\ u \in Seq(Procs) /\ IsInjective(u) /\ Len(s) \in Nat /\ x \in Range(s)
      /\ Len(u) = Len(s) - 1 /\ \A j \in 1 .. Len(s) - 1 : u[j] = s[j + 1]
  <2>1. 1 \in DOMAIN s
    BY <1>5, EmptySeq, LenProperties
  <2>2. x \in Range(s)
    BY <1>5, <2>1 DEF Range
  <2>3. u \in Seq(Procs) /\ IsInjective(u)
    BY <1>5, <1>6, <2>2, WithoutExact
  <2>4. Len(u) = Len(s) - 1 /\ \A j \in 1 .. Len(s) - 1 : u[j] = s[j + 1]
    BY <1>5, <1>6, WithoutHead
  <2>5. QED
    BY <1>5, <2>2, <2>3, <2>4, LenProperties
<1>8. admin.tmp # NONE => u # <<>> /\ admin.tmp = u[1]
  <2>1. ASSUME admin.tmp # NONE PROVE u # <<>> /\ admin.tmp = u[1]
    <3>1. Len(s) > 1 /\ admin.tmp = s[2]
      BY <1>5, <2>1
    <3>2. 1 \in 1 .. Len(s) - 1 /\ 1 + 1 = 2 /\ Len(s) - 1 # 0
      BY <1>7, <3>1
    <3>3. u[1] = s[2] /\ Len(u) # 0
      BY <1>7, <3>2
    <3>4. QED
      BY <3>1, <3>3
  <2>2. QED
    BY <2>1
<1>9. Home[t] = local /\ admin.tmp = NONE /\ u # <<>> => u = <<t>>
  <2>1. ASSUME Home[t] = local, admin.tmp = NONE, u # <<>> PROVE u = <<t>>
    <3>1. \A i \in 2 .. Len(s) : s[i] = t
      BY <1>1, <1>3, <1>4, <2>1 DEF MarksFit, TailFit, Flushes
    <3>2. \A j \in 1 .. Len(u) : u[j] = t
      BY <1>7, <3>1
    <3>3. Len(u) \in Nat /\ Len(u) # 0 /\ DOMAIN u = 1 .. Len(u)
      BY <1>7, <2>1, EmptySeq, LenProperties
    <3>4. Len(u) = 1
      <4>1. CASE Len(u) > 1
        <5>1. 1 \in DOMAIN u /\ 2 \in DOMAIN u /\ u[1] = u[2]
          BY <3>2, <3>3, <4>1
        <5>2. QED
          BY <1>7, <5>1 DEF IsInjective
      <4>2. QED
        BY <3>3, <4>1
    <3>5. u[1] = t
      BY <3>2, <3>4
    <3>6. QED
      BY <1>7, <3>4, <3>5
  <2>2. QED
    BY <2>1
<1>10. PICK ps : ps = [proc EXCEPT ![x] = f]
  OBVIOUS
<1>11. /\ p_mlist' = [p_mlist EXCEPT ![t] = u]
       /\ IF admin.tmp = NONE THEN MigrFlushed(oper, t, ps)
          ELSE proc' = ps /\ Walk(oper, t, "migr", p_mlist'[t], admin.tmp)
       /\ UNCHANGED thread
  <2>1. ps = [proc EXCEPT ![x] = IF @.waitmigr = t
                     THEN Wake([Clear(@, {"WAITMIGR"}) EXCEPT !.waitmigr = NONE], "OK") ELSE @]
    BY <1>2, <1>4, <1>10 DEF IInv, RestTyped
  <2>2. QED
    BY <1>1, <1>6, <2>1 DEF FlushMigr
<1>12. f \in Descriptors /\ Same(d, f)
  <2>1. d \in Descriptors
    BY <1>2, <1>4, Its
  <2>2. d.sem <= 0 /\ d.waitmigr = t
    BY <1>1, <1>2, <1>4, <1>7, WaiterAsleep DEF IInv, ListsFit, WaitsExact
  <2>3. /\ e \in Descriptors /\ e.rts = d.rts \ {"WAITMIGR"} /\ e.misc = d.misc
        /\ e.sem = d.sem
    BY <1>2, <2>1, UnwaitFields
  <2>4. Same(d, e) /\ f = Wake(e, "OK")
    BY <1>2, <2>2, <2>3 DEF Same
  <2>5. e.sem <= 1
    BY <2>1, <2>2, <2>3 DEF Descriptors
  <2>6. f \in Descriptors
    BY <2>3, <2>4, <2>5, WakeFields
  <2>7. QED
    BY <2>3, <2>4, <2>6, WakeSame, SameAfter
<1>13. /\ ps \in [Procs -> Descriptors]
       /\ \A q \in Procs : ps[q] = IF q = x THEN f ELSE proc[q]
  BY <1>10, <1>12 DEF IInv, RestTyped
<1>14. ASSUME NEW q \in Procs
       PROVE  Same(proc[q], ps[q]) /\ MarkedAs(q, ps[q], pc'[q], expired'[q])
  <2>1. Same(proc[q], ps[q])
    BY <1>2, <1>12, <1>13, SameSelf
  <2>2. MarkedAs(q, proc[q], pc[q], expired[q]) /\ pc' = pc /\ expired' = expired
    BY <1>11 DEF MarksFit, AllMarked, thread
  <2>3. QED
    BY <2>1, <2>2, SameMarked
<1>15. /\ p_mlist'[t] = u
       /\ \A q \in Procs \ {t} : p_mlist'[q] = p_mlist[q]
  BY <1>4, <1>11 DEF IInv, ListsFit, ListsTyped
<1>16. ASSUME NEW q \in Procs \ {t}, Home[q] = local, p_mlist[q] # <<>>, "MIGRATE" \notin ps[q].rts
       PROVE  p_mlist[q] = <<q>>
  BY <1>1, <1>14, <1>16 DEF MarksFit, QueueFit, Flushes, Same
<1>17. CASE admin.tmp = NONE
  <2>1. \A q \in Procs : Home[q] = local /\ p_mlist'[q] # <<>> /\ (q = t \/ "MIGRATE" \notin ps[q].rts)
                            => p_mlist'[q] = <<q>>
    BY <1>9, <1>15, <1>16, <1>17
  <2>2. QED
    BY <1>4, <1>11, <1>13, <1>14, <1>17, <2>1, MigrFlushedMarks
<1>18. CASE admin.tmp # NONE
  <2>1. proc' = ps /\ Walk(oper, t, "migr", u, u[1]) /\ u # <<>>
    BY <1>8, <1>11, <1>15, <1>18
  <2>2. Flushes(t)' /\ admin'.proc = t /\ (admin'.tmp = NONE => Len(u) = 1)
    BY <1>4, <1>7, <2>1, WalkFrom
  <2>3. AllMarked'
    BY <1>14, <2>1 DEF AllMarked
  <2>4. ASSUME NEW q \in Procs PROVE QueueFit(q)' /\ TailFit(q)'
    <3>1. CASE q = t
      BY <1>15, <2>2, <3>1 DEF QueueFit, TailFit
    <3>2. CASE q # t
      <4>1. ~Flushes(q)'
        BY <2>2, <3>2 DEF Flushes
      <4>2. QED
        BY <1>15, <1>16, <2>1, <3>2, <4>1 DEF QueueFit, TailFit
    <3>3. QED
      BY <3>1, <3>2
  <2>5. QED
    BY <2>3, <2>4 DEF MarksFit
<1>19. QED
  BY <1>17, <1>18

LEMMA FlushSendMarks == ASSUME IInv, WalkFit, MarksFit, FlushSend PROVE MarksFit'
<1>1. PICK t, x : t = admin.proc /\ x = admin.xpp
  OBVIOUS
<1>2. PICK d, c, e, f : /\ d = proc[x] /\ c = Clear(d, {"RECEIVING"}) /\ e = EndSend(c)
                        /\ f = Wake(e, "OK")
  OBVIOUS
<1>3. Walking /\ admin.list = "send" /\ admin.list # "migr"
  BY DEF FlushSend, Walking
<1>4. t \in Procs /\ x \in Procs
  BY <1>1, <1>3, WalkerIs
<1>5. PICK ps : ps = [proc EXCEPT ![x] = f]
  OBVIOUS
<1>6. /\ UNCHANGED <<p_mlist, thread>>
      /\ \/ proc' = [ps EXCEPT ![t] = Finished("old", @)] /\ admin' = Idle
         \/ proc' = ps /\ Walk("old", t, "send", p_list'[t], admin.tmp)
  <2>1. ps = [proc EXCEPT ![x] = Wake(EndSend(Clear(@, {"RECEIVING"})), "OK")]
    BY <1>2, <1>4, <1>5 DEF IInv, RestTyped
  <2>2. QED
    BY <1>1, <2>1 DEF FlushSend
<1>7. Same(d, f)
  <2>1. d \in Descriptors
    BY <1>2, <1>4, Its
  <2>2. c \in Descriptors /\ e \in Descriptors /\ Same(d, c) /\ Same(c, e) /\ Same(e, f)
    BY <1>2, <2>1, ClearSame, WakeSame
  <2>3. QED
    BY <2>2, SameAfter
<1>8. t # x
  BY <1>1, <1>3, WalkerIs DEF IInv, AdminFit
<1>9. PICK g : g = Finished("old", proc[t])
  OBVIOUS
<1>10. \A q \in Procs : IF q = x THEN proc'[q] = f
                        ELSE proc'[q] = proc[q] \/ (q = t /\ proc'[q] = g)
  BY <1>4, <1>5, <1>6, <1>8, <1>9 DEF IInv, RestTyped
<1>11. ASSUME NEW q \in Procs PROVE MarkedAs(q, proc'[q], pc'[q], expired'[q])
  <2>1. MarkedAs(q, proc[q], pc[q], expired[q]) /\ pc' = pc /\ expired' = expired
    BY <1>6 DEF MarksFit, AllMarked, thread
  <2>2. CASE q = x
    BY <1>2, <1>7, <1>10, <2>1, <2>2, SameMarked
  <2>3. CASE q # x
    <3>1. q = t => MarkedAs(q, g, pc[q], expired[q])
      BY <1>9, <2>1, Its, FinishedMarked
    <3>2. QED
      BY <1>10, <2>1, <2>3, <3>1
  <2>4. QED
    BY <2>2, <2>3
<1>12. ASSUME NEW q \in Procs, Home[q] = local, p_mlist[q] # <<>>, "MIGRATE" \notin proc'[q].rts
       PROVE  p_mlist[q] = <<q>>
  <2>1. "MIGRATE" \notin proc[q].rts
    <3>1. CASE q = t
      BY <1>1, <1>3, <1>12, <3>1, FlushedUnmarked DEF MarksFit
    <3>2. CASE q # t
      BY <1>2, <1>7, <1>10, <1>12, <3>2 DEF Same
    <3>3. QED
      BY <3>1, <3>2
  <2>2. ~Flushes(q)
    BY <1>3 DEF Flushes
  <2>3. QED
    BY <1>12, <2>1, <2>2 DEF MarksFit, QueueFit
<1>13. \A q \in Procs : ~Flushes(q)'
  BY <1>6, WalkSendRests DEF Flushes, Walking
<1>14. QED
  BY <1>6, <1>11, <1>12, <1>13, QueuesRest DEF AllMarked

LEMMA MarksHold ==
    IInv /\ WalkFit /\ MarksFit /\ Timed \cap Migrants = {} /\ [Next]_vars => MarksFit'
<1> SUFFICES ASSUME IInv, WalkFit, MarksFit, Timed \cap Migrants = {}, [Next]_vars
             PROVE  MarksFit'
  OBVIOUS
<1>1. CASE \E p \in Procs : Step(p)
  BY <1>1, ThreadMarksFit
<1>2. CASE Migrate
  BY <1>2, StartMarks, RollbackMarks, CommitNewMarks, CommitOldMarks, CommitThirdMarks,
     FlushMigrMarks, FlushSendMarks DEF Migrate
<1>3. CASE UNCHANGED vars
  <2>1. /\ proc' = proc /\ p_mlist' = p_mlist /\ pc' = pc /\ expired' = expired
        /\ admin' = admin
    BY <1>3 DEF vars, lists, thread, office
  <2>2. QED
    BY <2>1 DEF MarksFit, AllMarked, QueueFit, TailFit, Flushes, Walking
<1>4. QED
  BY <1>1, <1>2, <1>3 DEF Next

LEMMA InitMarks == Init => MarksFit
<1> SUFFICES ASSUME Init PROVE MarksFit
  OBVIOUS
<1>1. ASSUME NEW p \in Procs PROVE MarkedAs(p, proc[p], pc[p], expired[p])
  <2>1. PICK d : d = proc[p]
    OBVIOUS
  <2>2. d.misc = {}
    BY <2>1 DEF Init
  <2>3. Home[p] = local => pc[p] = "user"
    BY DEF Init
  <2>4. ~expired[p]
    BY DEF Init
  <2>5. QED
    BY <2>1, <2>2, <2>3, <2>4 DEF MarkedAs, Image
<1>2. \A p \in Procs : p_mlist[p] = <<>> /\ ~Flushes(p)
  BY DEF Init, Flushes, Walking
<1>3. QED
  BY <1>1, <1>2 DEF MarksFit, AllMarked, QueueFit, TailFit

\* Where nobody that migrates makes a call with a timeout, nobody sleeps over
\* the end of a migration from this node or back to it: whoever waits in
\* p_mlist waits for a process still marked, or is before the flush, and one
\* that has stopped to migrate is still marked or about to be woken.
THEOREM LocalsWake == ASSUME Timed \cap Migrants = {} PROVE Spec => []LocalsWoken
<1>1. ASSUME IInv, WalkFit, MarksFit PROVE LocalsWoken
  <2>1. ASSUME NEW p \in Procs, Home[p] = local, NEW x \in Procs PROVE ~Forgotten(x, p)
    <3>1. SUFFICES ASSUME Forgotten(x, p) PROVE FALSE
      OBVIOUS
    <3>2. /\ "WAITMIGR" \in proc[x].rts /\ proc[x].waitmigr = p /\ x # p
          /\ "MIGRATE" \notin proc[p].rts /\ ~Reaches(x, p)
      BY <3>1 DEF Forgotten, Has
    <3>3. PICK s : s = p_mlist[p]
      OBVIOUS
    <3>4. x \in Range(s) /\ s \in Seq(Procs)
      BY <1>1, <3>2, <3>3 DEF IInv, ListsFit, ListsTyped, WaitsExact
    <3>5. PICK j \in DOMAIN s : s[j] = x
      BY <3>4 DEF Range
    <3>6. s # <<>> /\ s # <<p>>
      BY <3>2, <3>5
    <3>7. Flushes(p)
      BY <1>1, <2>1, <3>2, <3>3, <3>6 DEF MarksFit, QueueFit
    <3>8. s[1] = admin.xpp
      BY <1>1, <3>3, <3>7 DEF IInv, AdminFit, Flushes
    <3>9. 1 \in DOMAIN s /\ 1 <= j
      BY <3>4, <3>5
    <3>10. Reaches(x, p)
      BY <3>3, <3>5, <3>7, <3>8, <3>9 DEF Reaches, Flushes, Walking
    <3>11. QED
      BY <3>2, <3>10
  <2>2. ASSUME NEW p \in Procs, Unwoken(p), proc[p].rts = {} PROVE RollsBack(p)
    <3>1. PICK d : d = proc[p]
      OBVIOUS
    <3>2. d \in Descriptors /\ Fit(p, d, pc[p], Hit(p), Rolls(p)) /\ d.rts = {}
      BY <1>1, <2>2, <3>1, Its
    <3>3. /\ d.sem < 0
          /\ pc[p] \in {"stopped", "backup", "migrating", "sending", "receiving"}
      BY <2>2, <3>1 DEF Unwoken, Asleep
    <3>4. SendsTo[p] = {}
      BY <3>2, <3>3 DEF Fit, Sender
    <3>5. Receiver(p, d, pc[p], Rolls(p))
      BY <3>2, <3>4 DEF Fit
    <3>6. Rolls(p)
      BY <3>2, <3>3, <3>5 DEF Receiver, Image
    <3>7. QED
      BY <3>6 DEF Rolls, RollsBack, Walking
  <2>3. QED
    BY <2>1, <2>2 DEF LocalsWoken
<1>2. Init => IInv /\ WalkFit /\ MarksFit
  BY InitFits, InitMarks
<1>3. IInv /\ WalkFit /\ MarksFit /\ [Next]_vars => IInv' /\ WalkFit' /\ MarksFit'
  BY NextFits, MarksHold
<1>4. QED
  BY <1>1, <1>2, <1>3, PTL DEF Spec
=============================================================================
