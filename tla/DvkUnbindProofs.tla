--------------------------- MODULE DvkUnbindProofs ---------------------------
(* The mutexes of processes are taken in the order of p_nr; who sleeps on a   *)
(* process that leaves is woken, an unbind that ends is released, and the     *)
(* deaths that calls report are deaths: for any processes and any calls.      *)
EXTENDS DvkUnbind, SequenceTheorems, TLAPS

\* What a thread that holds some mutexes may go on to take: of those of
\* processes only what is above, and none before the one of the DC.
Orderly(held, want) ==
    \/ want = <<>> \/ want = <<DC>>
    \/ \E a \in Procs : want = <<a>> /\ \A q \in held \cap Procs : q < a
    \/ /\ held \cap Procs = {}
       /\ \E a \in Procs :
             \/ want = <<DC, a>>
             \/ \E b \in Procs : a < b /\ (want = <<a, b>> \/ want = <<DC, a, b>>)

\* The inductive invariant in parts: the mutexes, the calls, the descriptors,
\* the lists, the walks and the types of the rest.
HeldBy(p) == {q \in Procs : owner[q] = p}
MutexesFit ==
    /\ owner \in [Locks -> Procs \cup {NONE}]
    /\ needs \in [Procs -> Seq(Locks)]
    /\ pc \in [Procs -> PcValues]
    /\ \A p \in Procs : Orderly(HeldBy(p), needs[p])

\* Whom a call may be to, given where its thread is.
OpAt(l) ==
    IF l \in {"send", "sendto"} THEN {"send"}
    ELSE IF l \in {"source", "check", "scan", "visit"} THEN {"receive"}
    ELSE IF l \in {"sendrec", "reply", "unbind"} THEN {l}
    ELSE {"none", "send", "sendrec", "receive", "reply", "unbind"}
Fits(c, l, p) ==
    /\ c \in CallRecords /\ c.op \in OpAt(l)
    /\ c.op \in {"send", "sendrec"} => c.peer \in Procs /\ c.peer < p
    /\ c.op \in {"reply", "unbind"} \/ c.both => c.peer \in Procs \ {p}
    /\ l \in {"source", "check"} => c.peer \in Procs
CallsFit == call \in [Procs -> CallRecords] /\ \A p \in Procs : Fits(call[p], pc[p], p)

Fit(d, p) ==
    d \in Descriptors /\ ("WAITUNBIND" \in d.rts => d.waitunbind \in Procs \ {p})
DescsFit == proc \in [Procs -> Descriptors] /\ \A p \in Procs : Fit(proc[p], p)

Above(p) == {q \in Procs : p < q}
ListsFit ==
    /\ p_list \in [Procs -> Seq(Procs)] /\ \A p \in Procs : p_list[p] \in Seq(Above(p))
    /\ p_ulist \in [Procs -> Seq(Procs)] /\ \A p \in Procs : p_ulist[p] \in Seq(Procs \ {p})
WalksFit ==
    /\ left \in [Procs -> Seq(Procs)]
    /\ \A p \in Procs : left[p] \in Seq(Above(p)) /\ (pc[p] = "visit" => left[p] # <<>>)
    /\ others \in [Procs -> SUBSET Procs] /\ \A p \in Procs : p \notin others[p]
RestTyped ==
    /\ killed \in [Procs -> BOOLEAN] /\ ret \in [Procs -> Rcodes] /\ late \in [Procs -> BOOLEAN]

IInv == MutexesFit /\ CallsFit /\ DescsFit /\ ListsFit /\ WalksFit /\ RestTyped

-----------------------------------------------------------------------------
(* The mutexes *)

LEMMA Between ==
    ASSUME NEW p \in Procs, NEW q \in Procs, p # q
    PROVE  p < q \/ q < p
BY ProcsAssumption

LEMMA OrderedFacts ==
    ASSUME NEW p \in Procs, NEW q \in Procs, p # q
    PROVE  /\ Ordered(p, q) \in Seq(Locks) /\ Orderly({}, Ordered(p, q))
           /\ <<DC>> \o Ordered(p, q) \in Seq(Locks) /\ Orderly({}, <<DC>> \o Ordered(p, q))
<1>1. PICK a \in Procs, b \in Procs : a < b /\ Ordered(p, q) = <<a, b>>
  BY Between DEF Ordered
<1>2. <<DC>> \o <<a, b>> = <<DC, a, b>>
  <2>1. <<DC>> \in Seq(Locks) /\ <<a, b>> \in Seq(Locks) /\ <<DC, a, b>> \in Seq(Locks)
    BY DEF Locks
  <2>2. Len(<<DC>>) = 1 /\ Len(<<a, b>>) = 2 /\ Len(<<DC, a, b>>) = 3
    OBVIOUS
  <2>3. <<DC>> \o <<a, b>> \in Seq(Locks) /\ Len(<<DC>> \o <<a, b>>) = 3
    BY <2>1, <2>2, ConcatProperties
  <2>4. \A i \in 1 .. 3 : (<<DC>> \o <<a, b>>)[i] = <<DC, a, b>>[i]
    BY <2>1, <2>2, ConcatProperties
  <2>5. QED
    BY <2>1, <2>2, <2>3, <2>4, SeqEqual
<1>3. QED
  BY <1>1, <1>2 DEF Orderly, Locks

\* Who goes on takes what is above what it has kept.
LEMMA GotoFits ==
    ASSUME MutexesFit, NEW p \in Procs, NEW l \in PcValues, NEW held,
           NEW want \in Seq(Locks), Orderly(held, want), Goto(p, l, held, want)
    PROVE  MutexesFit' /\ pc' = [pc EXCEPT ![p] = l]
<1>1. /\ pc' = [pc EXCEPT ![p] = l] /\ needs' = [needs EXCEPT ![p] = want]
      /\ \A k \in Locks : owner'[k] = IF k \in held THEN p ELSE
                                      IF owner[k] = p THEN NONE ELSE owner[k]
      /\ owner' \in [Locks -> Procs \cup {NONE}]
  BY DEF Goto, MutexesFit
<1>2. NONE \notin Procs /\ Procs \subseteq Locks
  BY NamesAssumption DEF Locks
<1>3. ASSUME NEW q \in Procs PROVE Orderly(HeldBy(q), needs[q])'
  <2>1. CASE q = p
    <3>1. needs'[p] = want
      BY <1>1 DEF MutexesFit
    <3>2. HeldBy(p)' \subseteq held
      BY <1>1, <1>2 DEF HeldBy
    <3>3. QED
      BY <2>1, <3>1, <3>2 DEF Orderly
  <2>2. CASE q # p
    <3>1. needs'[q] = needs[q] /\ Orderly(HeldBy(q), needs[q])
      BY <1>1, <2>2 DEF MutexesFit
    <3>2. HeldBy(q)' \subseteq HeldBy(q)
      BY <1>1, <1>2, <2>2 DEF HeldBy
    <3>3. QED
      BY <3>1, <3>2 DEF Orderly
  <2>3. QED
    BY <2>1, <2>2
<1>4. QED
  BY <1>1, <1>3 DEF MutexesFit

LEMMA TailFacts ==
    ASSUME NEW a, NEW b, NEW c
    PROVE  Tail(<<a, b>>) = <<b>> /\ Tail(<<a, b, c>>) = <<b, c>>
<1> DEFINE S == {a, b, c}
<1>1. /\ <<b>> \in Seq(S) /\ <<a, b>> \in Seq(S) /\ <<b, c>> \in Seq(S) /\ <<a, b, c>> \in Seq(S)
      /\ Len(<<b>>) = 1 /\ Len(<<a, b>>) = 2 /\ Len(<<b, c>>) = 2 /\ Len(<<a, b, c>>) = 3
  OBVIOUS
<1> HIDE DEF S
<1>2. Tail(<<a, b>>) = <<b>>
  <2>1. Tail(<<a, b>>) \in Seq(S) /\ Len(Tail(<<a, b>>)) = 1 /\ Tail(<<a, b>>)[1] = b
    BY <1>1, HeadTailProperties
  <2>2. QED
    BY <1>1, <2>1, SeqEqual
<1>3. Tail(<<a, b, c>>) = <<b, c>>
  <2>1. /\ Tail(<<a, b, c>>) \in Seq(S) /\ Len(Tail(<<a, b, c>>)) = 2
        /\ Tail(<<a, b, c>>)[1] = b /\ Tail(<<a, b, c>>)[2] = c
    BY <1>1, HeadTailProperties
  <2>2. QED
    BY <1>1, <2>1, SeqEqual
<1>4. QED
  BY <1>2, <1>3

LEMMA LockFits == ASSUME MutexesFit, NEW p \in Procs, Lock(p) PROVE MutexesFit'
<1> DEFINE k == Head(needs[p])
<1>1. /\ Len(needs[p]) > 1 /\ owner' = [owner EXCEPT ![k] = p]
      /\ needs' = [needs EXCEPT ![p] = Tail(needs[p])] /\ UNCHANGED pc
  BY DEF Lock, thread
<1>2. PICK a \in Procs, b \in Procs :
          /\ HeldBy(p) = {}
          /\ \/ needs[p] = <<DC, a>>
             \/ a < b /\ (needs[p] = <<a, b>> \/ needs[p] = <<DC, a, b>>)
  BY <1>1 DEF MutexesFit, Orderly, HeldBy
<1>3. DC \notin Procs /\ NONE \notin Procs
  BY NamesAssumption
<1>4. k \in Locks /\ Tail(needs[p]) \in Seq(Locks)
  BY <1>1, <1>2 DEF MutexesFit, Locks
<1>5. Orderly(HeldBy(p), needs[p])'
  <2>1. CASE k = DC
    <3>1. HeldBy(p)' = {}
      BY <1>1, <1>2, <1>3, <2>1 DEF HeldBy, MutexesFit
    <3>2. needs'[p] = Tail(needs[p])
      BY <1>1 DEF MutexesFit
    <3>3. Tail(needs[p]) = <<a>> \/ (a < b /\ Tail(needs[p]) = <<a, b>>)
      <4>1. needs[p] # <<a, b>>
        BY <1>3, <2>1
      <4>2. Tail(<<DC, a>>) = <<a>> /\ Tail(<<DC, a, b>>) = <<a, b>>
        BY TailFacts
      <4>3. QED
        BY <1>2, <4>1, <4>2
    <3>4. QED
      BY <3>1, <3>2, <3>3 DEF Orderly
  <2>2. CASE k # DC
    <3>1. a < b /\ needs[p] = <<a, b>> /\ k = a
      BY <1>2, <2>2
    <3>2. HeldBy(p)' \subseteq {a}
      BY <1>1, <1>2, <3>1 DEF HeldBy, MutexesFit, Locks
    <3>3. needs'[p] = <<b>>
      BY <1>1, <3>1 DEF MutexesFit
    <3>4. QED
      BY <3>1, <3>2, <3>3 DEF Orderly
  <2>3. QED
    BY <2>1, <2>2
<1>6. ASSUME NEW q \in Procs, q # p PROVE Orderly(HeldBy(q), needs[q])'
  <2>1. needs'[q] = needs[q] /\ HeldBy(q)' \subseteq HeldBy(q) /\ Orderly(HeldBy(q), needs[q])
    BY <1>1, <1>6 DEF MutexesFit, HeldBy, Locks
  <2>2. QED
    BY <2>1 DEF Orderly
<1>7. QED
  BY <1>1, <1>4, <1>5, <1>6 DEF MutexesFit

-----------------------------------------------------------------------------
(* Frames: what a step leaves alone still fits *)

\* Where a thread may be whatever its call is.
Anywhere == Awake \cup Exiting \cup {"sleep", "done", "user"}

LEMMA CallsStay ==
    ASSUME CallsFit, NEW p \in Procs, NEW l, pc \in [Procs -> PcValues],
           pc' = [pc EXCEPT ![p] = l], UNCHANGED call,
           l \in Anywhere \/ Fits(call[p], l, p)
    PROVE  CallsFit'
<1>1. Fits(call[p], l, p)
  BY DEF CallsFit, Fits, Anywhere, Awake, Exiting, OpAt, CallRecords
<1>2. QED
  BY <1>1 DEF CallsFit

LEMMA CallSet ==
    ASSUME CallsFit, NEW p \in Procs, NEW l, NEW c, pc \in [Procs -> PcValues],
           pc' = [pc EXCEPT ![p] = l], call' = [call EXCEPT ![p] = c], Fits(c, l, p)
    PROVE  CallsFit'
BY DEF CallsFit, Fits

LEMMA WalksStay ==
    ASSUME WalksFit, NEW p \in Procs, NEW l, pc \in [Procs -> PcValues],
           pc' = [pc EXCEPT ![p] = l], l # "visit", UNCHANGED walks
    PROVE  WalksFit'
BY DEF WalksFit, walks

LEMMA LeftSet ==
    ASSUME WalksFit, NEW p \in Procs, NEW l, NEW xs \in Seq(Above(p)), pc \in [Procs -> PcValues],
           pc' = [pc EXCEPT ![p] = l], left' = [left EXCEPT ![p] = xs], UNCHANGED others,
           l = "visit" => xs # <<>>
    PROVE  WalksFit'
<1>1. xs \in Seq(Procs)
  BY SeqMonotonic DEF Above
<1>2. QED
  BY <1>1 DEF WalksFit

LEMMA DescSet ==
    ASSUME DescsFit, NEW p, NEW d, p \in Procs => Fit(d, p), proc' = [proc EXCEPT ![p] = d]
    PROVE  DescsFit'
BY DEF DescsFit, Fit

LEMMA DescSetTwo ==
    ASSUME DescsFit, NEW p \in Procs, NEW d, Fit(d, p), NEW q \in Procs, NEW e, Fit(e, q),
           proc' = [proc EXCEPT ![q] = e, ![p] = d]
    PROVE  DescsFit'
BY DEF DescsFit, Fit

LEMMA ListsStay == ASSUME ListsFit, UNCHANGED lists PROVE ListsFit'
BY DEF ListsFit, lists

LEMMA ListSet ==
    ASSUME ListsFit, NEW p, NEW xs, p \in Procs => xs \in Seq(Above(p)),
           p_list' = [p_list EXCEPT ![p] = xs], UNCHANGED p_ulist
    PROVE  ListsFit'
<1>1. p \in Procs => xs \in Seq(Procs)
  BY SeqMonotonic DEF Above
<1>2. QED
  BY <1>1 DEF ListsFit

LEMMA UlistSet ==
    ASSUME ListsFit, NEW p, NEW us, p \in Procs => us \in Seq(Procs \ {p}),
           p_ulist' = [p_ulist EXCEPT ![p] = us], UNCHANGED p_list
    PROVE  ListsFit'
<1>1. p \in Procs => us \in Seq(Procs)
  BY SeqMonotonic
<1>2. QED
  BY <1>1 DEF ListsFit

LEMMA RestStays == ASSUME RestTyped, UNCHANGED <<killed, ret, late>> PROVE RestTyped'
BY DEF RestTyped

\* LIST_DEL_INIT leaves a list of what was in it.
LEMMA WithoutFacts ==
    ASSUME NEW S, NEW s \in Seq(S), NEW p
    PROVE  Without(s, p) \in Seq(S)
<1>1. CASE p \notin ToSet(s)
  BY <1>1 DEF Without
<1>2. CASE p \in ToSet(s)
  <2> DEFINE i == CHOOSE i \in DOMAIN s : s[i] = p
  <2>1. i \in DOMAIN s
    BY <1>2 DEF ToSet
  <2>2. i \in 1 .. Len(s)
    BY <2>1
  <2>3. Without(s, p) = RemoveAt(s, i)
    BY <1>2 DEF Without
  <2> HIDE DEF i
  <2>4. SubSeq(s, 1, i - 1) \in Seq(S) /\ SubSeq(s, i + 1, Len(s)) \in Seq(S)
    BY <2>2
  <2>5. QED
    BY <2>3, <2>4 DEF RemoveAt
<1>3. QED
  BY <1>1, <1>2

-----------------------------------------------------------------------------
(* What the operations do to a descriptor *)

LEMMA SetFits ==
    ASSUME NEW p, NEW d, Fit(d, p), NEW bits \in SUBSET {"SENDING", "RECEIVING"}
    PROVE  Fit(Set(d, bits), p)
BY DEF Fit, Set, Descriptors, RtsFlags

LEMMA ClearFits ==
    ASSUME NEW p, NEW d, Fit(d, p), NEW bits
    PROVE  Fit(Clear(d, bits), p)
BY DEF Fit, Clear, Descriptors, RtsFlags

LEMMA EndFits ==
    ASSUME NEW p, NEW d, Fit(d, p)
    PROVE  Fit(EndSend(d), p) /\ Fit(EndReceive(d), p)
<1>1. Fit(Clear(d, {"SENDING"}), p) /\ Fit(Clear(d, {"RECEIVING"}), p)
  BY ClearFits
<1>2. QED
  BY <1>1 DEF Fit, EndSend, EndReceive, Descriptors

LEMMA UpFits ==
    ASSUME NEW p, NEW d, Fit(d, p), NEW rc \in Rcodes
    PROVE  Fit(Up(d, rc), p) /\ Fit(Wake(d, rc), p)
<1> DEFINE up == d.sem + 1
<1>1. up \in Int /\ Up(d, rc) = [d EXCEPT !.rcode = rc, !.sem = up]
  BY DEF Fit, Descriptors, Up
<1> HIDE DEF up
<1>2. Fit(Up(d, rc), p)
  BY <1>1 DEF Fit, Descriptors
<1>3. QED
  BY <1>2 DEF Wake

LEMMA UnlistedFits ==
    ASSUME NEW p, NEW d, Fit(d, p)
    PROVE  Fit([Clear(d, {"WAITUNBIND"}) EXCEPT !.waitunbind = NONE], p)
BY DEF Fit, Clear, Descriptors, RtsFlags

LEMMA SleepFits ==
    ASSUME NEW p, NEW d, Fit(d, p)
    PROVE  Fit([d EXCEPT !.sem = -1, !.rcode = "OK"], p)
<1> DEFINE down == -1
<1>1. down \in Int /\ "OK" \in Rcodes
  BY DEF Rcodes
<1> HIDE DEF down
<1>2. Fit([d EXCEPT !.sem = down, !.rcode = "OK"], p)
  BY <1>1 DEF Fit, Descriptors
<1>3. QED
  BY <1>2 DEF down

-----------------------------------------------------------------------------
(* Parts of the actions *)

LEMMA WantFacts ==
    ASSUME NEW p \in Procs
    PROVE  /\ <<>> \in Seq(Locks) /\ <<DC>> \in Seq(Locks)
           /\ <<p>> \in Seq(Locks) /\ <<DC, p>> \in Seq(Locks)
           /\ \A held : Orderly(held, <<>>) /\ Orderly(held, <<DC>>)
           /\ Orderly({}, <<p>>) /\ Orderly({}, <<DC, p>>)
BY DEF Locks, Orderly

LEMMA GoStep ==
    ASSUME IInv, NEW p \in Procs, NEW l \in PcValues \ {"visit"}, NEW held,
           NEW want \in Seq(Locks), Orderly(held, want), Goto(p, l, held, want),
           l \in Anywhere \/ Fits(call[p], l, p), UNCHANGED <<call, walks>>
    PROVE  MutexesFit' /\ CallsFit' /\ WalksFit'
<1>1. MutexesFit' /\ pc' = [pc EXCEPT ![p] = l] /\ pc \in [Procs -> PcValues]
  BY GotoFits DEF IInv, MutexesFit
<1>2. QED
  BY <1>1, CallsStay, WalksStay DEF IInv

LEMMA FinishStep ==
    ASSUME IInv, NEW p \in Procs, NEW rc \in Rcodes, Finish(p, rc),
           UNCHANGED <<call, walks, killed, late>>
    PROVE  MutexesFit' /\ CallsFit' /\ WalksFit' /\ RestTyped'
<1>1. Goto(p, "done", {}, <<>>) /\ ret' = [ret EXCEPT ![p] = rc]
  BY DEF Finish
<1>2. "done" \in PcValues \ {"visit"} /\ "done" \in Anywhere
  BY DEF PcValues, Anywhere
<1>3. MutexesFit' /\ CallsFit' /\ WalksFit'
  BY <1>1, <1>2, WantFacts, GoStep
<1>4. RestTyped'
  BY <1>1 DEF IInv, RestTyped
<1>5. QED
  BY <1>3, <1>4

LEMMA SleepStep ==
    ASSUME IInv, NEW p \in Procs, NEW d, Fit(d, p), NEW isLate \in BOOLEAN,
           Sleep(p, d, isLate), UNCHANGED <<killed, ret>>
    PROVE  /\ MutexesFit' /\ DescsFit' /\ RestTyped'
           /\ pc' = [pc EXCEPT ![p] = "sleep"] /\ pc \in [Procs -> PcValues]
<1>1. /\ proc' = [proc EXCEPT ![p] = [d EXCEPT !.sem = -1, !.rcode = "OK"]]
      /\ late' = [late EXCEPT ![p] = isLate] /\ Goto(p, "sleep", {}, <<>>)
  BY DEF Sleep
<1>2. "sleep" \in PcValues
  BY DEF PcValues
<1>3. MutexesFit' /\ pc' = [pc EXCEPT ![p] = "sleep"] /\ pc \in [Procs -> PcValues]
  BY <1>1, <1>2, WantFacts, GotoFits DEF IInv, MutexesFit
<1>4. DescsFit'
  BY <1>1, SleepFits, DescSet DEF IInv
<1>5. RestTyped'
  BY <1>1 DEF IInv, RestTyped
<1>6. QED
  BY <1>3, <1>4, <1>5

-----------------------------------------------------------------------------
(* The calls *)

LEMMA BeginFits ==
    ASSUME IInv, NEW p \in Procs, NEW op, NEW d, NEW both \in BOOLEAN,
           NEW l \in PcValues \ {"visit"}, NEW want \in Seq(Locks), Orderly({}, want),
           \A t \in BOOLEAN : Fits([op |-> op, peer |-> d, timed |-> t, both |-> both], l, p),
           Begin(p, op, d, both, l, want)
    PROVE  IInv'
<1>1. PICK t \in Timed : call' = [call EXCEPT ![p] =
                            [op |-> op, peer |-> d, timed |-> t, both |-> both]]
  BY DEF Begin
<1>2. t \in BOOLEAN
  BY CallsAssumption
<1>3. Goto(p, l, {}, want) /\ UNCHANGED <<proc, lists, walks, killed, ret, late>>
  BY DEF Begin
<1>4. MutexesFit' /\ pc' = [pc EXCEPT ![p] = l] /\ pc \in [Procs -> PcValues]
  BY <1>3, GotoFits DEF IInv, MutexesFit
<1>5. CallsFit'
  BY <1>1, <1>2, <1>4, CallSet DEF IInv
<1>6. WalksFit'
  BY <1>3, <1>4, WalksStay DEF IInv
<1>7. DescsFit' /\ ListsFit' /\ RestTyped'
  BY <1>3, ListsStay, RestStays DEF IInv, DescsFit
<1>8. QED
  BY <1>4, <1>5, <1>6, <1>7 DEF IInv

LEMMA CallFits == ASSUME IInv, NEW p \in Procs, Call(p) PROVE IInv'
<1>1. /\ \A d \in Sends[p] \cup Asks[p] : d \in Procs /\ d < p /\ d # p
      /\ \A d \in Replies[p] \cup Unbinds[p] : d \in Procs /\ d # p
      /\ \A s \in Sources[p] : s = ANY \/ s \in Procs
  BY CallsAssumption, ProcsAssumption
<1>2. {"send", "sendrec", "reply", "unbind", "source", "scan"} \subseteq PcValues \ {"visit"}
  BY DEF PcValues
<1>3. ASSUME NEW d \in Sends[p], Begin(p, "send", d, TRUE, "send", Ordered(p, d)) PROVE IInv'
  <2>1. \A t \in BOOLEAN :
          Fits([op |-> "send", peer |-> d, timed |-> t, both |-> TRUE], "send", p)
    BY <1>1 DEF Fits, OpAt, CallRecords
  <2>2. QED
    BY <1>1, <1>2, <1>3, <2>1, OrderedFacts, BeginFits
<1>4. ASSUME NEW d \in Asks[p], Begin(p, "sendrec", d, TRUE, "sendrec", Ordered(p, d)) PROVE IInv'
  <2>1. \A t \in BOOLEAN :
          Fits([op |-> "sendrec", peer |-> d, timed |-> t, both |-> TRUE], "sendrec", p)
    BY <1>1 DEF Fits, OpAt, CallRecords
  <2>2. QED
    BY <1>1, <1>2, <1>4, <2>1, OrderedFacts, BeginFits
<1>5. ASSUME NEW d \in Replies[p], Begin(p, "reply", d, TRUE, "reply", Ordered(p, d)) PROVE IInv'
  <2>1. \A t \in BOOLEAN :
          Fits([op |-> "reply", peer |-> d, timed |-> t, both |-> TRUE], "reply", p)
    BY <1>1 DEF Fits, OpAt, CallRecords
  <2>2. QED
    BY <1>1, <1>2, <1>5, <2>1, OrderedFacts, BeginFits
<1>6. ASSUME NEW d \in Unbinds[p],
             Begin(p, "unbind", d, FALSE, "unbind", <<DC>> \o Ordered(p, d)) PROVE IInv'
  <2>1. \A t \in BOOLEAN :
          Fits([op |-> "unbind", peer |-> d, timed |-> t, both |-> FALSE], "unbind", p)
    BY <1>1 DEF Fits, OpAt, CallRecords
  <2>2. QED
    BY <1>1, <1>2, <1>6, <2>1, OrderedFacts, BeginFits
<1>7. ASSUME NEW s \in Sources[p] \ {ANY},
             Begin(p, "receive", s, FALSE, "source", <<DC, p>>) PROVE IInv'
  <2>1. \A t \in BOOLEAN :
          Fits([op |-> "receive", peer |-> s, timed |-> t, both |-> FALSE], "source", p)
    BY <1>1 DEF Fits, OpAt, CallRecords
  <2>2. QED
    BY <1>2, <1>7, <2>1, WantFacts, BeginFits
<1>8. ASSUME ANY \in Sources[p], Begin(p, "receive", ANY, FALSE, "scan", <<p>>) PROVE IInv'
  <2>1. \A t \in BOOLEAN :
          Fits([op |-> "receive", peer |-> ANY, timed |-> t, both |-> FALSE], "scan", p)
    BY DEF Fits, OpAt, CallRecords
  <2>2. QED
    BY <1>2, <1>8, <2>1, WantFacts, BeginFits
<1>9. QED
  BY <1>3, <1>4, <1>5, <1>6, <1>7, <1>8 DEF Call

-----------------------------------------------------------------------------
(* send, sendrec and reply *)

\* What is known of a call where its thread is.
LEMMA AtFacts ==
    ASSUME IInv, NEW p \in Procs, NEW l, At(p, l)
    PROVE  /\ pc[p] = l /\ call[p] \in CallRecords /\ Fits(call[p], l, p)
           /\ Fit(proc[p], p) /\ proc[p] \in Descriptors
           /\ "OK" \in Rcodes
BY DEF At, IInv, CallsFit, DescsFit, Rcodes

LEMMA Below == ASSUME NEW p \in Procs, NEW d \in Procs, d < p PROVE d # p
BY ProcsAssumption

LEMMA SendCheckFits == ASSUME IInv, NEW p \in Procs, SendCheck(p) PROVE IInv'
<1> DEFINE d == call[p].peer
<1>1. At(p, "send") /\ UNCHANGED <<proc, lists, call, walks, killed, late>>
  BY DEF SendCheck
<1>2. MutexesFit' /\ CallsFit' /\ WalksFit' /\ RestTyped'
  <2>1. CASE Gone(d)
    <3>1. Finish(p, "DSTDIED") /\ "DSTDIED" \in Rcodes
      BY <2>1 DEF SendCheck, Rcodes
    <3>2. QED
      BY <1>1, <3>1, FinishStep
  <2>2. CASE ~Gone(d)
    <3>1. Goto(p, "sendto", {p, d}, <<DC>>) /\ UNCHANGED ret
      BY <2>2 DEF SendCheck
    <3>2. "sendto" \in PcValues \ {"visit"} /\ Fits(call[p], "sendto", p)
      BY <1>1, AtFacts DEF PcValues, Fits, OpAt
    <3>3. QED
      BY <1>1, <3>1, <3>2, WantFacts, GoStep, RestStays DEF IInv
  <2>3. QED
    BY <2>1, <2>2
<1>3. DescsFit' /\ ListsFit'
  BY <1>1, ListsStay DEF IInv, DescsFit
<1>4. QED
  BY <1>2, <1>3 DEF IInv

LEMMA SendDeliverFits == ASSUME IInv, NEW p \in Procs, SendDeliver(p) PROVE IInv'
<1> DEFINE d == call[p].peer
           e == Wake(EndReceive(proc[d]), "OK")
<1>1. /\ At(p, "sendto") /\ Finish(p, "OK") /\ UNCHANGED <<lists, call, walks, killed, late>>
      /\ proc' = [proc EXCEPT ![d] = Wake(EndReceive(@), "OK"), ![p].rcode = "OK"]
  BY DEF SendDeliver
<1>2. d \in Procs /\ d # p /\ "OK" \in Rcodes
  <2>1. d \in Procs /\ d < p
    BY <1>1, AtFacts DEF Fits, OpAt
  <2>2. QED
    BY <2>1, Below DEF Rcodes
<1>3. MutexesFit' /\ CallsFit' /\ WalksFit' /\ RestTyped'
  BY <1>1, AtFacts, FinishStep
<1>4. DescsFit'
  <2>1. Fit(e, d)
    BY <1>2, EndFits, UpFits DEF IInv, DescsFit
  <2>2. Fit([proc[p] EXCEPT !.rcode = "OK"], p)
    BY <1>1, AtFacts DEF Fit, Descriptors
  <2> HIDE DEF d
  <2>3. proc' = [proc EXCEPT ![d] = e, ![p] = [proc[p] EXCEPT !.rcode = "OK"]]
    BY <1>1, <1>2 DEF IInv, DescsFit
  <2> HIDE DEF e
  <2>4. QED
    BY <1>2, <2>1, <2>2, <2>3, DescSetTwo DEF IInv
<1>5. QED
  BY <1>1, <1>3, <1>4, ListsStay DEF IInv

LEMMA QueueFits ==
    ASSUME IInv, NEW p \in Procs, NEW d \in Procs, d < p,
           NEW flags \in SUBSET {"SENDING", "RECEIVING"}, Queue(p, d, flags),
           UNCHANGED <<p_ulist, call, walks, killed, ret>>
    PROVE  IInv'
<1> DEFINE e == [Set(proc[p], flags) EXCEPT !.sendto = d,
                    !.getfrom = IF "RECEIVING" \in flags THEN d ELSE @]
<1>1. Sleep(p, e, Flushed(d)) /\ p_list' = [p_list EXCEPT ![d] = Append(@, p)]
  BY DEF Queue
<1>2. Flushed(d) \in BOOLEAN
  BY DEF Flushed
<1>3. Fit(e, p)
  <2>1. Fit(Set(proc[p], flags), p)
    BY SetFits DEF IInv, DescsFit
  <2>2. QED
    BY <2>1 DEF Fit, Descriptors
<1> HIDE DEF e
<1>4. /\ MutexesFit' /\ DescsFit' /\ RestTyped'
      /\ pc' = [pc EXCEPT ![p] = "sleep"] /\ pc \in [Procs -> PcValues]
  BY <1>1, <1>2, <1>3, SleepStep
<1>5. CallsFit' /\ WalksFit'
  BY <1>4, CallsStay, WalksStay DEF IInv, Anywhere
<1>6. ListsFit'
  <2>1. p_list[d] \in Seq(Above(d)) /\ p \in Above(d)
    BY DEF IInv, ListsFit, Above
  <2>2. Append(p_list[d], p) \in Seq(Above(d))
    BY <2>1
  <2>3. QED
    BY <1>1, <2>2, ListSet DEF IInv
<1>7. QED
  BY <1>4, <1>5, <1>6 DEF IInv

LEMMA SendBlockFits == ASSUME IInv, NEW p \in Procs, SendBlock(p) PROVE IInv'
<1>1. /\ At(p, "sendto") /\ Queue(p, call[p].peer, {"SENDING"})
      /\ UNCHANGED <<p_ulist, call, walks, killed, ret>>
  BY DEF SendBlock
<1>2. call[p].peer \in Procs /\ call[p].peer < p
  BY <1>1, AtFacts DEF Fits, OpAt
<1>3. QED
  BY <1>1, <1>2, QueueFits

LEMMA SendrecDiedFits == ASSUME IInv, NEW p \in Procs, SendrecDied(p) PROVE IInv'
<1>1. Finish(p, "DEADSRCDST") /\ UNCHANGED <<proc, lists, call, walks, killed, late>>
  BY DEF SendrecDied
<1>2. MutexesFit' /\ CallsFit' /\ WalksFit' /\ RestTyped'
  BY <1>1, FinishStep DEF Rcodes
<1>3. QED
  BY <1>1, <1>2, ListsStay DEF IInv, DescsFit

LEMMA SendrecDeliverFits == ASSUME IInv, NEW p \in Procs, SendrecDeliver(p) PROVE IInv'
<1> DEFINE d == call[p].peer
           e == Wake(EndReceive(proc[d]), "OK")
           g == [Set(proc[p], {"RECEIVING"}) EXCEPT !.getfrom = d]
           f == [g EXCEPT !.sem = -1, !.rcode = "OK"]
<1>1. /\ At(p, "sendrec") /\ Goto(p, "sleep", {}, <<>>)
      /\ call' = [call EXCEPT ![p].both = FALSE] /\ UNCHANGED <<lists, walks, killed, ret, late>>
      /\ proc' = [proc EXCEPT ![d] = Wake(EndReceive(@), "OK"),
                    ![p] = [Set(@, {"RECEIVING"}) EXCEPT !.getfrom = d, !.sem = -1, !.rcode = "OK"]]
  BY DEF SendrecDeliver
<1>2. d \in Procs /\ d # p /\ "OK" \in Rcodes
  <2>1. d \in Procs /\ d < p
    BY <1>1, AtFacts DEF Fits, OpAt
  <2>2. QED
    BY <2>1, Below DEF Rcodes
<1>3. MutexesFit' /\ pc' = [pc EXCEPT ![p] = "sleep"] /\ pc \in [Procs -> PcValues]
  BY <1>1, WantFacts, GotoFits DEF IInv, MutexesFit, PcValues
<1>4. CallsFit'
  <2>1. call[p] \in CallRecords /\ call[p].op = "sendrec" /\ d < p
    BY <1>1, AtFacts DEF Fits, OpAt
  <2>2. [call[p] EXCEPT !.both = FALSE] \in CallRecords
    BY <2>1 DEF CallRecords
  <2>3. Fits([call[p] EXCEPT !.both = FALSE], "sleep", p)
    BY <1>2, <2>1, <2>2 DEF Fits, OpAt, CallRecords
  <2>4. QED
    BY <1>1, <1>3, <2>3, CallSet DEF IInv, CallsFit
<1>5. WalksFit'
  BY <1>1, <1>3, WalksStay DEF IInv
<1>6. DescsFit'
  <2>1. Fit(e, d)
    BY <1>2, EndFits, UpFits DEF IInv, DescsFit
  <2>2. Fit(g, p)
    <3>1. Fit(Set(proc[p], {"RECEIVING"}), p)
      BY <1>1, AtFacts, SetFits
    <3>2. QED
      BY <1>2, <3>1 DEF Fit, Descriptors
  <2>3. Fit(f, p)
    BY <2>2, SleepFits
  <2> HIDE DEF d
  <2>4. proc' = [proc EXCEPT ![d] = e, ![p] = f]
    BY <1>1, <1>2 DEF IInv, DescsFit
  <2> HIDE DEF e, f, g
  <2>5. QED
    BY <1>2, <2>1, <2>3, <2>4, DescSetTwo DEF IInv
<1>7. QED
  BY <1>1, <1>3, <1>4, <1>5, <1>6, ListsStay, RestStays DEF IInv

LEMMA SendrecQueueFits == ASSUME IInv, NEW p \in Procs, SendrecQueue(p) PROVE IInv'
<1>1. /\ At(p, "sendrec") /\ Queue(p, call[p].peer, {"SENDING", "RECEIVING"})
      /\ UNCHANGED <<p_ulist, call, walks, killed, ret>>
  BY DEF SendrecQueue
<1>2. call[p].peer \in Procs /\ call[p].peer < p
  BY <1>1, AtFacts DEF Fits, OpAt
<1>3. QED
  BY <1>1, <1>2, QueueFits

LEMMA ReplyFits == ASSUME IInv, NEW p \in Procs, Reply(p) PROVE IInv'
<1> DEFINE d == call[p].peer
           e == Wake(EndReceive(proc[d]), "OK")
<1>1. At(p, "reply") /\ UNCHANGED <<lists, call, walks, killed, late>>
  BY DEF Reply
<1>2. d \in Procs /\ {"OK", "DSTDIED", "PROCSTS"} \subseteq Rcodes
  BY <1>1, AtFacts DEF Fits, OpAt, Rcodes
<1>3. /\ \E rc \in {"OK", "DSTDIED", "PROCSTS"} : Finish(p, rc)
      /\ UNCHANGED proc \/ proc' = [proc EXCEPT ![d] = Wake(EndReceive(@), "OK")]
  BY DEF Reply
<1>4. MutexesFit' /\ CallsFit' /\ WalksFit' /\ RestTyped'
  BY <1>1, <1>2, <1>3, FinishStep
<1>5. DescsFit'
  <2>1. CASE UNCHANGED proc
    BY <2>1 DEF IInv, DescsFit
  <2>2. CASE proc' = [proc EXCEPT ![d] = Wake(EndReceive(@), "OK")]
    <3>1. Fit(e, d)
      BY <1>2, EndFits, UpFits DEF IInv, DescsFit
    <3>2. QED
      BY <1>2, <2>2, <3>1, DescSet DEF IInv
  <2>3. QED
    BY <1>3, <2>1, <2>2
<1>6. QED
  BY <1>1, <1>4, <1>5, ListsStay DEF IInv

-----------------------------------------------------------------------------
(* receive *)

LEMMA ReceiveSourceFits == ASSUME IInv, NEW p \in Procs, ReceiveSource(p) PROVE IInv'
<1>1. /\ At(p, "source") /\ Goto(p, "check", {}, <<call[p].peer>>)
      /\ UNCHANGED <<proc, lists, call, walks, killed, ret, late>>
  BY DEF ReceiveSource
<1>2. call[p].peer \in Procs /\ Fits(call[p], "check", p)
  BY <1>1, AtFacts DEF Fits, OpAt
<1>3. /\ <<call[p].peer>> \in Seq(Locks) /\ Orderly({}, <<call[p].peer>>)
      /\ "check" \in PcValues \ {"visit"}
  BY <1>2, WantFacts DEF PcValues
<1>4. MutexesFit' /\ CallsFit' /\ WalksFit'
  BY <1>1, <1>2, <1>3, GoStep
<1>5. QED
  BY <1>1, <1>4, ListsStay, RestStays DEF IInv, DescsFit

LEMMA ReceiveCheckFits == ASSUME IInv, NEW p \in Procs, ReceiveCheck(p) PROVE IInv'
<1>1. At(p, "check") /\ UNCHANGED <<proc, lists, call, walks, killed, late>>
  BY DEF ReceiveCheck
<1>2. MutexesFit' /\ CallsFit' /\ WalksFit' /\ RestTyped'
  <2>1. CASE Finish(p, "SRCDIED")
    BY <1>1, <2>1, FinishStep DEF Rcodes
  <2>2. CASE Goto(p, "scan", {}, <<p>>) /\ UNCHANGED ret
    <3>1. "scan" \in PcValues \ {"visit"} /\ Fits(call[p], "scan", p)
      BY <1>1, AtFacts DEF PcValues, Fits, OpAt
    <3>2. QED
      BY <1>1, <2>2, <3>1, WantFacts, GoStep, RestStays DEF IInv
  <2>3. QED
    BY <2>1, <2>2 DEF ReceiveCheck
<1>3. QED
  BY <1>1, <1>2, ListsStay DEF IInv, DescsFit

\* The walk goes on to a sender, which is above, or ends with p asleep.
LEMMA ScanFits ==
    ASSUME IInv, NEW p \in Procs, call[p].op = "receive", NEW xs \in Seq(Above(p)),
           Scan(p, xs), UNCHANGED <<lists, call, others, killed>>
    PROVE  IInv'
<1>1. CASE xs = <<>>
  <2> DEFINE s == call[p].peer
             e == [Set(proc[p], {"RECEIVING"}) EXCEPT !.getfrom = s]
             isLate == s # ANY /\ Passed(s, p)
  <2>1. Sleep(p, e, isLate) /\ left' = [left EXCEPT ![p] = <<>>] /\ UNCHANGED ret
    BY <1>1 DEF Scan, ReceiveBlock
  <2>2. isLate \in BOOLEAN
    OBVIOUS
  <2>3. Fit(e, p)
    <3>1. Fit(Set(proc[p], {"RECEIVING"}), p) /\ s \in Procs \cup {ANY, NONE}
      BY SetFits DEF IInv, DescsFit, CallsFit, CallRecords
    <3>2. QED
      BY <3>1 DEF Fit, Descriptors
  <2> HIDE DEF e, isLate
  <2>4. /\ MutexesFit' /\ DescsFit' /\ RestTyped'
        /\ pc' = [pc EXCEPT ![p] = "sleep"] /\ pc \in [Procs -> PcValues]
    BY <2>1, <2>2, <2>3, SleepStep
  <2>5. CallsFit'
    BY <2>4, CallsStay DEF IInv, Anywhere
  <2>6. WalksFit'
    <3>1. <<>> \in Seq(Above(p))
      OBVIOUS
    <3>2. QED
      BY <2>1, <2>4, <3>1, LeftSet DEF IInv
  <2>7. QED
    BY <2>4, <2>5, <2>6, ListsStay DEF IInv
<1>2. CASE xs # <<>>
  <2>1. /\ Goto(p, "visit", {p}, <<Head(xs)>>) /\ left' = [left EXCEPT ![p] = xs]
        /\ UNCHANGED <<proc, ret, late>>
    BY <1>2 DEF Scan
  <2>2. Head(xs) \in Procs /\ p < Head(xs)
    BY <1>2, HeadTailProperties DEF Above
  <2>3. /\ <<Head(xs)>> \in Seq(Locks) /\ Orderly({p}, <<Head(xs)>>) /\ "visit" \in PcValues
    BY <2>2, WantFacts DEF PcValues, Orderly
  <2>4. MutexesFit' /\ pc' = [pc EXCEPT ![p] = "visit"] /\ pc \in [Procs -> PcValues]
    BY <2>1, <2>3, GotoFits DEF IInv, MutexesFit
  <2>5. CallsFit'
    <3>1. Fits(call[p], "visit", p)
      BY DEF IInv, CallsFit, Fits, OpAt
    <3>2. QED
      BY <2>4, <3>1, CallsStay DEF IInv
  <2>6. WalksFit'
    BY <1>2, <2>1, <2>4, LeftSet DEF IInv
  <2>7. QED
    BY <2>1, <2>4, <2>5, <2>6, ListsStay, RestStays DEF IInv, DescsFit
<1>3. QED
  BY <1>1, <1>2

LEMMA ReceiveScanFits == ASSUME IInv, NEW p \in Procs, ReceiveScan(p) PROVE IInv'
<1>1. call[p].op = "receive" /\ p_list[p] \in Seq(Above(p))
  BY AtFacts DEF ReceiveScan, Fits, OpAt, IInv, ListsFit
<1>2. QED
  BY <1>1, ScanFits DEF ReceiveScan

LEMMA ReceiveVisitFits == ASSUME IInv, NEW p \in Procs, ReceiveVisit(p) PROVE IInv'
<1> DEFINE x == Head(left[p])
           e == Wake(EndSend(proc[x]), "OK")
<1>1. At(p, "visit") /\ UNCHANGED <<p_ulist, call, others, killed>>
  BY DEF ReceiveVisit
<1>2. /\ left[p] \in Seq(Above(p)) /\ left[p] # <<>> /\ x \in Procs
      /\ Tail(left[p]) \in Seq(Above(p)) /\ call[p].op = "receive"
  <2>1. left[p] \in Seq(Above(p)) /\ left[p] # <<>> /\ call[p].op = "receive"
    BY <1>1, AtFacts DEF IInv, WalksFit, Fits, OpAt
  <2>2. QED
    BY <2>1, HeadTailProperties DEF Above
<1>3. CASE Scan(p, Tail(left[p])) /\ UNCHANGED p_list
  BY <1>1, <1>2, <1>3, ScanFits DEF lists
<1>4. CASE /\ p_list' = [p_list EXCEPT ![p] = Without(@, x)]
           /\ left' = [left EXCEPT ![p] = <<>>] /\ UNCHANGED late
           /\ \/ proc' = [proc EXCEPT ![x] = Wake(EndSend(@), "OK")] /\ Finish(p, "OK")
              \/ UNCHANGED proc /\ Finish(p, "PROCSTS")
  <2>1. PICK rc \in Rcodes : Goto(p, "done", {}, <<>>) /\ ret' = [ret EXCEPT ![p] = rc]
    BY <1>4 DEF Finish, Rcodes
  <2>2. MutexesFit' /\ pc' = [pc EXCEPT ![p] = "done"] /\ pc \in [Procs -> PcValues]
    BY <2>1, WantFacts, GotoFits DEF IInv, MutexesFit, PcValues
  <2>3. CallsFit'
    BY <1>1, <2>2, CallsStay DEF IInv, Anywhere
  <2>4. WalksFit'
    <3>1. <<>> \in Seq(Above(p))
      OBVIOUS
    <3>2. QED
      BY <1>1, <1>4, <2>2, <3>1, LeftSet DEF IInv
  <2>5. RestTyped'
    BY <1>1, <1>4, <2>1 DEF IInv, RestTyped
  <2>6. ListsFit'
    <3>1. Without(p_list[p], x) \in Seq(Above(p))
      BY WithoutFacts DEF IInv, ListsFit
    <3>2. QED
      BY <1>1, <1>4, <3>1, ListSet DEF IInv
  <2>7. DescsFit'
    <3>1. CASE UNCHANGED proc
      BY <3>1 DEF IInv, DescsFit
    <3>2. CASE proc' = [proc EXCEPT ![x] = Wake(EndSend(@), "OK")]
      <4>1. Fit(e, x)
        BY <1>2, EndFits, UpFits DEF IInv, DescsFit, Rcodes
      <4> HIDE DEF x
      <4>2. QED
        BY <1>2, <3>2, <4>1, DescSet DEF IInv
    <3>3. QED
      BY <1>4, <3>1, <3>2
  <2>8. QED
    BY <2>2, <2>3, <2>4, <2>5, <2>6, <2>7 DEF IInv
<1>5. QED
  BY <1>3, <1>4 DEF ReceiveVisit

-----------------------------------------------------------------------------
(* The end of a sleep, and new_unbind *)

LEMMA WakesUpFits == ASSUME IInv, NEW p \in Procs, WakesUp(p) PROVE IInv'
<1> DEFINE want == IF call[p].both THEN Ordered(p, call[p].peer) ELSE <<p>>
<1>1. UNCHANGED <<proc, lists, call, ret, walks, killed, late>>
  BY DEF WakesUp
<1>2. PICK l \in Awake : Goto(p, l, {}, want)
  BY DEF WakesUp
<1>3. want \in Seq(Locks) /\ Orderly({}, want)
  <2>1. CASE call[p].both
    <3>1. call[p].peer \in Procs /\ p # call[p].peer
      BY <2>1 DEF IInv, CallsFit, Fits
    <3>2. QED
      BY <2>1, <3>1, OrderedFacts
  <2>2. CASE ~call[p].both
    BY <2>2, WantFacts
  <2>3. QED
    BY <2>1, <2>2
<1>4. l \in PcValues \ {"visit"} /\ l \in Anywhere
  BY DEF Awake, PcValues, Anywhere
<1> HIDE DEF want
<1>5. MutexesFit' /\ CallsFit' /\ WalksFit'
  BY <1>1, <1>2, <1>3, <1>4, GoStep
<1>6. QED
  BY <1>1, <1>5, ListsStay, RestStays DEF IInv, DescsFit

LEMMA CallDoneFits == ASSUME IInv, NEW p \in Procs, CallDone(p) PROVE IInv'
<1> DEFINE rc == Result(p)
           sem == IF rc # "OK" /\ proc[p].sem < 0 THEN proc[p].sem + 1 ELSE proc[p].sem
           d == [proc[p] EXCEPT !.rcode = "OK", !.sem = sem]
           e == IF rc = "OK" THEN d ELSE Cleaned(call[p].op, d)
           q == call[p].peer
<1>1. /\ proc' = [proc EXCEPT ![p] = e] /\ Finish(p, rc)
      /\ UNCHANGED p_list \/ p_list' = [p_list EXCEPT ![q] = Without(@, p)]
      /\ UNCHANGED <<p_ulist, call, walks, killed, late>>
  BY DEF CallDone
<1>2. rc \in Rcodes
  BY DEF Result, Rcodes, IInv, DescsFit, Descriptors
<1>3. MutexesFit' /\ CallsFit' /\ WalksFit' /\ RestTyped'
  BY <1>1, <1>2, FinishStep
<1>4. DescsFit'
  <2>1. Fit(proc[p], p) /\ sem \in Int
    BY DEF IInv, DescsFit, Descriptors
  <2> HIDE DEF sem, rc
  <2>2. Fit(d, p)
    BY <2>1 DEF Fit, Descriptors, Rcodes
  <2> HIDE DEF d
  <2>3. Fit(e, p)
    BY <2>2, EndFits DEF Cleaned
  <2> HIDE DEF e
  <2>4. QED
    BY <1>1, <2>3, DescSet DEF IInv
<1>5. ListsFit'
  <2>1. CASE UNCHANGED p_list
    BY <1>1, <2>1, ListsStay DEF IInv, lists
  <2>2. CASE p_list' = [p_list EXCEPT ![q] = Without(@, p)]
    <3>1. q \in Procs => Without(p_list[q], p) \in Seq(Above(q))
      BY WithoutFacts DEF IInv, ListsFit
    <3>2. QED
      BY <1>1, <2>2, <3>1, ListSet DEF IInv
  <2>3. QED
    BY <1>1, <2>1, <2>2
<1>6. QED
  BY <1>3, <1>4, <1>5 DEF IInv

LEMMA ReturnFits == ASSUME IInv, NEW p \in Procs, Return(p) PROVE IInv'
<1>1. /\ Goto(p, "user", {}, <<>>) /\ call' = [call EXCEPT ![p] = NoCall]
      /\ ret' = [ret EXCEPT ![p] = "OK"] /\ late' = [late EXCEPT ![p] = FALSE]
      /\ UNCHANGED <<proc, lists, walks, killed>>
  BY DEF Return
<1>2. MutexesFit' /\ pc' = [pc EXCEPT ![p] = "user"] /\ pc \in [Procs -> PcValues]
  BY <1>1, WantFacts, GotoFits DEF IInv, MutexesFit, PcValues
<1>3. CallsFit'
  <2>1. Fits(NoCall, "user", p)
    BY DEF Fits, NoCall, CallRecords, OpAt
  <2>2. QED
    BY <1>1, <1>2, <2>1, CallSet DEF IInv
<1>4. WalksFit'
  BY <1>1, <1>2, WalksStay DEF IInv
<1>5. RestTyped'
  BY <1>1 DEF IInv, RestTyped, Rcodes
<1>6. QED
  BY <1>1, <1>2, <1>3, <1>4, <1>5, ListsStay DEF IInv, DescsFit

LEMMA UnbindNotBoundFits == ASSUME IInv, NEW p \in Procs, UnbindNotBound(p) PROVE IInv'
<1>1. Finish(p, "NOTBIND") /\ UNCHANGED <<proc, lists, call, walks, killed, late>>
  BY DEF UnbindNotBound
<1>2. MutexesFit' /\ CallsFit' /\ WalksFit' /\ RestTyped'
  BY <1>1, FinishStep DEF Rcodes
<1>3. QED
  BY <1>1, <1>2, ListsStay DEF IInv, DescsFit

LEMMA UnbindWaitFits == ASSUME IInv, NEW p \in Procs, UnbindWait(p) PROVE IInv'
<1> DEFINE v == call[p].peer
           e == IF proc[v].rts # {} THEN Up(proc[v], "SHUTDOWN") ELSE proc[v]
           g == [Set(proc[p], {"WAITUNBIND"}) EXCEPT !.waitunbind = v]
           f == [g EXCEPT !.sem = -1, !.rcode = "OK"]
<1>1. /\ At(p, "unbind") /\ killed' = [killed EXCEPT ![v] = TRUE]
      /\ p_ulist' = [p_ulist EXCEPT ![v] = Append(@, p)]
      /\ Goto(p, "sleep", {}, <<>>) /\ UNCHANGED <<p_list, call, walks, ret, late>>
      /\ proc' = [proc EXCEPT
            ![v] = IF @.rts # {} THEN Up(@, "SHUTDOWN") ELSE @,
            ![p] = [Set(@, {"WAITUNBIND"}) EXCEPT !.waitunbind = v, !.sem = -1, !.rcode = "OK"]]
  BY DEF UnbindWait
<1>2. v \in Procs /\ v # p
  BY <1>1, AtFacts DEF Fits, OpAt
<1>3. MutexesFit' /\ CallsFit' /\ WalksFit'
  BY <1>1, WantFacts, GoStep DEF PcValues, Anywhere
<1>4. RestTyped'
  BY <1>1 DEF IInv, RestTyped
<1>5. ListsFit'
  <2>1. p_ulist[v] \in Seq(Procs \ {v}) /\ p \in Procs \ {v}
    BY <1>2 DEF IInv, ListsFit
  <2> HIDE DEF v
  <2>2. Append(p_ulist[v], p) \in Seq(Procs \ {v})
    BY <2>1
  <2>3. QED
    BY <1>1, <2>2, UlistSet DEF IInv
<1>6. DescsFit'
  <2>1. Fit(e, v)
    BY <1>2, UpFits DEF IInv, DescsFit, Rcodes
  <2>2. Fit(g, p)
    <3>1. proc[p] \in Descriptors
      BY DEF IInv, DescsFit, Fit
    <3>2. g \in Descriptors /\ g.waitunbind = v
      BY <1>2, <3>1 DEF Set, Descriptors, RtsFlags
    <3>3. QED
      BY <1>2, <3>2 DEF Fit
  <2>3. Fit(f, p)
    BY <2>2, SleepFits
  <2> HIDE DEF v
  <2>4. proc' = [proc EXCEPT ![v] = e, ![p] = f]
    BY <1>1, <1>2 DEF IInv, DescsFit
  <2> HIDE DEF e, f, g
  <2>5. QED
    BY <1>2, <2>1, <2>3, <2>4, DescSetTwo DEF IInv
<1>7. QED
  BY <1>3, <1>4, <1>5, <1>6 DEF IInv

-----------------------------------------------------------------------------
(* new_exit_unbind and do_unbind *)

LEMMA VisitFits ==
    ASSUME MutexesFit, NEW p \in Procs, NEW l \in PcValues, NEW r \in Procs \ {p}, Visit(p, l, r)
    PROVE  MutexesFit' /\ pc' = [pc EXCEPT ![p] = l]
<1>1. DC \notin Procs /\ <<r>> \in Seq(Locks) /\ <<r, p>> \in Seq(Locks)
  BY NamesAssumption DEF Locks
<1>2. CASE p < r
  <2>1. Orderly({DC, p}, <<r>>)
    BY <1>1, <1>2 DEF Orderly
  <2>2. QED
    BY <1>1, <1>2, <2>1, GotoFits DEF Visit
<1>3. CASE ~(p < r)
  <2>1. r < p
    BY <1>3, Between
  <2>2. {DC} \cap Procs = {}
    BY <1>1
  <2>3. Orderly({DC}, <<r, p>>)
    BY <2>1, <2>2 DEF Orderly
  <2>4. QED
    BY <1>1, <1>3, <2>3, GotoFits DEF Visit
<1>4. QED
  BY <1>2, <1>3

\* The thread is on its way out.
Leaving(p) == \E l \in Exiting : pc' = [pc EXCEPT ![p] = l]

LEMMA WaitersFits ==
    ASSUME MutexesFit, NEW p \in Procs, NEW us \in Seq(Procs \ {p}), Waiters(p, us)
    PROVE  MutexesFit' /\ Leaving(p)
<1>1. {"init", "waiters"} \subseteq PcValues \cap Exiting
  BY DEF PcValues, Exiting
<1>2. CASE us = <<>>
  BY <1>1, <1>2, WantFacts, GotoFits DEF Waiters, Leaving
<1>3. CASE us # <<>>
  <2>1. Head(us) \in Procs \ {p}
    BY <1>3, HeadTailProperties
  <2>2. Visit(p, "waiters", Head(us))
    BY <1>3 DEF Waiters
  <2>3. QED
    BY <1>1, <2>1, <2>2, VisitFits DEF Leaving
<1>4. QED
  BY <1>2, <1>3

LEMMA UnlistFits ==
    ASSUME MutexesFit, DescsFit, ListsFit, NEW p \in Procs, Unlist(p)
    PROVE  MutexesFit' /\ Leaving(p)
<1>1. CASE "WAITUNBIND" \in proc[p].rts
  <2>1. Visit(p, "unlist", proc[p].waitunbind) /\ proc[p].waitunbind \in Procs \ {p}
    BY <1>1 DEF Unlist, DescsFit, Fit
  <2>2. "unlist" \in PcValues \cap Exiting
    BY DEF PcValues, Exiting
  <2>3. QED
    BY <2>1, <2>2, VisitFits DEF Leaving
<1>2. CASE "WAITUNBIND" \notin proc[p].rts
  <2>1. Waiters(p, p_ulist[p]) /\ p_ulist[p] \in Seq(Procs \ {p})
    BY <1>2 DEF Unlist, ListsFit
  <2>2. QED
    BY <2>1, WaitersFits
<1>3. QED
  BY <1>1, <1>2

\* The walk of the other processes never comes to p.
Walks(p) == \E rs \in SUBSET (Procs \ {p}) : others' = [others EXCEPT ![p] = rs]

LEMMA OthersFits ==
    ASSUME MutexesFit, DescsFit, ListsFit, NEW p \in Procs,
           NEW rs \in SUBSET (Procs \ {p}), Others(p, rs)
    PROVE  MutexesFit' /\ Leaving(p) /\ Walks(p)
<1>1. Walks(p)
  BY DEF Others, Walks
<1>2. CASE rs = {}
  BY <1>1, <1>2, UnlistFits DEF Others
<1>3. CASE rs # {}
  <2>1. PICK r \in rs : Visit(p, "others", r)
    BY <1>3 DEF Others
  <2>2. "others" \in PcValues \cap Exiting
    BY DEF PcValues, Exiting
  <2>3. QED
    BY <1>1, <2>1, <2>2, VisitFits DEF Leaving
<1>4. QED
  BY <1>2, <1>3

LEMMA FlushFits ==
    ASSUME MutexesFit, DescsFit, ListsFit, WalksFit, NEW p \in Procs,
           NEW xs \in Seq(Above(p)), Flush(p, xs)
    PROVE  MutexesFit' /\ Leaving(p) /\ Walks(p)
<1>1. CASE xs = <<>>
  BY <1>1, OthersFits DEF Flush
<1>2. CASE xs # <<>>
  <2>1. Visit(p, "flush", Head(xs)) /\ UNCHANGED others
    BY <1>2 DEF Flush
  <2>2. Head(xs) \in Procs \ {p}
    BY <1>2, HeadTailProperties, Below DEF Above
  <2>3. "flush" \in PcValues \cap Exiting
    BY DEF PcValues, Exiting
  <2>4. Walks(p)
    <3>1. others[p] \in SUBSET (Procs \ {p}) /\ others' = [others EXCEPT ![p] = others[p]]
      BY <2>1 DEF WalksFit
    <3>2. QED
      BY <3>1 DEF Walks
  <2>5. QED
    BY <2>1, <2>2, <2>3, <2>4, VisitFits DEF Leaving
<1>3. QED
  BY <1>1, <1>2

LEMMA ExitingFits ==
    ASSUME IInv, NEW p \in Procs, MutexesFit', Leaving(p), Walks(p) \/ UNCHANGED others,
           UNCHANGED <<call, ret, left, killed, late>>
    PROVE  CallsFit' /\ WalksFit' /\ RestTyped'
<1>1. PICK l \in Exiting : pc' = [pc EXCEPT ![p] = l]
  BY DEF Leaving
<1>2. pc \in [Procs -> PcValues] /\ l # "visit" /\ l \in Anywhere
  BY DEF IInv, MutexesFit, Exiting, Anywhere
<1>3. CallsFit' /\ RestTyped'
  BY <1>1, <1>2, CallsStay, RestStays DEF IInv
<1>4. WalksFit'
  <2>1. CASE UNCHANGED others
    BY <1>1, <1>2, <2>1, WalksStay DEF IInv, walks
  <2>2. CASE Walks(p)
    <3>1. PICK rs \in SUBSET (Procs \ {p}) : others' = [others EXCEPT ![p] = rs]
      BY <2>2 DEF Walks
    <3>2. QED
      BY <1>1, <1>2, <3>1 DEF IInv, WalksFit
  <2>3. QED
    BY <2>1, <2>2
<1>5. QED
  BY <1>3, <1>4

LEMMA ExitStartFits == ASSUME IInv, NEW p \in Procs, ExitStart(p) PROVE IInv'
<1>1. Goto(p, "exit", {}, <<DC, p>>) /\ UNCHANGED <<proc, lists, call, ret, walks, killed, late>>
  BY DEF ExitStart
<1>2. MutexesFit' /\ CallsFit' /\ WalksFit'
  BY <1>1, WantFacts, GoStep DEF PcValues, Anywhere, Exiting
<1>3. QED
  BY <1>1, <1>2, ListsStay, RestStays DEF IInv, DescsFit

LEMMA ExitFits == ASSUME IInv, NEW p \in Procs, Exit(p) PROVE IInv'
<1>1. Flush(p, p_list[p]) /\ UNCHANGED <<proc, lists, call, ret, left, killed, late>>
  BY DEF Exit
<1>2. p_list[p] \in Seq(Above(p))
  BY DEF IInv, ListsFit
<1>3. MutexesFit' /\ Leaving(p) /\ Walks(p)
  BY <1>1, <1>2, FlushFits DEF IInv
<1>4. QED
  BY <1>1, <1>3, ExitingFits, ListsStay DEF IInv, DescsFit

LEMMA ExitFlushFits == ASSUME IInv, NEW p \in Procs, ExitFlush(p) PROVE IInv'
<1> DEFINE x == Head(p_list[p])
           e == Up(Clear(proc[x], {"SENDING"}), "DSTDIED")
<1>1. /\ proc' = [proc EXCEPT ![x] = e] /\ Flush(p, Without(p_list[p], x))
      /\ p_list' = [p_list EXCEPT ![p] = Without(@, x)]
      /\ UNCHANGED <<p_ulist, call, ret, left, killed, late>>
  BY DEF ExitFlush
<1>2. Without(p_list[p], x) \in Seq(Above(p))
  BY WithoutFacts DEF IInv, ListsFit
<1>3. MutexesFit' /\ Leaving(p) /\ Walks(p)
  BY <1>1, <1>2, FlushFits DEF IInv
<1>4. DescsFit'
  <2>1. x \in Procs => Fit(e, x)
    BY ClearFits, UpFits DEF IInv, DescsFit, Rcodes
  <2> HIDE DEF e, x
  <2>2. QED
    BY <1>1, <2>1, DescSet DEF IInv
<1>5. ListsFit'
  BY <1>1, <1>2, ListSet DEF IInv
<1>6. QED
  BY <1>1, <1>3, <1>4, <1>5, ExitingFits DEF IInv

LEMMA ExitOtherFits == ASSUME IInv, NEW p \in Procs, ExitOther(p) PROVE IInv'
<1>1. PICK r \in others[p] :
         /\ proc' = [proc EXCEPT ![r] =
               IF ~Gone(r) /\ Waits(@, p) /\ @.getfrom = p
               THEN Up(Clear(@, {"RECEIVING"}), "SRCDIED") ELSE @]
         /\ Others(p, others[p] \ {r})
  BY DEF ExitOther
<1>2. UNCHANGED <<lists, call, ret, left, killed, late>>
  BY DEF ExitOther
<1>3. r \in Procs /\ others[p] \ {r} \in SUBSET (Procs \ {p})
  BY DEF IInv, WalksFit
<1>4. MutexesFit' /\ Leaving(p) /\ Walks(p)
  BY <1>1, <1>3, OthersFits DEF IInv
<1>5. DescsFit'
  <2> DEFINE e == Up(Clear(proc[r], {"RECEIVING"}), "SRCDIED")
  <2>1. Fit(e, r) /\ Fit(proc[r], r)
    BY <1>3, ClearFits, UpFits DEF IInv, DescsFit, Rcodes
  <2>2. proc' = [proc EXCEPT ![r] = e] \/ proc' = [proc EXCEPT ![r] = proc[r]]
    BY <1>1
  <2> HIDE DEF e
  <2>3. QED
    BY <1>3, <2>1, <2>2, DescSet DEF IInv
<1>6. QED
  BY <1>2, <1>4, <1>5, ExitingFits, ListsStay DEF IInv

LEMMA ExitUnlistFits == ASSUME IInv, NEW p \in Procs, ExitUnlist(p) PROVE IInv'
<1> DEFINE v == proc[p].waitunbind
           e == [Clear(proc[p], {"WAITUNBIND"}) EXCEPT !.waitunbind = NONE]
<1>1. /\ p_ulist' = [p_ulist EXCEPT ![v] = Without(@, p)]
      /\ proc' = [proc EXCEPT ![p] = e] /\ Waiters(p, p_ulist[p])
      /\ UNCHANGED <<p_list, call, ret, walks, killed, late>>
  BY DEF ExitUnlist
<1>2. p_ulist[p] \in Seq(Procs \ {p})
  BY DEF IInv, ListsFit
<1>3. MutexesFit' /\ Leaving(p)
  BY <1>1, <1>2, WaitersFits DEF IInv
<1>4. DescsFit'
  <2>1. Fit(e, p)
    BY UnlistedFits DEF IInv, DescsFit
  <2> HIDE DEF e
  <2>2. QED
    BY <1>1, <2>1, DescSet DEF IInv
<1>5. ListsFit'
  <2>1. v \in Procs => Without(p_ulist[v], p) \in Seq(Procs \ {v})
    BY WithoutFacts DEF IInv, ListsFit
  <2> HIDE DEF v
  <2>2. QED
    BY <1>1, <2>1, UlistSet DEF IInv
<1>6. QED
  BY <1>1, <1>3, <1>4, <1>5, ExitingFits DEF IInv, walks

LEMMA ExitWaiterFits == ASSUME IInv, NEW p \in Procs, ExitWaiter(p) PROVE IInv'
<1> DEFINE r == Head(p_ulist[p])
           e == [Clear(proc[r], {"WAITUNBIND"}) EXCEPT !.waitunbind = NONE]
           f == Up(e, "OK")
<1>1. /\ proc' = [proc EXCEPT ![r] = f] /\ Waiters(p, Without(p_ulist[p], r))
      /\ p_ulist' = [p_ulist EXCEPT ![p] = Without(@, r)]
      /\ UNCHANGED <<p_list, call, ret, walks, killed, late>>
  BY DEF ExitWaiter
<1>2. Without(p_ulist[p], r) \in Seq(Procs \ {p})
  BY WithoutFacts DEF IInv, ListsFit
<1>3. MutexesFit' /\ Leaving(p)
  BY <1>1, <1>2, WaitersFits DEF IInv
<1>4. DescsFit'
  <2>1. r \in Procs => Fit(e, r)
    BY UnlistedFits DEF IInv, DescsFit
  <2> HIDE DEF e
  <2>2. r \in Procs => Fit(f, r)
    BY <2>1, UpFits DEF Rcodes
  <2> HIDE DEF f, r
  <2>3. QED
    BY <1>1, <2>2, DescSet DEF IInv
<1>5. ListsFit'
  BY <1>1, <1>2, UlistSet DEF IInv
<1>6. QED
  BY <1>1, <1>3, <1>4, <1>5, ExitingFits DEF IInv, walks

LEMMA ExitInitFits == ASSUME IInv, NEW p \in Procs, ExitInit(p) PROVE IInv'
<1> DEFINE e == Set(Bound, {"SLOT_FREE"})
<1>1. /\ proc' = [proc EXCEPT ![p] = e] /\ Goto(p, "gone", {}, <<>>)
      /\ p_list' = [p_list EXCEPT ![p] = <<>>] /\ p_ulist' = [p_ulist EXCEPT ![p] = <<>>]
      /\ UNCHANGED <<call, ret, walks, killed, late>>
  BY DEF ExitInit
<1>2. MutexesFit' /\ CallsFit' /\ WalksFit'
  BY <1>1, WantFacts, GoStep DEF PcValues, Anywhere, Exiting
<1>3. DescsFit'
  <2>1. Fit(e, p)
    BY DEF Fit, Set, Bound, Descriptors, RtsFlags, Rcodes
  <2> HIDE DEF e
  <2>2. QED
    BY <1>1, <2>1, DescSet DEF IInv
<1>4. ListsFit'
  BY <1>1 DEF IInv, ListsFit
<1>5. QED
  BY <1>1, <1>2, <1>3, <1>4, RestStays DEF IInv

-----------------------------------------------------------------------------
(* The theorems on types and mutexes *)

LEMMA InitFits == Init => IInv
<1> SUFFICES ASSUME Init PROVE IInv
  OBVIOUS
<1>1. MutexesFit
  BY WantFacts DEF Init, MutexesFit, PcValues, Orderly, HeldBy
<1>2. CallsFit
  BY DEF Init, CallsFit, Fits, NoCall, CallRecords, OpAt
<1>3. DescsFit
  BY DEF Init, DescsFit, Fit, Bound, Descriptors, RtsFlags, Rcodes
<1>4. ListsFit
  BY DEF Init, ListsFit
<1>5. WalksFit
  BY DEF Init, WalksFit
<1>6. RestTyped
  BY DEF Init, RestTyped, Rcodes
<1>7. QED
  BY <1>1, <1>2, <1>3, <1>4, <1>5, <1>6 DEF IInv

LEMMA LockStepFits == ASSUME IInv, NEW p \in Procs, Lock(p) PROVE IInv'
<1>1. MutexesFit'
  BY LockFits DEF IInv
<1>2. UNCHANGED <<proc, lists, thread, walks, killed, late>>
  BY DEF Lock
<1>3. CallsFit' /\ DescsFit' /\ ListsFit' /\ WalksFit' /\ RestTyped'
  BY <1>2 DEF IInv, CallsFit, DescsFit, ListsFit, WalksFit, RestTyped, thread, lists, walks
<1>4. QED
  BY <1>1, <1>3 DEF IInv

LEMMA StepFits == IInv /\ [Next]_vars => IInv'
<1> SUFFICES ASSUME IInv, [Next]_vars PROVE IInv'
  OBVIOUS
<1>1. CASE UNCHANGED vars
  BY <1>1 DEF vars, locks, thread, lists, walks, IInv, MutexesFit, HeldBy, CallsFit, DescsFit,
     ListsFit, WalksFit, RestTyped
<1>2. ASSUME NEW p \in Procs, Call(p) \/ ExitStart(p) \/ Continue(p) PROVE IInv'
  <2>1. CASE Call(p) \/ ExitStart(p) \/ Lock(p)
    BY <2>1, CallFits, ExitStartFits, LockStepFits
  <2>2. CASE \/ SendCheck(p) \/ SendDeliver(p) \/ SendBlock(p) \/ SendrecDied(p)
             \/ SendrecDeliver(p) \/ SendrecQueue(p) \/ Reply(p)
    BY <2>2, SendCheckFits, SendDeliverFits, SendBlockFits, SendrecDiedFits,
       SendrecDeliverFits, SendrecQueueFits, ReplyFits
  <2>3. CASE \/ ReceiveSource(p) \/ ReceiveCheck(p) \/ ReceiveScan(p) \/ ReceiveVisit(p)
             \/ WakesUp(p) \/ CallDone(p) \/ Return(p)
    BY <2>3, ReceiveSourceFits, ReceiveCheckFits, ReceiveScanFits, ReceiveVisitFits,
       WakesUpFits, CallDoneFits, ReturnFits
  <2>4. CASE \/ UnbindNotBound(p) \/ UnbindWait(p) \/ Exit(p) \/ ExitFlush(p) \/ ExitOther(p)
             \/ ExitUnlist(p) \/ ExitWaiter(p) \/ ExitInit(p)
    BY <2>4, UnbindNotBoundFits, UnbindWaitFits, ExitFits, ExitFlushFits, ExitOtherFits,
       ExitUnlistFits, ExitWaiterFits, ExitInitFits
  <2>5. QED
    BY <1>2, <2>1, <2>2, <2>3, <2>4 DEF Continue
<1>3. QED
  BY <1>1, <1>2 DEF Next

\* Every variable keeps its type, whatever calls meet the exits and the unbinds
\* of do_unbind.
THEOREM TypeCorrect == Spec => []TypeOK
<1>1. IInv => TypeOK
  BY DEF IInv, MutexesFit, CallsFit, DescsFit, ListsFit, WalksFit, RestTyped, TypeOK
<1>2. QED
  BY <1>1, InitFits, StepFits, PTL DEF Spec

\* Whatever the calls and the exits, and however many processes: a thread that
\* waits for the mutex of a process holds none of a process above it.
THEOREM MutexesAscend == Spec => []LocksAscend
<1>1. IInv => LocksAscend
  <2> SUFFICES ASSUME IInv, NEW p \in Procs, needs[p] # <<>>, Head(needs[p]) # DC,
                      NEW q \in Procs, owner[q] = p
               PROVE  q < Head(needs[p])
    BY DEF LocksAscend
  <2>1. Orderly(HeldBy(p), needs[p]) /\ q \in HeldBy(p) \cap Procs
    BY DEF IInv, MutexesFit, HeldBy
  <2>2. PICK a \in Procs : needs[p] = <<a>> /\ \A r \in HeldBy(p) \cap Procs : r < a
    BY <2>1 DEF Orderly
  <2>3. QED
    BY <2>1, <2>2
<1>2. QED
  BY <1>1, InitFits, StepFits, PTL DEF Spec

-----------------------------------------------------------------------------
(* Who is woken, released and told of a death *)

\* The inductive invariant, which IInv comes first for.  What a thread has of
\* the mutexes it uses, and what it keeps while it takes others.
Has(p, k) == owner[k] = p \/ k \in ToSet(needs[p])
Walking == {"flush", "others", "unlist", "waiters", "init"}
Holds(p) ==
    LET d == call[p].peer IN
    /\ pc[p] = "send" => Has(p, p) /\ Has(p, d)
    /\ pc[p] = "sendto" => needs[p] = <<DC>> /\ owner[p] = p /\ owner[d] = p
    /\ pc[p] \in {"scan", "visit", "exit"} \cup Walking => Has(p, p)
    /\ pc[p] \in {"unbind", "exit"} => Has(p, DC)
    /\ pc[p] \in Walking => owner[DC] = p
    /\ pc[p] \in {"flush", "init"} => owner[p] = p
    /\ pc[p] \in Awake /\ call[p].both => Has(p, d)

\* The flags of a descriptor, given where its thread is and what it calls.
Calling == {"send", "sendto", "sendrec", "source", "check", "scan", "visit", "reply", "unbind"}
Dozing == Awake \cup {"sleep"}
FlagsOf(op) ==
    IF op = "send" THEN {"SENDING"}
    ELSE IF op = "sendrec" THEN {"SENDING", "RECEIVING"}
    ELSE IF op = "receive" THEN {"RECEIVING"}
    ELSE IF op = "unbind" THEN {"WAITUNBIND"}
    ELSE {}
LastFlag(op) ==
    IF op = "send" THEN "SENDING" ELSE IF op = "unbind" THEN "WAITUNBIND" ELSE "RECEIVING"
Flagged(d, l, c) ==
    /\ d.sem >= -1
    /\ l \in {"send", "sendto", "sendrec"} => c.both
    /\ l \in Calling \cup {"waiters", "init"} => d.rts = {}
    /\ l \in {"user", "done"} \cup (Exiting \ {"gone"}) => d.rts \subseteq {"WAITUNBIND"}
    /\ l = "unlist" => "WAITUNBIND" \in d.rts
    /\ l = "gone" => d.rts = {"SLOT_FREE"}
    /\ l \in Dozing =>
          /\ c.op \in {"send", "sendrec", "receive", "unbind"}
          /\ d.rts \subseteq FlagsOf(c.op)
          /\ "SENDING" \in d.rts => d.sendto = c.peer /\ c.both
          /\ "RECEIVING" \in d.rts => d.getfrom = c.peer
          /\ "WAITUNBIND" \in d.rts => d.waitunbind = c.peer
          /\ d.sem < 0 => LastFlag(c.op) \in d.rts /\ l # "woken" /\ d.rcode = "OK"
          /\ d.sem >= 0 /\ d.rcode = "OK" => d.rts = {}

\* The lists.
Queued(p) ==
    /\ IsInjective(p_list[p])
    /\ \A x \in ToSet(p_list[p]) : "SENDING" \in proc[x].rts /\ proc[x].sendto = p
    /\ pc[p] = "flush" => p_list[p] # <<>>
Waited(v) ==
    /\ IsInjective(p_ulist[v])
    /\ \A x \in Procs : x \in ToSet(p_ulist[v]) <=>
            "WAITUNBIND" \in proc[x].rts /\ proc[x].waitunbind = v
    /\ pc[v] = "waiters" => p_ulist[v] # <<>>
    /\ pc[v] \in {"init", "gone"} => p_ulist[v] = <<>>

\* Who sleeps on a process still to come to it.
Reached(p, d) ==
    AsleepOn(p, d) =>
        IF "SENDING" \in proc[p].rts
        THEN \/ ~Flushed(d) /\ p \in ToSet(p_list[d])
             \/ late[p] /\ call[p].op = "sendrec"
        ELSE "RECEIVING" \in proc[p].rts => late[p] \/ ~Passed(d, p)

\* What a thread was told, and will tell.
Departed == {"waiters", "init", "gone"}
Told(p) ==
    LET d == call[p].peer IN
    /\ pc[p] \in Dozing =>
          /\ proc[p].rcode \in {"DSTDIED", "SRCDIED"} => d \in Procs /\ pc[d] \in Exiting
          /\ proc[p].rcode \notin {"DEADSRCDST", "NOTBIND"}
          /\ call[p].op = "unbind" /\ proc[p].sem >= 0 /\ proc[p].rcode = "OK" =>
                d \in Procs /\ pc[d] \in Departed
    /\ pc[p] = "sendto" => pc[d] # "gone"
    /\ pc[p] = "done" =>
          /\ ret[p] \in {"DSTDIED", "SRCDIED", "DEADSRCDST", "NOTBIND"} =>
                d \in Procs /\ pc[d] \in Exiting
          /\ call[p].op = "unbind" /\ ret[p] = "OK" => d \in Procs /\ pc[d] \in Departed

AllHold == \A p \in Procs : Holds(p)
AllFlagged == \A p \in Procs : Flagged(proc[p], pc[p], call[p])
AllQueued == \A p \in Procs : Queued(p)
AllWaited == \A p \in Procs : Waited(p)
AllReached == \A p, d \in Procs : Reached(p, d)
AllTold == \A p \in Procs : Told(p)
UInv == AllHold /\ AllFlagged /\ AllQueued /\ AllWaited /\ AllReached /\ AllTold

-----------------------------------------------------------------------------
(* What a thread has of the mutexes *)

LEMMA AtHas ==
    ASSUME IInv, NEW p \in Procs, NEW l, At(p, l), NEW k, Has(p, k)
    PROVE  owner[k] \in {p, NONE}
<1>1. CASE owner[k] = p
  BY <1>1
<1>2. CASE k \in ToSet(needs[p])
  BY <1>2 DEF At, ToSet
<1>3. QED
  BY <1>1, <1>2 DEF Has

\* Who walks has the mutex of the DC: nobody else walks, or goes on with it.
LEMMA OneWalks ==
    ASSUME AllHold, NEW p \in Procs, pc[p] \in Walking, NEW q \in Procs, pc[q] \in Walking
    PROVE  p = q
BY DEF AllHold, Holds

LEMMA NobodyWalks ==
    ASSUME IInv, AllHold, NEW p \in Procs, NEW l, At(p, l), Has(p, DC),
           NEW q \in Procs, q # p
    PROVE  pc[q] \notin Walking
<1>1. owner[DC] \in {p, NONE}
  BY AtHas
<1>2. QED
  BY <1>1, NamesAssumption DEF AllHold, Holds

\* A step of p leaves the threads of others where they are.
Apart(p, q) ==
    /\ pc'[q] = pc[q] /\ call'[q] = call[q] /\ ret'[q] = ret[q] /\ late'[q] = late[q]
    /\ others'[q] = others[q]

LEMMA HoldsKept ==
    ASSUME IInv, AllHold, NEW p \in Procs, NEW q \in Procs, q # p,
           pc'[q] = pc[q], call'[q] = call[q], needs'[q] = needs[q],
           \A k \in Locks : owner[k] = q => owner'[k] = q
    PROVE  Holds(q)'
<1>1. /\ Holds(q) /\ q \in Locks /\ DC \in Locks /\ Fits(call[q], pc[q], q) /\ pc[q] \in PcValues
  BY DEF AllHold, Locks, IInv, CallsFit, MutexesFit
<1>2. \A k \in Locks : Has(q, k) => Has(q, k)'
  BY DEF Has
<1>3. pc[q] \in {"send", "sendto"} \/ call[q].both => call[q].peer \in Locks
  BY <1>1 DEF Fits, OpAt, Locks
<1>4. QED
  BY <1>1, <1>2, <1>3 DEF Holds

LEMMA GotoHolds ==
    ASSUME IInv, AllHold, NEW p \in Procs, NEW l, NEW held, NEW want, Goto(p, l, held, want),
           \A k \in held : owner[k] \in {p, NONE},
           \A q \in Procs : q # p => call'[q] = call[q]
    PROVE  /\ pc'[p] = l /\ needs'[p] = want /\ \A k \in held \cap Locks : owner'[k] = p
           /\ \A q \in Procs : q # p => pc'[q] = pc[q] /\ Holds(q)'
<1>1. /\ pc'[p] = l /\ needs'[p] = want
      /\ \A q \in Procs : q # p => pc'[q] = pc[q] /\ needs'[q] = needs[q]
  BY DEF Goto, IInv, MutexesFit
<1>2. \A k \in Locks : owner'[k] = IF k \in held THEN p ELSE IF owner[k] = p THEN NONE ELSE owner[k]
  BY DEF Goto
<1>3. \A q \in Procs : q # p => \A k \in Locks : owner[k] = q => owner'[k] = q
  BY <1>2, NamesAssumption
<1>4. \A q \in Procs : q # p => Holds(q)'
  BY <1>1, <1>3, HoldsKept
<1>5. QED
  BY <1>1, <1>2, <1>4

\* A step of p that keeps nothing, or what it had.
LEMMA GotoAll ==
    ASSUME IInv, AllHold, NEW p \in Procs, NEW l, NEW held, NEW want, Goto(p, l, held, want),
           \A k \in held : owner[k] \in {p, NONE},
           \A q \in Procs : q # p => call'[q] = call[q],
           Holds(p)'
    PROVE  AllHold'
<1>1. ASSUME NEW q \in Procs PROVE Holds(q)'
  BY GotoHolds
<1>2. QED
  BY <1>1 DEF AllHold

\* Where a thread uses no mutex, or the ones it still needs.
LEMMA GoFree ==
    ASSUME IInv, AllHold, NEW p \in Procs, NEW l, NEW want, Goto(p, l, {}, want),
           l \in {"user", "sendrec", "source", "check", "reply", "sleep", "done", "gone"},
           \A q \in Procs : q # p => call'[q] = call[q]
    PROVE  AllHold'
<1>1. pc'[p] = l
  BY GotoHolds
<1>2. Holds(p)'
  BY <1>1 DEF Holds, Walking, Awake
<1>3. QED
  BY <1>2, GotoAll

LEMMA FinishHolds ==
    ASSUME IInv, AllHold, NEW p \in Procs, NEW rc, Finish(p, rc),
           \A q \in Procs : q # p => call'[q] = call[q]
    PROVE  AllHold'
BY GoFree DEF Finish

\* The mutexes in the order of p_nr.
LEMMA OrderedHas ==
    ASSUME NEW p, NEW q
    PROVE  /\ p \in ToSet(Ordered(p, q)) /\ q \in ToSet(Ordered(p, q))
           /\ p \in ToSet(<<p>>) /\ DC \in ToSet(<<DC>>) /\ DC \in ToSet(<<DC, p>>)
           /\ p \in ToSet(<<DC, p>>) /\ p \in ToSet(<<q, p>>)
BY DEF Ordered, ToSet

LEMMA OrderedDc ==
    ASSUME NEW p \in Procs, NEW q \in Procs
    PROVE  DC \in ToSet(<<DC>> \o Ordered(p, q))
<1>1. <<DC>> \in Seq(Locks) /\ Ordered(p, q) \in Seq(Locks) /\ Len(<<DC>>) = 1
  <2>1. <<DC>> \in Seq(Locks) /\ <<p, q>> \in Seq(Locks) /\ <<q, p>> \in Seq(Locks)
    BY DEF Locks
  <2>2. Len(<<DC>>) = 1
    OBVIOUS
  <2>3. QED
    BY <2>1, <2>2 DEF Ordered
<1> DEFINE s == <<DC>> \o Ordered(p, q)
<1>2. /\ s \in Seq(Locks) /\ Len(s) = 1 + Len(Ordered(p, q)) /\ Len(Ordered(p, q)) \in Nat
      /\ \A i \in 1 .. Len(s) : s[i] = IF i <= 1 THEN <<DC>>[i] ELSE Ordered(p, q)[i - 1]
  BY <1>1, ConcatProperties
<1> HIDE DEF s
<1>3. 1 \in DOMAIN s /\ s[1] = DC
  BY <1>1, <1>2
<1>4. DC \in ToSet(s)
  BY <1>3 DEF ToSet
<1>5. QED
  BY <1>4 DEF s

LEMMA VisitHolds ==
    ASSUME IInv, AllHold, NEW p \in Procs, NEW r \in Procs, NEW l \in Walking \ {"init"},
           l = "flush" => p < r, Visit(p, l, r), UNCHANGED call,
           owner[DC] \in {p, NONE}, owner[p] \in {p, NONE}
    PROVE  AllHold'
<1>1. p \in Locks /\ DC \in Locks
  BY DEF Locks
<1>2. l \notin Awake \cup {"send", "sendto", "scan", "visit", "exit", "unbind", "init"}
  BY DEF Walking, Awake
<1>3. CASE p < r
  <2>1. Goto(p, l, {DC, p}, <<r>>)
    BY <1>3 DEF Visit
  <2>2. pc'[p] = l /\ owner'[DC] = p /\ owner'[p] = p
    BY <1>1, <2>1, GotoHolds
  <2>3. Holds(p)'
    BY <1>2, <2>2 DEF Holds, Has
  <2>4. QED
    BY <2>1, <2>3, GotoAll
<1>4. CASE ~(p < r)
  <2>1. Goto(p, l, {DC}, <<r, p>>)
    BY <1>4 DEF Visit
  <2>2. pc'[p] = l /\ owner'[DC] = p /\ needs'[p] = <<r, p>>
    BY <1>1, <2>1, GotoHolds
  <2>3. Holds(p)'
    BY <1>2, <1>4, <2>2, OrderedHas DEF Holds, Has
  <2>4. QED
    BY <2>1, <2>3, GotoAll
<1>5. QED
  BY <1>3, <1>4

LEMMA WaitersHold ==
    ASSUME IInv, AllHold, NEW p \in Procs, NEW us \in Seq(Procs \ {p}), Waiters(p, us),
           UNCHANGED call,
           owner[DC] \in {p, NONE}, owner[p] \in {p, NONE}
    PROVE  AllHold' /\ pc'[p] = (IF us = <<>> THEN "init" ELSE "waiters")
<1>1. CASE us = <<>>
  <2>1. Goto(p, "init", {DC, p}, <<>>)
    BY <1>1 DEF Waiters
  <2>2. pc'[p] = "init" /\ owner'[DC] = p /\ owner'[p] = p
    BY <2>1, GotoHolds DEF Locks
  <2>3. Holds(p)'
    BY <2>2 DEF Holds, Has, Awake
  <2>4. QED
    BY <1>1, <2>1, <2>2, <2>3, GotoAll
<1>2. CASE us # <<>>
  <2>1. Visit(p, "waiters", Head(us)) /\ Head(us) \in Procs
    BY <1>2, HeadTailProperties DEF Waiters
  <2>2. AllHold'
    BY <2>1, VisitHolds DEF Walking
  <2>3. pc'[p] = "waiters"
    BY <2>1 DEF Visit, Goto, IInv, MutexesFit
  <2>4. QED
    BY <1>2, <2>2, <2>3
<1>3. QED
  BY <1>1, <1>2

LEMMA UnlistHolds ==
    ASSUME IInv, AllHold, NEW p \in Procs, Unlist(p), UNCHANGED call,
           owner[DC] \in {p, NONE}, owner[p] \in {p, NONE}
    PROVE  /\ AllHold'
           /\ pc'[p] = IF "WAITUNBIND" \in proc[p].rts THEN "unlist"
                       ELSE IF p_ulist[p] = <<>> THEN "init" ELSE "waiters"
<1>1. CASE "WAITUNBIND" \in proc[p].rts
  <2>1. Visit(p, "unlist", proc[p].waitunbind) /\ proc[p].waitunbind \in Procs
    BY <1>1 DEF Unlist, IInv, DescsFit, Fit
  <2>2. AllHold'
    BY <2>1, VisitHolds DEF Walking
  <2>3. pc'[p] = "unlist"
    BY <2>1 DEF Visit, Goto, IInv, MutexesFit
  <2>4. QED
    BY <1>1, <2>2, <2>3
<1>2. CASE "WAITUNBIND" \notin proc[p].rts
  <2>1. Waiters(p, p_ulist[p]) /\ p_ulist[p] \in Seq(Procs \ {p})
    BY <1>2 DEF Unlist, IInv, ListsFit
  <2>2. QED
    BY <1>2, <2>1, WaitersHold
<1>3. QED
  BY <1>1, <1>2

LEMMA OthersHold ==
    ASSUME IInv, AllHold, NEW p \in Procs, NEW rs \in SUBSET Procs, Others(p, rs), UNCHANGED call,
           owner[DC] \in {p, NONE}, owner[p] \in {p, NONE}
    PROVE  /\ AllHold'
           /\ IF rs # {} THEN pc'[p] = "others"
              ELSE pc'[p] = IF "WAITUNBIND" \in proc[p].rts THEN "unlist"
                            ELSE IF p_ulist[p] = <<>> THEN "init" ELSE "waiters"
<1>1. CASE rs = {}
  BY <1>1, UnlistHolds DEF Others
<1>2. CASE rs # {}
  <2>1. PICK r \in rs : Visit(p, "others", r)
    BY <1>2 DEF Others
  <2>2. AllHold'
    BY <2>1, VisitHolds DEF Walking
  <2>3. pc'[p] = "others"
    BY <2>1 DEF Visit, Goto, IInv, MutexesFit
  <2>4. QED
    BY <1>2, <2>2, <2>3
<1>3. QED
  BY <1>1, <1>2

LEMMA FlushHolds ==
    ASSUME IInv, AllHold, NEW p \in Procs, NEW xs \in Seq(Above(p)), Flush(p, xs), UNCHANGED call,
           owner[DC] \in {p, NONE}, owner[p] \in {p, NONE}
    PROVE  /\ AllHold'
           /\ IF xs # <<>> THEN pc'[p] = "flush"
              ELSE IF Procs \ {p} # {} THEN pc'[p] = "others"
              ELSE pc'[p] = IF "WAITUNBIND" \in proc[p].rts THEN "unlist"
                            ELSE IF p_ulist[p] = <<>> THEN "init" ELSE "waiters"
<1>1. CASE xs = <<>>
  <2>1. Others(p, Procs \ {p}) /\ Procs \ {p} \in SUBSET Procs
    BY <1>1 DEF Flush
  <2>2. QED
    BY <1>1, <2>1, OthersHold
<1>2. CASE xs # <<>>
  <2>1. Visit(p, "flush", Head(xs)) /\ Head(xs) \in Procs /\ p < Head(xs)
    BY <1>2, HeadTailProperties DEF Flush, Above
  <2>2. AllHold'
    BY <2>1, VisitHolds DEF Walking
  <2>3. pc'[p] = "flush"
    BY <2>1 DEF Visit, Goto, IInv, MutexesFit
  <2>4. QED
    BY <1>2, <2>2, <2>3
<1>3. QED
  BY <1>1, <1>2

-----------------------------------------------------------------------------
(* What a step of p does to the others, and where it leaves its own *)

\* What may happen to the descriptor of another, whose thread is at l: d becomes
\* e, as the thread of p goes to k.
Struck(d, e, l, p, k) ==
    \/ e = d
    \/ Waits(d, p) /\ e = Wake(EndReceive(d), "OK")
    \/ "SENDING" \in d.rts /\ d.sendto = p /\ k = "done" /\ e = Wake(EndSend(d), "OK")
    \/ /\ "SENDING" \in d.rts /\ d.sendto = p /\ k \in Exiting
       /\ e = Up(Clear(d, {"SENDING"}), "DSTDIED")
    \/ /\ Waits(d, p) /\ d.getfrom = p /\ k \in Exiting
       /\ e = Up(Clear(d, {"RECEIVING"}), "SRCDIED")
    \/ d.rts # {} /\ e = Up(d, "SHUTDOWN")
    \/ /\ "WAITUNBIND" \in d.rts /\ d.waitunbind = p /\ l # "unlist" /\ k \in Departed
       /\ e = Up([Clear(d, {"WAITUNBIND"}) EXCEPT !.waitunbind = NONE], "OK")
Unlinked(p, q) ==
    /\ "SENDING" \in proc[q].rts /\ "SENDING" \notin proc'[q].rts =>
          p_list'[p] = Without(p_list[p], q)
    /\ "WAITUNBIND" \in proc[q].rts /\ "WAITUNBIND" \notin proc'[q].rts =>
          p_ulist'[p] = Without(p_ulist[p], q)

\* The lists it changes: its own loses others, another gets it, or loses it.
Queues(p) ==
    \A d \in Procs :
        \/ p_list'[d] = p_list[d]
        \/ d # p /\ p \notin ToSet(p_list[d]) /\ p_list'[d] = Append(p_list[d], p)
        \/ d # p /\ pc[d] # "flush" /\ p_list'[d] = Without(p_list[d], p)
        \/ d = p /\ p_list'[d] = <<>>
        \/ d = p /\ \E x \in Procs \ {p} : p_list'[d] = Without(p_list[d], x)
Unbinders(p) ==
    \A v \in Procs :
        \/ p_ulist'[v] = p_ulist[v]
        \/ /\ v # p /\ pc[v] \notin {"init", "gone"}
           /\ p \notin ToSet(p_ulist[v]) /\ p_ulist'[v] = Append(p_ulist[v], p)
        \/ v # p /\ pc[v] # "waiters" /\ p_ulist'[v] = Without(p_ulist[v], p)
        \/ /\ v = p
           /\ \E x \in Procs \ {p} :
                 p_ulist'[v] = Without(p_ulist[v], x) /\ "WAITUNBIND" \notin proc'[x].rts

\* It goes on to leave, and passes nobody who goes on to wait for it.
Onwards(p) ==
    /\ pc[p] \in Exiting => pc'[p] \in Exiting
    /\ pc[p] \in Departed => pc'[p] \in Departed
    /\ pc'[p] = "gone" => pc[p] \in {"init", "gone"}
    /\ \A q \in Procs \ {p} :
          /\ q \in ToSet(p_list[p]) /\ ~Flushed(p) =>
                \/ "SENDING" \notin proc'[q].rts
                \/ q \in ToSet(p_list'[p]) /\ ~Flushed(p)'
          /\ Passed(p, q)' =>
                \/ Passed(p, q)
                \/ ~(~Gone(q) /\ Waits(proc[q], p) /\ proc[q].getfrom = p)
                \/ proc'[q].sem >= 0

Effects(p) ==
    /\ \A q \in Procs \ {p} : /\ Apart(p, q) /\ Unlinked(p, q)
                                  /\ Struck(proc[q], proc'[q], pc[q], p, pc'[p])
    /\ Queues(p) /\ Unbinders(p) /\ Onwards(p)

\* What the invariant says of p itself.
Own(p) ==
    /\ Flagged(proc[p], pc[p], call[p])
    /\ \A d \in Procs : p \in ToSet(p_list[d]) => "SENDING" \in proc[p].rts /\ proc[p].sendto = d
    /\ pc[p] = "flush" => p_list[p] # <<>>
    /\ \A v \in Procs : p \in ToSet(p_ulist[v]) <=>
            "WAITUNBIND" \in proc[p].rts /\ proc[p].waitunbind = v
    /\ pc[p] = "waiters" => p_ulist[p] # <<>>
    /\ pc[p] \in {"init", "gone"} => p_ulist[p] = <<>>
    /\ \A d \in Procs : Reached(p, d)
    /\ Told(p)

-----------------------------------------------------------------------------
(* What follows for the others *)

\* LIST_DEL_INIT takes out one entry, and a list without repetitions loses it.
LEMMA WithoutExact ==
    ASSUME NEW S, NEW s \in Seq(S), IsInjective(s), NEW p
    PROVE  IsInjective(Without(s, p)) /\ ToSet(Without(s, p)) = ToSet(s) \ {p}
<1>1. CASE p \notin ToSet(s)
  BY <1>1 DEF Without
<1>2. CASE p \in ToSet(s)
  <2> DEFINE i == CHOOSE i \in DOMAIN s : s[i] = p
             t == RemoveAt(s, i)
             n == Len(s)
  <2>1. i \in 1 .. n /\ s[i] = p /\ n \in Nat
    BY <1>2 DEF ToSet
  <2>2. Without(s, p) = t
    BY <1>2 DEF Without
  <2> HIDE DEF i
  <2>3. /\ t \in Seq(S) /\ Len(t) = n - 1
        /\ \A j \in 1 .. n - 1 : t[j] = IF j < i THEN s[j] ELSE s[j + 1]
    <3>1. /\ SubSeq(s, 1, i - 1) \in Seq(S) /\ SubSeq(s, i + 1, Len(s)) \in Seq(S)
          /\ Len(SubSeq(s, 1, i - 1)) = i - 1 /\ Len(SubSeq(s, i + 1, Len(s))) = n - i
      BY <2>1, SubSeqProperties
    <3>2. /\ \A j \in 1 .. i - 1 : SubSeq(s, 1, i - 1)[j] = s[j]
          /\ \A j \in 1 .. n - i : SubSeq(s, i + 1, Len(s))[j] = s[i + j]
      BY <2>1
    <3> DEFINE a == SubSeq(s, 1, i - 1)
               b == SubSeq(s, i + 1, Len(s))
    <3>3. t = a \o b
      BY DEF RemoveAt
    <3> HIDE DEF a, b
    <3>4. /\ a \o b \in Seq(S) /\ Len(a \o b) = Len(a) + Len(b)
          /\ \A j \in 1 .. Len(a) + Len(b) :
                (a \o b)[j] = IF j <= Len(a) THEN a[j] ELSE b[j - Len(a)]
      BY <3>1, ConcatProperties DEF a, b
    <3>5. /\ Len(a) = i - 1 /\ Len(b) = n - i
          /\ \A j \in 1 .. i - 1 : a[j] = s[j]
          /\ \A j \in 1 .. n - i : b[j] = s[i + j]
      BY <3>1, <3>2 DEF a, b
    <3>6. ASSUME NEW j \in 1 .. n - 1
          PROVE  (a \o b)[j] = IF j < i THEN s[j] ELSE s[j + 1]
      <4>1. j \in 1 .. Len(a) + Len(b)
        BY <2>1, <3>5
      <4>2. CASE j < i
        BY <2>1, <3>4, <3>5, <4>1, <4>2
      <4>3. CASE ~(j < i)
        <5>1. j - (i - 1) \in 1 .. n - i /\ i + (j - (i - 1)) = j + 1 /\ ~(j <= i - 1)
          BY <2>1, <4>3
        <5>2. QED
          BY <3>4, <3>5, <4>1, <4>3, <5>1
      <4>4. QED
        BY <4>2, <4>3
    <3>7. Len(a) + Len(b) = n - 1
      BY <2>1, <3>5
    <3>8. QED
      BY <3>3, <3>4, <3>6, <3>7
  <2> HIDE DEF t
  <2>4. DOMAIN t = 1 .. n - 1 /\ DOMAIN s = 1 .. n
    BY <2>1, <2>3
  <2>5. \A a, b \in 1 .. n : s[a] = s[b] => a = b
    BY <2>4 DEF IsInjective
  <2> HIDE DEF n
  <2>6. \A a, b \in 1 .. n - 1 : t[a] = t[b] => a = b
    BY <2>1, <2>3, <2>5
  <2>7. ASSUME NEW x \in ToSet(t) PROVE x \in ToSet(s) \ {p}
    <3>1. PICK j \in 1 .. n - 1 : x = t[j]
      BY <2>4 DEF ToSet
    <3>2. PICK k \in 1 .. n : x = s[k] /\ k # i
      BY <2>1, <2>3, <3>1
    <3>3. QED
      BY <2>1, <2>4, <2>5, <3>2 DEF ToSet
  <2>8. ASSUME NEW x \in ToSet(s) \ {p} PROVE x \in ToSet(t)
    <3>1. PICK k \in 1 .. n : x = s[k]
      BY <2>4 DEF ToSet
    <3>2. k # i
      BY <2>1, <2>8, <3>1
    <3>3. PICK j \in 1 .. n - 1 : x = t[j]
      <4>1. CASE k < i
        <5>1. k \in 1 .. n - 1
          BY <2>1, <4>1
        <5>2. QED
          BY <2>3, <3>1, <4>1, <5>1
      <4>2. CASE k > i
        <5>1. k - 1 \in 1 .. n - 1 /\ ~(k - 1 < i) /\ k - 1 + 1 = k
          BY <2>1, <4>2
        <5>2. QED
          BY <2>3, <3>1, <5>1
      <4>3. QED
        BY <2>1, <3>2, <4>1, <4>2
    <3>4. QED
      BY <2>4, <3>3 DEF ToSet
  <2>9. IsInjective(t)
    BY <2>4, <2>6 DEF IsInjective
  <2>10. QED
    BY <2>2, <2>7, <2>8, <2>9
<1>3. QED
  BY <1>1, <1>2

LEMMA AppendExact ==
    ASSUME NEW S, NEW s \in Seq(S), IsInjective(s), NEW p \in S, p \notin ToSet(s)
    PROVE  IsInjective(Append(s, p)) /\ ToSet(Append(s, p)) = ToSet(s) \cup {p}
           /\ Append(s, p) # <<>>
<1> DEFINE t == Append(s, p)
           n == Len(s)
<1>1. /\ n \in Nat /\ DOMAIN s = 1 .. n /\ DOMAIN t = 1 .. n + 1 /\ t[n + 1] = p
      /\ \A i \in 1 .. n : t[i] = s[i]
  BY AppendProperties
<1>2. t # <<>>
  BY AppendProperties
<1> HIDE DEF t, n
<1>3. IsInjective(t)
  <2>1. \A i \in 1 .. n : s[i] # p
    BY <1>1 DEF ToSet
  <2>2. \A a, b \in 1 .. n + 1 : t[a] = t[b] => a = b
    BY <1>1, <2>1 DEF IsInjective
  <2>3. QED
    BY <1>1, <2>2 DEF IsInjective
<1>4. ToSet(t) = ToSet(s) \cup {p}
  <2>1. \A i \in 1 .. n + 1 : i \in 1 .. n \/ i = n + 1
    BY <1>1
  <2>2. ToSet(t) \subseteq ToSet(s) \cup {p}
    BY <1>1, <2>1 DEF ToSet
  <2>3. n + 1 \in DOMAIN t /\ \A i \in DOMAIN s : i \in DOMAIN t
    BY <1>1
  <2>4. ToSet(s) \cup {p} \subseteq ToSet(t)
    BY <1>1, <2>3 DEF ToSet
  <2>5. QED
    BY <2>2, <2>4
<1>5. QED
  BY <1>2, <1>3, <1>4 DEF t

LEMMA EmptyExact == IsInjective(<<>>) /\ ToSet(<<>>) = {}
BY DEF IsInjective, ToSet

\* One entry after another.
LEMMA QueuesExact ==
    ASSUME IInv, AllQueued, NEW p \in Procs, Queues(p), NEW d \in Procs
    PROVE  /\ IsInjective(p_list'[d])
           /\ \A q \in Procs \ {p} : d # p => (q \in ToSet(p_list'[d]) <=> q \in ToSet(p_list[d]))
           /\ ToSet(p_list'[p]) \subseteq ToSet(p_list[p])
           /\ d # p /\ pc[d] = "flush" => p_list'[d] # <<>>
<1>1. /\ p_list[d] \in Seq(Procs) /\ IsInjective(p_list[d]) /\ (pc[d] = "flush" => p_list[d] # <<>>)
      /\ p_list[p] \in Seq(Procs) /\ IsInjective(p_list[p])
  BY DEF IInv, ListsFit, AllQueued, Queued
<1>2. ToSet(p_list'[p]) \subseteq ToSet(p_list[p])
  BY <1>1, WithoutExact, EmptyExact DEF Queues
<1>3. CASE p_list'[d] = p_list[d]
  BY <1>1, <1>2, <1>3
<1>4. CASE d # p /\ p \notin ToSet(p_list[d]) /\ p_list'[d] = Append(p_list[d], p)
  BY <1>1, <1>2, <1>4, AppendExact
<1>5. CASE d # p /\ pc[d] # "flush" /\ p_list'[d] = Without(p_list[d], p)
  BY <1>1, <1>2, <1>5, WithoutExact
<1>6. CASE d = p /\ p_list'[d] = <<>>
  BY <1>1, <1>2, <1>6, EmptyExact
<1>7. CASE d = p /\ \E x \in Procs \ {p} : p_list'[d] = Without(p_list[d], x)
  BY <1>1, <1>2, <1>7, WithoutExact
<1>8. QED
  BY <1>3, <1>4, <1>5, <1>6, <1>7 DEF Queues

LEMMA UnbindersExact ==
    ASSUME IInv, AllWaited, NEW p \in Procs, Unbinders(p), NEW v \in Procs
    PROVE  /\ IsInjective(p_ulist'[v])
           /\ \A q \in Procs \ {p} : v # p => (q \in ToSet(p_ulist'[v]) <=> q \in ToSet(p_ulist[v]))
           /\ \A q \in Procs : "WAITUNBIND" \in proc'[q].rts =>
                 (v = p => (q \in ToSet(p_ulist'[v]) <=> q \in ToSet(p_ulist[v])))
           /\ ToSet(p_ulist'[p]) \subseteq ToSet(p_ulist[p])
           /\ v # p /\ pc[v] = "waiters" => p_ulist'[v] # <<>>
           /\ v # p /\ pc[v] \in {"init", "gone"} => p_ulist'[v] = <<>>
<1>1. /\ p_ulist[v] \in Seq(Procs) /\ IsInjective(p_ulist[v])
      /\ pc[v] = "waiters" => p_ulist[v] # <<>>
      /\ pc[v] \in {"init", "gone"} => p_ulist[v] = <<>>
      /\ p_ulist[p] \in Seq(Procs) /\ IsInjective(p_ulist[p])
  BY DEF IInv, ListsFit, AllWaited, Waited
<1>2. ToSet(p_ulist'[p]) \subseteq ToSet(p_ulist[p])
  BY <1>1, WithoutExact DEF Unbinders
<1>3. CASE p_ulist'[v] = p_ulist[v]
  BY <1>1, <1>2, <1>3
<1>4. CASE /\ v # p /\ pc[v] \notin {"init", "gone"}
           /\ p \notin ToSet(p_ulist[v]) /\ p_ulist'[v] = Append(p_ulist[v], p)
  BY <1>1, <1>2, <1>4, AppendExact
<1>5. CASE v # p /\ pc[v] # "waiters" /\ p_ulist'[v] = Without(p_ulist[v], p)
  <2>1. pc[v] \in {"init", "gone"} => p_ulist'[v] = <<>>
    BY <1>1, <1>5, EmptyExact DEF Without
  <2>2. QED
    BY <1>1, <1>2, <1>5, <2>1, WithoutExact
<1>6. CASE /\ v = p
           /\ \E x \in Procs \ {p} :
                 p_ulist'[v] = Without(p_ulist[v], x) /\ "WAITUNBIND" \notin proc'[x].rts
  BY <1>1, <1>2, <1>6, WithoutExact
<1>7. QED
  BY <1>3, <1>4, <1>5, <1>6 DEF Unbinders

\* The fields of a descriptor after an operation.
LEMMA EndFields ==
    ASSUME NEW d \in Descriptors
    PROVE  /\ EndSend(d) \in Descriptors /\ EndReceive(d) \in Descriptors
           /\ EndSend(d).rts = d.rts \ {"SENDING"} /\ EndReceive(d).rts = d.rts \ {"RECEIVING"}
           /\ EndSend(d).sendto = NONE /\ EndReceive(d).sendto = d.sendto
           /\ EndSend(d).getfrom = d.getfrom /\ EndReceive(d).getfrom = NONE
           /\ EndSend(d).waitunbind = d.waitunbind /\ EndReceive(d).waitunbind = d.waitunbind
           /\ EndSend(d).sem = d.sem /\ EndReceive(d).sem = d.sem
           /\ EndSend(d).rcode = d.rcode /\ EndReceive(d).rcode = d.rcode
BY DEF EndSend, EndReceive, Clear, Descriptors, RtsFlags

LEMMA ClearFields ==
    ASSUME NEW d \in Descriptors, NEW bits
    PROVE  /\ Clear(d, bits) \in Descriptors /\ Clear(d, bits).rts = d.rts \ bits
           /\ Clear(d, bits).sendto = d.sendto /\ Clear(d, bits).getfrom = d.getfrom
           /\ Clear(d, bits).waitunbind = d.waitunbind
           /\ Clear(d, bits).sem = d.sem /\ Clear(d, bits).rcode = d.rcode
BY DEF Clear, Descriptors, RtsFlags

LEMMA ReleaseFields ==
    ASSUME NEW d \in Descriptors, NEW e, e = [Clear(d, {"WAITUNBIND"}) EXCEPT !.waitunbind = NONE]
    PROVE  /\ e \in Descriptors /\ e.rts = d.rts \ {"WAITUNBIND"}
           /\ e.sendto = d.sendto /\ e.getfrom = d.getfrom /\ e.waitunbind = NONE
           /\ e.sem = d.sem /\ e.rcode = d.rcode
BY DEF Clear, Descriptors, RtsFlags

LEMMA UpFields ==
    ASSUME NEW d \in Descriptors, NEW rc \in Rcodes, NEW e, e = Up(d, rc)
    PROVE  /\ e \in Descriptors /\ e.rts = d.rts /\ e.sendto = d.sendto /\ e.getfrom = d.getfrom
           /\ e.waitunbind = d.waitunbind /\ e.sem = d.sem + 1 /\ e.rcode = rc
<1> DEFINE up == d.sem + 1
<1>1. up \in Int /\ e = [d EXCEPT !.rcode = rc, !.sem = up]
  BY DEF Descriptors, Up
<1> HIDE DEF up
<1>2. /\ e \in Descriptors /\ e.rts = d.rts /\ e.sendto = d.sendto /\ e.getfrom = d.getfrom
      /\ e.waitunbind = d.waitunbind /\ e.sem = up /\ e.rcode = rc
  BY <1>1 DEF Descriptors
<1>3. QED
  BY <1>2 DEF up

LEMMA DiedFields ==
    ASSUME NEW d \in Descriptors, NEW bits, NEW rc \in Rcodes, NEW e, e = Up(Clear(d, bits), rc)
    PROVE  /\ e \in Descriptors /\ e.rts = d.rts \ bits /\ e.sendto = d.sendto
           /\ e.getfrom = d.getfrom /\ e.waitunbind = d.waitunbind
           /\ e.sem = d.sem + 1 /\ e.rcode = rc
<1>1. PICK b : b = Clear(d, bits)
  OBVIOUS
<1>2. /\ b \in Descriptors /\ b.rts = d.rts \ bits /\ b.sendto = d.sendto
      /\ b.getfrom = d.getfrom /\ b.waitunbind = d.waitunbind /\ b.sem = d.sem
  BY <1>1, ClearFields, ZenonT(30)
<1>3. e = Up(b, rc) /\ b \in Descriptors
  BY <1>1, <1>2
<1>4. /\ e \in Descriptors /\ e.rts = b.rts /\ e.sendto = b.sendto /\ e.getfrom = b.getfrom
      /\ e.waitunbind = b.waitunbind /\ e.sem = b.sem + 1 /\ e.rcode = rc
  BY <1>3, UpFields, ZenonT(30)
<1>5. QED
  BY <1>2, <1>4, ZenonT(30)

LEMMA ReleasedFields ==
    ASSUME NEW d \in Descriptors, NEW rc \in Rcodes, NEW e,
           e = Up([Clear(d, {"WAITUNBIND"}) EXCEPT !.waitunbind = NONE], rc)
    PROVE  /\ e \in Descriptors /\ e.rts = d.rts \ {"WAITUNBIND"} /\ e.sendto = d.sendto
           /\ e.getfrom = d.getfrom /\ e.waitunbind = NONE /\ e.sem = d.sem + 1 /\ e.rcode = rc
<1>1. PICK b : b = [Clear(d, {"WAITUNBIND"}) EXCEPT !.waitunbind = NONE]
  OBVIOUS
<1>2. /\ b \in Descriptors /\ b.rts = d.rts \ {"WAITUNBIND"} /\ b.sendto = d.sendto
      /\ b.getfrom = d.getfrom /\ b.waitunbind = NONE /\ b.sem = d.sem
  BY <1>1, ReleaseFields, ZenonT(30)
<1>3. e = Up(b, rc) /\ b \in Descriptors
  BY <1>1, <1>2
<1>4. /\ e \in Descriptors /\ e.rts = b.rts /\ e.sendto = b.sendto /\ e.getfrom = b.getfrom
      /\ e.waitunbind = b.waitunbind /\ e.sem = b.sem + 1 /\ e.rcode = rc
  BY <1>3, UpFields, ZenonT(30)
<1>5. QED
  BY <1>2, <1>4, ZenonT(30)

\* A wakeup puts the semaphore up; where the code is OK, the flags are gone.
LEMMA UpFlagged ==
    ASSUME NEW d \in Descriptors, NEW rts \in SUBSET RtsFlags, NEW rc \in Rcodes,
           NEW l \in PcValues \ {"gone"}, NEW c, Flagged(d, l, c), NEW e \in Descriptors,
           e.rts = d.rts \ rts, e.sem = d.sem + 1, e.rcode = rc,
           "SENDING" \in e.rts => e.sendto = d.sendto,
           "RECEIVING" \in e.rts => e.getfrom = d.getfrom,
           "WAITUNBIND" \in e.rts => e.waitunbind = d.waitunbind,
           rc = "OK" /\ l \in Dozing => e.rts = {},
           l = "unlist" => "WAITUNBIND" \notin rts
    PROVE  Flagged(e, l, c) /\ e.sem >= 0
<1>1. d.sem \in Int /\ e.sem >= 0
  BY DEF Flagged, Descriptors
<1>2. l \in Dozing \/ l \notin Dozing
  OBVIOUS
<1>3. CASE l \in Dozing
  <2>1. l \notin Calling \cup {"waiters", "init", "user", "done", "unlist", "gone"} \cup Exiting
    BY <1>3 DEF Dozing, Awake, Calling, Exiting
  <2>2. QED
    BY <1>1, <1>3, <2>1 DEF Flagged
<1>4. CASE l \notin Dozing
  BY <1>1, <1>4 DEF Flagged
<1>5. QED
  BY <1>3, <1>4

LEMMA WakeFlagged ==
    ASSUME NEW d \in Descriptors, NEW l \in PcValues \ {"gone"}, NEW c, Flagged(d, l, c),
           NEW e \in Descriptors, NEW rts \in SUBSET {"SENDING", "RECEIVING"},
           l \in Dozing, e.rts = d.rts \ rts, e.sem = d.sem, e.rcode = d.rcode,
           "SENDING" \in e.rts => e.sendto = d.sendto,
           "RECEIVING" \in e.rts => e.getfrom = d.getfrom,
           e.waitunbind = d.waitunbind,
           e.rts = {} \/ LastFlag(c.op) \notin rts
    PROVE  /\ Flagged(Wake(e, "OK"), l, c)
           /\ Wake(e, "OK").rts = e.rts /\ Wake(e, "OK").sendto = e.sendto
           /\ Wake(e, "OK").getfrom = e.getfrom /\ Wake(e, "OK").waitunbind = e.waitunbind
           /\ IF e.rts = {} THEN Wake(e, "OK").sem >= 0 /\ Wake(e, "OK").rcode = "OK"
              ELSE Wake(e, "OK") = e
<1>1. CASE e.rts = {}
  <2>1. Wake(e, "OK") = Up(e, "OK") /\ "OK" \in Rcodes
    BY <1>1 DEF Wake, Rcodes
  <2> DEFINE f == Up(e, "OK")
  <2>2. /\ f \in Descriptors /\ f.rts = e.rts /\ f.sendto = e.sendto /\ f.getfrom = e.getfrom
        /\ f.waitunbind = e.waitunbind /\ f.sem = e.sem + 1 /\ f.rcode = "OK"
    BY <2>1, UpFields
  <2> HIDE DEF f
  <2>3. rts \in SUBSET RtsFlags
    BY DEF RtsFlags
  <2>4. l # "unlist"
    BY DEF Dozing, Awake
  <2>5. Flagged(f, l, c) /\ f.sem >= 0
    BY <1>1, <2>1, <2>2, <2>3, <2>4, UpFlagged
  <2>6. QED
    BY <1>1, <2>1, <2>2, <2>5 DEF f
<1>2. CASE e.rts # {}
  <2>1. Wake(e, "OK") = e
    BY <1>2 DEF Wake
  <2>2. l \notin Calling \cup {"waiters", "init", "user", "done", "unlist", "gone"} \cup Exiting
    BY DEF Dozing, Awake, Calling, Exiting
  <2>3. Flagged(e, l, c)
    BY <1>2, <2>2 DEF Flagged
  <2>4. QED
    BY <1>2, <2>1, <2>3
<1>3. QED
  BY <1>1, <1>2

\* Only who sleeps, or is woken and not yet done, sends or receives.
LEMMA DozingFlags ==
    ASSUME NEW d \in Descriptors, NEW l \in PcValues, NEW c, Flagged(d, l, c)
    PROVE  /\ "SENDING" \in d.rts \/ "RECEIVING" \in d.rts => l \in Dozing
           /\ "SLOT_FREE" \in d.rts <=> l = "gone"
           /\ d.rts # {} => l \notin Calling
           /\ l \in Dozing => l \notin Exiting /\ l # "done"
<1>1. l \in Dozing => l \notin Exiting /\ l \notin {"done", "gone", "user"}
  BY DEF Dozing, Awake, Exiting
<1>2. l \in Dozing \/ l \in Calling \cup {"user", "done"} \cup Exiting
  BY DEF PcValues, Dozing, Awake, Calling
<1>3. d.rts # {} => l \notin Calling
  BY DEF Flagged
<1>4. "SENDING" \in d.rts \/ "RECEIVING" \in d.rts => l \in Dozing
  BY <1>2, <1>3 DEF Flagged
<1>5. l \in Dozing => "SLOT_FREE" \notin d.rts
  BY DEF Flagged, FlagsOf
<1>6. "SLOT_FREE" \in d.rts <=> l = "gone"
  BY <1>1, <1>2, <1>3, <1>5 DEF Flagged
<1>7. QED
  BY <1>1, <1>3, <1>4, <1>6

\* What is left of the flags of q, who has ended its send, and what it is told.
Spared(d, e, l, c, p, k) ==
    /\ Flagged(e, l, c)
    /\ e.rts \subseteq d.rts
    /\ d.sem >= 0 => e.sem >= 0
    /\ "SENDING" \in e.rts => e.sendto = d.sendto
    /\ "WAITUNBIND" \in e.rts => e.waitunbind = d.waitunbind
    /\ "SENDING" \in d.rts /\ "SENDING" \notin e.rts => d.sendto = p /\ (e.sem >= 0 \/ k = "done")
    /\ "WAITUNBIND" \in d.rts /\ "WAITUNBIND" \notin e.rts => d.waitunbind = p
    /\ e.rcode \in {"DSTDIED", "SRCDIED"} =>
          e.rcode = d.rcode \/ (l \in Dozing => c.peer = p /\ k \in Exiting)
    /\ e.rcode = d.rcode \/ e.rcode \in {"OK", "DSTDIED", "SRCDIED", "SHUTDOWN"}
    /\ c.op = "unbind" /\ l \in Dozing /\ e.sem >= 0 /\ e.rcode = "OK" =>
          \/ d.sem >= 0 /\ d.rcode = "OK"
          \/ c.peer = p /\ k \in Departed

LEMMA StruckSpared ==
    ASSUME NEW p, NEW k, NEW d \in Descriptors, NEW l \in PcValues, NEW c, Flagged(d, l, c),
           NEW e, Struck(d, e, l, p, k)
    PROVE  Spared(d, e, l, c, p, k)
<1>1. d \in Descriptors /\ l \in PcValues /\ Flagged(d, l, c)
  OBVIOUS
<1>2. "OK" \in Rcodes /\ "DSTDIED" \in Rcodes /\ "SRCDIED" \in Rcodes /\ "SHUTDOWN" \in Rcodes
  BY DEF Rcodes
<1>3. /\ {"SENDING"} \in SUBSET {"SENDING", "RECEIVING"}
      /\ {"RECEIVING"} \in SUBSET {"SENDING", "RECEIVING"}
  OBVIOUS
<1>4. d.sem \in Int /\ d.rts \in SUBSET RtsFlags
  BY <1>1 DEF Descriptors
<1>5. l \in Dozing => d.rts \subseteq FlagsOf(c.op)
  BY <1>1 DEF Flagged
<1>6. CASE e = d
  <2>1. Spared(d, d, l, c, p, k)
    BY <1>1 DEF Spared
  <2>2. QED
    BY <1>6, <2>1
<1>7. CASE Waits(d, p) /\ e = Wake(EndReceive(d), "OK")
  <2> DEFINE f == EndReceive(d)
  <2>1. l \in Dozing /\ "SENDING" \notin d.rts /\ "RECEIVING" \in d.rts
    BY <1>1, <1>7, DozingFlags DEF Waits
  <2>2. /\ f \in Descriptors /\ f.rts = d.rts \ {"RECEIVING"} /\ f.sendto = d.sendto
        /\ f.waitunbind = d.waitunbind /\ f.sem = d.sem /\ f.rcode = d.rcode
    BY <1>1, EndFields
  <2> HIDE DEF f
  <2>3. f.rts = {} /\ c.op # "unbind"
    BY <1>5, <2>1, <2>2 DEF FlagsOf
  <2>4. l # "gone"
    BY <2>1 DEF Dozing, Awake
  <2>5. /\ Flagged(Wake(f, "OK"), l, c) /\ Wake(f, "OK").rts = {}
        /\ Wake(f, "OK").sem >= 0 /\ Wake(f, "OK").rcode = "OK"
    BY <1>1, <1>3, <2>1, <2>2, <2>3, <2>4, WakeFlagged
  <2>6. d.rts = {"RECEIVING"}
    BY <2>1, <2>2, <2>3
  <2>7. e = Wake(f, "OK")
    BY <1>7 DEF f
  <2>8. QED
    BY <2>3, <2>5, <2>6, <2>7 DEF Spared
<1>8. CASE /\ "SENDING" \in d.rts /\ d.sendto = p /\ k = "done"
           /\ e = Wake(EndSend(d), "OK")
  <2>1. PICK f, bits : f = EndSend(d) /\ bits = {"SENDING"}
    OBVIOUS
  <2>2. l \in Dozing
    BY <1>1, <1>8, DozingFlags
  <2>3. /\ f \in Descriptors /\ f.rts = d.rts \ {"SENDING"} /\ f.getfrom = d.getfrom
        /\ f.waitunbind = d.waitunbind /\ f.sem = d.sem /\ f.rcode = d.rcode
    BY <1>1, <2>1, EndFields
  <2>4. c.op \in {"send", "sendrec"} /\ (c.op = "send" => f.rts = {})
    BY <1>5, <1>8, <2>2, <2>3 DEF FlagsOf
  <2>5. l # "gone" /\ (f.rts = {} \/ LastFlag(c.op) \notin {"SENDING"})
    BY <2>2, <2>4 DEF Dozing, Awake, LastFlag
  <2>6. /\ "SENDING" \in f.rts => f.sendto = d.sendto
        /\ "RECEIVING" \in f.rts => f.getfrom = d.getfrom
        /\ l \in PcValues \ {"gone"} /\ bits \in SUBSET {"SENDING", "RECEIVING"}
    BY <2>3, <2>5, <2>1
  <2>7. f.rts = d.rts \ bits /\ (f.rts = {} \/ LastFlag(c.op) \notin bits) /\ f \in Descriptors
    BY <2>3, <2>5, <2>1
  <2>8. f.waitunbind = d.waitunbind /\ f.sem = d.sem /\ f.rcode = d.rcode
    BY <2>3
  <2>9. /\ Flagged(Wake(f, "OK"), l, c) /\ Wake(f, "OK").rts = f.rts
        /\ IF f.rts = {} THEN Wake(f, "OK").sem >= 0 /\ Wake(f, "OK").rcode = "OK"
           ELSE Wake(f, "OK") = f
    BY <1>1, <2>2, <2>6, <2>7, <2>8, WakeFlagged, SMT
  <2>10. "WAITUNBIND" \notin d.rts
    BY <1>5, <2>2, <2>4 DEF FlagsOf
  <2>11. e = Wake(f, "OK")
    BY <1>8, <2>1
  <2>12. QED
    BY <1>8, <2>3, <2>4, <2>9, <2>10, <2>11 DEF Spared
<1>9. CASE /\ "SENDING" \in d.rts /\ d.sendto = p /\ k \in Exiting
           /\ e = Up(Clear(d, {"SENDING"}), "DSTDIED")
  <2>1. l \in Dozing
    BY <1>1, <1>9, DozingFlags
  <2>2. "DSTDIED" \in Rcodes
    BY <1>2
  <2>3. /\ e \in Descriptors /\ e.rts = d.rts \ {"SENDING"} /\ e.getfrom = d.getfrom
        /\ e.sendto = d.sendto /\ e.waitunbind = d.waitunbind /\ e.sem = d.sem + 1
        /\ e.rcode = "DSTDIED"
    BY <1>9, <2>2, DiedFields
  <2>4. l \notin {"gone", "unlist"} /\ {"SENDING"} \in SUBSET RtsFlags
    BY <2>1 DEF Dozing, Awake, RtsFlags
  <2>5. Flagged(e, l, c) /\ e.sem >= 0
    BY <1>1, <1>2, <2>3, <2>4, UpFlagged
  <2>6. c.peer = p
    BY <1>1, <1>9, <2>1 DEF Flagged
  <2>7. QED
    BY <1>9, <2>3, <2>5, <2>6 DEF Spared
<1>10. CASE /\ Waits(d, p) /\ d.getfrom = p /\ k \in Exiting
           /\ e = Up(Clear(d, {"RECEIVING"}), "SRCDIED")
  <2>1. l \in Dozing /\ "RECEIVING" \in d.rts /\ "SENDING" \notin d.rts
    BY <1>1, <1>10, DozingFlags DEF Waits
  <2>2. "SRCDIED" \in Rcodes
    BY <1>2
  <2>3. /\ e \in Descriptors /\ e.rts = d.rts \ {"RECEIVING"} /\ e.getfrom = d.getfrom
        /\ e.sendto = d.sendto /\ e.waitunbind = d.waitunbind /\ e.sem = d.sem + 1
        /\ e.rcode = "SRCDIED"
    BY <1>10, <2>2, DiedFields
  <2>4. l \notin {"gone", "unlist"} /\ {"RECEIVING"} \in SUBSET RtsFlags
    BY <2>1 DEF Dozing, Awake, RtsFlags
  <2>5. Flagged(e, l, c) /\ e.sem >= 0
    BY <1>1, <1>2, <2>3, <2>4, UpFlagged
  <2>6. c.peer = p
    BY <1>1, <1>10, <2>1 DEF Flagged
  <2>7. QED
    BY <1>10, <2>1, <2>3, <2>5, <2>6 DEF Spared
<1>11. CASE d.rts # {} /\ e = Up(d, "SHUTDOWN")
  <2> DEFINE f == Up(d, "SHUTDOWN")
  <2>1. /\ f \in Descriptors /\ f.rts = d.rts /\ f.getfrom = d.getfrom
        /\ f.sendto = d.sendto /\ f.waitunbind = d.waitunbind /\ f.sem = d.sem + 1
        /\ f.rcode = "SHUTDOWN"
    BY <1>1, <1>2, UpFields
  <2> HIDE DEF f
  <2>2. Flagged(f, l, c) /\ f.sem >= 0
    <3>1. CASE l = "gone"
      <4>1. Flagged(f, l, c) <=> f.sem >= -1 /\ f.rts = {"SLOT_FREE"}
        BY <3>1 DEF Flagged, Dozing, Awake, Calling, Exiting
      <4>2. Flagged(d, l, c) <=> d.sem >= -1 /\ d.rts = {"SLOT_FREE"}
        BY <3>1 DEF Flagged, Dozing, Awake, Calling, Exiting
      <4>3. QED
        BY <1>1, <1>4, <2>1, <4>1, <4>2
    <3>2. CASE l # "gone"
      <4>1. f.rts = d.rts \ {} /\ {} \in SUBSET RtsFlags
        BY <2>1
      <4>2. QED
        BY <1>1, <1>2, <2>1, <3>2, <4>1, UpFlagged
    <3>3. QED
      BY <3>1, <3>2
  <2>3. e = f
    BY <1>11 DEF f
  <2>4. QED
    BY <2>1, <2>2, <2>3 DEF Spared
<1>12. CASE /\ "WAITUNBIND" \in d.rts /\ d.waitunbind = p /\ l # "unlist"
            /\ k \in Departed
            /\ e = Up([Clear(d, {"WAITUNBIND"}) EXCEPT !.waitunbind = NONE], "OK")
  <2>1. "OK" \in Rcodes
    BY <1>2
  <2>2. /\ e \in Descriptors /\ e.rts = d.rts \ {"WAITUNBIND"} /\ e.getfrom = d.getfrom
        /\ e.sendto = d.sendto /\ e.sem = d.sem + 1 /\ e.rcode = "OK"
    BY <1>12, <2>1, ReleasedFields
  <2>3. l # "gone" /\ {"WAITUNBIND"} \in SUBSET RtsFlags
    BY <1>1, <1>12, DozingFlags DEF Flagged, RtsFlags
  <2>4. l \in Dozing => e.rts = {} /\ c.peer = p
    BY <1>1, <1>5, <1>12, <2>2 DEF FlagsOf, Flagged
  <2>5. Flagged(e, l, c) /\ e.sem >= 0
    BY <1>1, <1>2, <1>12, <2>2, <2>3, <2>4, UpFlagged
  <2>6. QED
    BY <1>12, <2>2, <2>4, <2>5 DEF Spared
<1>13. QED
  BY <1>6, <1>7, <1>8, <1>9, <1>10, <1>11, <1>12 DEF Struck

\* A step of p, for another: it stays where it is, and its descriptor is spared.
LEMMA OtherSpared ==
    ASSUME IInv, UInv, NEW p \in Procs, Effects(p), NEW q \in Procs \ {p}
    PROVE  /\ Spared(proc[q], proc'[q], pc[q], call[q], p, pc'[p])
           /\ Apart(p, q) /\ Unlinked(p, q)
<1>1. /\ proc[q] \in Descriptors /\ pc[q] \in PcValues /\ Flagged(proc[q], pc[q], call[q])
  BY DEF IInv, DescsFit, MutexesFit, UInv, AllFlagged
<1>2. /\ Apart(p, q) /\ Unlinked(p, q)
      /\ Struck(proc[q], proc'[q], pc[q], p, pc'[p])
  BY DEF Effects
<1>3. PICK d, l, c, e, k : d = proc[q] /\ l = pc[q] /\ c = call[q] /\ e = proc'[q] /\ k = pc'[p]
  OBVIOUS
<1>4. Spared(d, e, l, c, p, k)
  BY <1>1, <1>2, <1>3, StruckSpared
<1>5. QED
  BY <1>2, <1>3, <1>4

LEMMA KeepsFlagged ==
    ASSUME IInv, UInv, NEW p \in Procs, Effects(p), Own(p)'
    PROVE  AllFlagged'
<1>1. ASSUME NEW q \in Procs PROVE Flagged(proc'[q], pc'[q], call'[q])
  <2>1. CASE q = p
    BY <2>1 DEF Own
  <2>2. CASE q # p
    <3>1. /\ Spared(proc[q], proc'[q], pc[q], call[q], p, pc'[p])
          /\ pc'[q] = pc[q] /\ call'[q] = call[q]
      BY <2>2, OtherSpared DEF Apart
    <3>2. Flagged(proc'[q], pc[q], call[q])
      BY <3>1 DEF Spared
    <3>3. QED
      BY <3>1, <3>2
  <2>3. QED
    BY <2>1, <2>2
<1>2. QED
  BY <1>1 DEF AllFlagged

LEMMA KeepsQueued ==
    ASSUME IInv, IInv', UInv, NEW p \in Procs, Effects(p), Own(p)'
    PROVE  AllQueued'
<1>1. AllQueued /\ Queues(p)
  BY DEF UInv, Effects
<1>2. ASSUME NEW d \in Procs PROVE Queued(d)'
  <2>1. IsInjective(p_list'[d])
    BY <1>1, QueuesExact
  <2>2. ASSUME NEW x \in ToSet(p_list'[d])
        PROVE  "SENDING" \in proc'[x].rts /\ proc'[x].sendto = d
    <3>1. x \in Procs
      <4>1. p_list'[d] \in Seq(Procs)
        BY DEF IInv, ListsFit
      <4>2. QED
        BY <2>2, <4>1 DEF ToSet
    <3>2. CASE x = p
      BY <2>2, <3>2 DEF Own
    <3>3. CASE x # p
      <4>1. x \in ToSet(p_list[d])
        <5>1. CASE d = p
          BY <1>1, <2>2, <3>1, <3>3, <5>1, QueuesExact
        <5>2. CASE d # p
          BY <1>1, <2>2, <3>1, <3>3, <5>2, QueuesExact
        <5>3. QED
          BY <5>1, <5>2
      <4>2. "SENDING" \in proc[x].rts /\ proc[x].sendto = d
        BY <1>1, <4>1 DEF AllQueued, Queued
      <4>3. Spared(proc[x], proc'[x], pc[x], call[x], p, pc'[p]) /\ Unlinked(p, x)
        BY <3>1, <3>3, OtherSpared
      <4>4. ASSUME "SENDING" \notin proc'[x].rts PROVE FALSE
        <5>1. d = p /\ p_list'[p] = Without(p_list[p], x)
          BY <4>2, <4>3, <4>4 DEF Spared, Unlinked
        <5>2. IsInjective(p_list[p]) /\ p_list[p] \in Seq(Procs)
          BY <1>1 DEF AllQueued, Queued, IInv, ListsFit
        <5>3. x \notin ToSet(p_list'[p])
          BY <5>1, <5>2, WithoutExact
        <5>4. QED
          BY <2>2, <5>1, <5>3
      <4>5. QED
        BY <4>2, <4>3, <4>4 DEF Spared
    <3>4. QED
      BY <3>2, <3>3
  <2>3. pc'[d] = "flush" => p_list'[d] # <<>>
    <3>1. CASE d = p
      BY <3>1 DEF Own
    <3>2. CASE d # p
      <4>1. pc'[d] = pc[d]
        BY <3>2, OtherSpared DEF Apart
      <4>2. QED
        BY <1>1, <3>2, <4>1, QueuesExact
    <3>3. QED
      BY <3>1, <3>2
  <2>4. QED
    BY <2>1, <2>2, <2>3 DEF Queued
<1>3. QED
  BY <1>2 DEF AllQueued

LEMMA KeepsWaited ==
    ASSUME IInv, UInv, NEW p \in Procs, Effects(p), Own(p)'
    PROVE  AllWaited'
<1>1. AllWaited /\ Unbinders(p)
  BY DEF UInv, Effects
<1>2. ASSUME NEW v \in Procs PROVE Waited(v)'
  <2>1. IsInjective(p_ulist'[v])
    BY <1>1, UnbindersExact
  <2>2. ASSUME NEW x \in Procs
        PROVE  x \in ToSet(p_ulist'[v]) <=>
                   "WAITUNBIND" \in proc'[x].rts /\ proc'[x].waitunbind = v
    <3>1. CASE x = p
      BY <3>1 DEF Own
    <3>2. CASE x # p
      <4>1. Spared(proc[x], proc'[x], pc[x], call[x], p, pc'[p]) /\ Unlinked(p, x)
        BY <3>2, OtherSpared
      <4>2. x \in ToSet(p_ulist[v]) <=> "WAITUNBIND" \in proc[x].rts /\ proc[x].waitunbind = v
        BY <1>1 DEF AllWaited, Waited
      <4>3. CASE "WAITUNBIND" \in proc'[x].rts
        <5>1. "WAITUNBIND" \in proc[x].rts /\ proc'[x].waitunbind = proc[x].waitunbind
          BY <4>1, <4>3 DEF Spared
        <5>2. x \in ToSet(p_ulist'[v]) <=> x \in ToSet(p_ulist[v])
          BY <1>1, <3>2, <4>3, UnbindersExact
        <5>3. QED
          BY <4>2, <4>3, <5>1, <5>2
      <4>4. CASE "WAITUNBIND" \notin proc'[x].rts
        <5>1. ASSUME x \in ToSet(p_ulist'[v]) PROVE FALSE
          <6>1. x \in ToSet(p_ulist[v])
            BY <1>1, <3>2, <5>1, UnbindersExact
          <6>2. "WAITUNBIND" \in proc[x].rts /\ proc[x].waitunbind = v
            BY <4>2, <6>1
          <6>3. v = p /\ p_ulist'[p] = Without(p_ulist[p], x)
            BY <4>1, <4>4, <6>2 DEF Spared, Unlinked
          <6>4. IsInjective(p_ulist[p]) /\ p_ulist[p] \in Seq(Procs)
            BY <1>1 DEF AllWaited, Waited, IInv, ListsFit
          <6>5. x \notin ToSet(p_ulist'[p])
            BY <6>3, <6>4, WithoutExact
          <6>6. QED
            BY <5>1, <6>3, <6>5
        <5>2. QED
          BY <4>4, <5>1
      <4>5. QED
        BY <4>3, <4>4
    <3>3. QED
      BY <3>1, <3>2
  <2>3. /\ pc'[v] = "waiters" => p_ulist'[v] # <<>>
        /\ pc'[v] \in {"init", "gone"} => p_ulist'[v] = <<>>
    <3>1. CASE v = p
      BY <3>1 DEF Own
    <3>2. CASE v # p
      <4>1. pc'[v] = pc[v]
        BY <3>2, OtherSpared DEF Apart
      <4>2. QED
        BY <1>1, <3>2, <4>1, UnbindersExact
    <3>3. QED
      BY <3>1, <3>2
  <2>4. QED
    BY <2>1, <2>2, <2>3 DEF Waited
<1>3. QED
  BY <1>2 DEF AllWaited

LEMMA KeepsReached ==
    ASSUME IInv, IInv', UInv, AllFlagged', NEW p \in Procs, Effects(p), Own(p)'
    PROVE  AllReached'
<1>1. ASSUME NEW q \in Procs, NEW d \in Procs, q # p, AsleepOn(q, d)',
             ~IF "SENDING" \in proc'[q].rts
              THEN \/ ~Flushed(d)' /\ q \in ToSet(p_list'[d])
                   \/ late'[q] /\ call'[q].op = "sendrec"
              ELSE "RECEIVING" \in proc'[q].rts => late'[q] \/ ~Passed(d, q)'
      PROVE  FALSE
  <2>1. /\ Spared(proc[q], proc'[q], pc[q], call[q], p, pc'[p]) /\ Unlinked(p, q)
        /\ pc'[q] = pc[q] /\ call'[q] = call[q] /\ late'[q] = late[q]
    BY <1>1, OtherSpared DEF Apart
  <2>2. d # p => pc'[d] = pc[d] /\ others'[d] = others[d]
    BY OtherSpared DEF Apart
  <2>3. pc[q] = "sleep" /\ proc'[q].sem < 0 /\ call[q].peer = d
    BY <1>1, <2>1 DEF AsleepOn
  <2>4. proc[q].sem < 0
    <3>1. proc[q].sem \in Int /\ proc'[q].sem \in Int
      BY DEF IInv, DescsFit, Descriptors
    <3>2. proc[q].sem >= 0 => proc'[q].sem >= 0
      BY <2>1 DEF Spared
    <3>3. QED
      BY <2>3, <3>1, <3>2
  <2>5. Reached(q, d) /\ AsleepOn(q, d)
    BY <2>3, <2>4 DEF UInv, AllReached, AsleepOn
  <2>6. /\ "SENDING" \in proc[q].rts => proc[q].sendto = d
        /\ "RECEIVING" \in proc[q].rts => proc[q].getfrom = d
        /\ ~Gone(q)
    <3>1. Flagged(proc[q], "sleep", call[q])
      BY <2>3 DEF UInv, AllFlagged
    <3>2. QED
      BY <2>3, <3>1 DEF Flagged, Dozing, Gone, FlagsOf
  <2>7. proc'[q].rts \subseteq proc[q].rts
    BY <2>1 DEF Spared
  <2>8. d # p => (Flushed(d)' <=> Flushed(d)) /\ (Passed(d, q)' <=> Passed(d, q))
    BY <2>2 DEF Flushed, Passed
  <2>9. CASE "SENDING" \in proc'[q].rts
    <3>1. ~Flushed(d) /\ q \in ToSet(p_list[d])
      BY <1>1, <2>1, <2>5, <2>7, <2>9 DEF Reached
    <3>2. CASE d = p
      BY <1>1, <2>9, <3>1, <3>2 DEF Effects, Onwards
    <3>3. CASE d # p
      <4>1. q \in ToSet(p_list'[d])
        BY <1>1, <3>1, <3>3, QueuesExact DEF UInv, Effects
      <4>2. QED
        BY <1>1, <2>8, <2>9, <3>1, <3>3, <4>1
    <3>4. QED
      BY <3>2, <3>3
  <2>10. CASE "SENDING" \notin proc'[q].rts
    <3>1. "RECEIVING" \in proc'[q].rts /\ ~late[q] /\ Passed(d, q)'
      BY <1>1, <2>1, <2>10
    <3>2. CASE "SENDING" \in proc[q].rts
      <4>1. d = p /\ (proc'[q].sem >= 0 \/ pc'[p] = "done")
        BY <2>1, <2>6, <2>10, <3>2 DEF Spared
      <4>2. proc'[q].sem \in Int
        BY DEF IInv, DescsFit, Descriptors
      <4>3. pc'[d] = "done"
        BY <2>3, <4>1, <4>2
      <4>4. QED
        BY <3>1, <4>3 DEF Passed, Flushed
    <3>3. CASE "SENDING" \notin proc[q].rts
      <4>1. "RECEIVING" \in proc[q].rts /\ ~Passed(d, q)
        BY <2>5, <2>7, <3>1, <3>3 DEF Reached
      <4>2. d = p
        BY <2>8, <3>1, <4>1
      <4>3. Waits(proc[q], p) /\ proc[q].getfrom = p
        BY <2>6, <3>3, <4>1, <4>2 DEF Waits
      <4>4. proc'[q].sem >= 0
        BY <1>1, <2>6, <3>1, <4>1, <4>2, <4>3 DEF Effects, Onwards
      <4>5. proc'[q].sem \in Int
        BY DEF IInv, DescsFit, Descriptors
      <4>6. QED
        BY <2>3, <4>4, <4>5
    <3>4. QED
      BY <3>2, <3>3
  <2>11. QED
    BY <2>9, <2>10
<1>2. ASSUME NEW q \in Procs, NEW d \in Procs PROVE Reached(q, d)'
  <2>1. CASE q = p
    BY <2>1 DEF Own
  <2>2. CASE q # p
    BY <1>1, <2>2 DEF Reached
  <2>3. QED
    BY <2>1, <2>2
<1>3. QED
  BY <1>2 DEF AllReached

LEMMA KeepsTold ==
    ASSUME IInv, UInv, NEW p \in Procs, Effects(p), Own(p)'
    PROVE  AllTold'
<1>1. ASSUME NEW d \in Procs
      PROVE  /\ pc[d] \in Exiting => pc'[d] \in Exiting
             /\ pc[d] \in Departed => pc'[d] \in Departed
  <2>1. CASE d = p
    BY <2>1 DEF Effects, Onwards
  <2>2. CASE d # p
    BY <2>2, OtherSpared DEF Apart
  <2>3. QED
    BY <2>1, <2>2
<1>2. ASSUME NEW q \in Procs, q # p PROVE Told(q)'
  <2> DEFINE d == call[q].peer
  <2>1. /\ Spared(proc[q], proc'[q], pc[q], call[q], p, pc'[p])
        /\ pc'[q] = pc[q] /\ call'[q] = call[q] /\ ret'[q] = ret[q]
    BY <1>2, OtherSpared DEF Apart
  <2>2. Told(q) /\ call'[q].peer = d /\ p \in Procs
    BY <2>1 DEF UInv, AllTold
  <2>3. pc[q] \in Dozing =>
          /\ proc'[q].rcode \in {"DSTDIED", "SRCDIED"} => d \in Procs /\ pc'[d] \in Exiting
          /\ proc'[q].rcode \notin {"DEADSRCDST", "NOTBIND"}
          /\ call[q].op = "unbind" /\ proc'[q].sem >= 0 /\ proc'[q].rcode = "OK" =>
                d \in Procs /\ pc'[d] \in Departed
    BY <1>1, <2>1, <2>2 DEF Told, Spared
  <2>4. pc[q] = "sendto" => pc'[d] # "gone"
    <3> SUFFICES ASSUME pc[q] = "sendto", pc'[d] = "gone" PROVE FALSE
      OBVIOUS
    <3>1. d \in Procs /\ owner[d] = q /\ pc[d] # "gone"
      BY <2>2 DEF IInv, CallsFit, Fits, OpAt, UInv, AllHold, Holds, Told
    <3>2. d = p
      BY <3>1, OtherSpared DEF Apart
    <3>3. pc[p] = "init"
      BY <3>1, <3>2 DEF Effects, Onwards
    <3>4. owner[p] = p
      BY <3>3 DEF UInv, AllHold, Holds
    <3>5. QED
      BY <1>2, <3>1, <3>2, <3>4
  <2>5. pc[q] = "done" =>
          /\ ret[q] \in {"DSTDIED", "SRCDIED", "DEADSRCDST", "NOTBIND"} =>
                d \in Procs /\ pc'[d] \in Exiting
          /\ call[q].op = "unbind" /\ ret[q] = "OK" => d \in Procs /\ pc'[d] \in Departed
    BY <1>1, <2>2 DEF Told
  <2>6. QED
    BY <2>1, <2>2, <2>3, <2>4, <2>5 DEF Told
<1>3. ASSUME NEW q \in Procs PROVE Told(q)'
  BY <1>2 DEF Own
<1>4. QED
  BY <1>3 DEF AllTold

\* A step of p keeps the invariant, when it keeps what is its own.
LEMMA StepKeeps ==
    ASSUME IInv, IInv', UInv, NEW p \in Procs, AllHold', Effects(p), Own(p)'
    PROVE  UInv'
<1>1. AllFlagged'
  BY KeepsFlagged
<1>2. QED
  BY <1>1, KeepsQueued, KeepsWaited, KeepsReached, KeepsTold DEF UInv

-----------------------------------------------------------------------------
(* Steps that touch no descriptor and no list *)

LEMMA InsideOnwards ==
    ASSUME NEW p \in Procs, pc[p] \notin Exiting, pc'[p] \notin Walking \cup {"gone"},
           \A q \in Procs \ {p} : q \in ToSet(p_list[p]) =>
               "SENDING" \notin proc'[q].rts \/ q \in ToSet(p_list'[p])
    PROVE  Onwards(p)
<1>1. ~Flushed(p)' /\ pc'[p] # "gone" /\ pc[p] \notin Departed
  BY DEF Flushed, Exiting, Departed, Walking
<1>2. \A q \in Procs : ~Passed(p, q)'
  BY <1>1 DEF Passed
<1>3. QED
  BY <1>1, <1>2 DEF Onwards

LEMMA Quiet ==
    ASSUME IInv, UInv, NEW p \in Procs, \A q \in Procs \ {p} : Apart(p, q),
           UNCHANGED <<proc, lists>>, pc[p] \notin Exiting, pc'[p] \notin Walking \cup {"gone", "sleep"},
           Flagged(proc[p], pc'[p], call'[p]), Told(p)'
    PROVE  Effects(p) /\ Own(p)'
<1>1. proc' = proc /\ p_list' = p_list /\ p_ulist' = p_ulist
  BY DEF lists
<1>2. \A q \in Procs \ {p} : Unlinked(p, q) /\ Struck(proc[q], proc'[q], pc[q], p, pc'[p])
  BY <1>1 DEF Unlinked, Struck
<1>3. Queues(p) /\ Unbinders(p)
  BY <1>1 DEF Queues, Unbinders
<1>4. Onwards(p)
  BY <1>1, InsideOnwards
<1>5. Effects(p)
  BY <1>2, <1>3, <1>4 DEF Effects
<1>6. /\ \A d \in Procs : p \in ToSet(p_list'[d]) =>
            "SENDING" \in proc'[p].rts /\ proc'[p].sendto = d
      /\ \A v \in Procs : p \in ToSet(p_ulist'[v]) <=>
            "WAITUNBIND" \in proc'[p].rts /\ proc'[p].waitunbind = v
  BY <1>1 DEF UInv, AllQueued, Queued, AllWaited, Waited
<1>7. pc'[p] \notin {"flush", "waiters", "init", "gone"}
  BY DEF Walking
<1>8. \A d \in Procs : Reached(p, d)'
  BY DEF Reached, AsleepOn
<1>9. Flagged(proc'[p], pc'[p], call'[p])
  BY <1>1
<1>10. Own(p)'
  BY <1>6, <1>7, <1>8, <1>9 DEF Own
<1>11. QED
  BY <1>5, <1>10

\* Where the thread of p is after a step, and that the others' are where they were.
LEMMA GotoApart ==
    ASSUME IInv, NEW p \in Procs, NEW l, NEW held, NEW want, Goto(p, l, held, want),
           \A q \in Procs \ {p} :
               call'[q] = call[q] /\ ret'[q] = ret[q] /\ late'[q] = late[q] /\ others'[q] = others[q]
    PROVE  pc'[p] = l /\ \A q \in Procs \ {p} : Apart(p, q)
BY DEF Goto, Apart, IInv, MutexesFit

LEMMA GotoQuiet ==
    ASSUME IInv, IInv', UInv, NEW p \in Procs, NEW l, NEW held, NEW want, Goto(p, l, held, want),
           UNCHANGED <<proc, lists, call, others, late>>,
           \A q \in Procs \ {p} : ret'[q] = ret[q],
           pc[p] \notin Exiting, l \notin Walking \cup {"gone", "sleep"},
           Flagged(proc[p], l, call[p]), Told(p)', AllHold'
    PROVE  UInv'
<1>1. pc'[p] = l /\ \A q \in Procs \ {p} : Apart(p, q)
  BY GotoApart
<1>2. Effects(p) /\ Own(p)'
  BY <1>1, Quiet
<1>3. QED
  BY <1>2, StepKeeps

\* A thread that returns with a code that it may return.
LEMMA FinishQuiet ==
    ASSUME IInv, IInv', UInv, NEW p \in Procs, NEW rc, Finish(p, rc),
           UNCHANGED <<proc, lists, call, others, late>>,
           pc[p] \in Calling,
           rc \in {"DSTDIED", "SRCDIED", "DEADSRCDST", "NOTBIND"} =>
               call[p].peer \in Procs /\ pc[call[p].peer] \in Exiting /\ call[p].peer # p,
           call[p].op = "unbind" => rc # "OK"
    PROVE  UInv'
<1>1. Goto(p, "done", {}, <<>>) /\ ret' = [ret EXCEPT ![p] = rc]
  BY DEF Finish
<1>2. pc[p] \notin Exiting /\ "done" \notin Walking \cup {"gone", "sleep"}
  BY DEF Calling, Exiting, Walking
<1>3. ret'[p] = rc /\ \A q \in Procs \ {p} : ret'[q] = ret[q]
  BY <1>1 DEF IInv, RestTyped
<1>4. pc'[p] = "done" /\ \A q \in Procs \ {p} : pc'[q] = pc[q]
  BY <1>1, <1>3, GotoApart DEF Apart
<1>5. Flagged(proc[p], pc[p], call[p]) /\ proc[p].rts = {}
  BY DEF UInv, AllFlagged, Flagged
<1>6. Flagged(proc[p], "done", call[p])
  BY <1>5 DEF Flagged, Calling, Dozing, Awake
<1>7. Told(p)'
  <2>1. "done" \notin Dozing
    BY DEF Dozing, Awake
  <2>2. call'[p].peer = call[p].peer /\ call'[p].op = call[p].op
    OBVIOUS
  <2>3. QED
    BY <1>3, <1>4, <2>1, <2>2 DEF Told
<1>8. AllHold'
  BY FinishHolds DEF UInv
<1>9. QED
  BY <1>1, <1>2, <1>3, <1>6, <1>7, <1>8, GotoQuiet

\* Another that has no slot any more has left.
LEMMA GoneIsGone ==
    ASSUME IInv, UInv, NEW d \in Procs
    PROVE  Gone(d) <=> pc[d] = "gone"
<1>1. proc[d] \in Descriptors /\ pc[d] \in PcValues /\ Flagged(proc[d], pc[d], call[d])
  BY DEF IInv, DescsFit, MutexesFit, UInv, AllFlagged
<1>2. PICK e, l, c : e = proc[d] /\ l = pc[d] /\ c = call[d]
  OBVIOUS
<1>3. "SLOT_FREE" \in e.rts <=> l = "gone"
  BY <1>1, <1>2, DozingFlags
<1>4. QED
  BY <1>2, <1>3 DEF Gone

LEMMA LockKeeps == ASSUME IInv, IInv', UInv, NEW p \in Procs, Lock(p) PROVE UInv'
<1> DEFINE k == Head(needs[p])
<1>1. /\ owner[k] = NONE /\ owner' = [owner EXCEPT ![k] = p]
      /\ needs' = [needs EXCEPT ![p] = Tail(needs[p])] /\ Len(needs[p]) > 1
      /\ UNCHANGED <<proc, lists, thread, walks, killed, late>>
  BY DEF Lock
<1>2. UNCHANGED <<proc, p_list, p_ulist, pc, call, ret, left, others, killed, late>>
  BY <1>1 DEF lists, thread, walks
<1>3. needs[p] \in Seq(Locks) /\ owner \in [Locks -> Procs \cup {NONE}] /\ needs[p] # <<>>
  BY <1>1 DEF IInv, MutexesFit
<1>4. k \in Locks
  BY <1>3, HeadTailProperties
<1>5. \A q \in Procs : \A j \in Locks : owner[j] = q => owner'[j] = q
  BY <1>1, <1>3, <1>4, NamesAssumption
<1>6. \A q \in Procs \ {p} : needs'[q] = needs[q]
  BY <1>1 DEF IInv, MutexesFit
<1>7. \A q \in Procs \ {p} : Holds(q)'
  BY <1>2, <1>5, <1>6, HoldsKept DEF UInv
<1>8. \A j \in Locks : Has(p, j) => Has(p, j)'
  <2> SUFFICES ASSUME NEW j \in Locks, j \in ToSet(needs[p]), j # k PROVE j \in ToSet(needs'[p])
    BY <1>1, <1>3, <1>4, <1>5 DEF Has
  <2> DEFINE s == needs[p]
             t == Tail(s)
  <2>1. s \in Seq(Locks) /\ s # <<>> /\ k = s[1]
    BY <1>3
  <2>2. PICK i \in 1 .. Len(s) : s[i] = j
    BY <2>1 DEF ToSet
  <2>3. /\ t \in Seq(Locks) /\ Len(t) = Len(s) - 1 /\ \A n \in 1 .. Len(s) - 1 : t[n] = s[n + 1]
    BY <2>1, HeadTailProperties
  <2>4. i # 1 /\ Len(s) \in Nat
    BY <2>1, <2>2
  <2>5. i - 1 \in 1 .. Len(s) - 1 /\ (i - 1) + 1 = i
    BY <2>2, <2>4
  <2>6. t[i - 1] = j /\ i - 1 \in DOMAIN t
    BY <2>2, <2>3, <2>5
  <2>7. needs'[p] = t
    BY <1>1 DEF IInv, MutexesFit
  <2>8. QED
    BY <2>6, <2>7 DEF ToSet
<1>9. Holds(p)'
  <2>1. /\ Holds(p) /\ p \in Locks /\ DC \in Locks /\ Fits(call[p], pc[p], p) /\ pc[p] \in PcValues
    BY DEF UInv, AllHold, Locks, IInv, CallsFit, MutexesFit
  <2>2. pc[p] \in {"send", "sendto"} \/ call[p].both => call[p].peer \in Locks
    BY <2>1 DEF Fits, OpAt, Locks
  <2>3. pc[p] # "sendto"
    <3>1. Len(<<DC>>) = 1
      OBVIOUS
    <3>2. pc[p] = "sendto" => needs[p] = <<DC>>
      BY <2>1 DEF Holds
    <3>3. needs[p] = <<DC>> => FALSE
      <4>1. PICK n : n = Len(needs[p]) /\ n > 1
        BY <1>1
      <4>2. needs[p] = <<DC>> => n = 1
        BY <3>1, <4>1, Zenon
      <4>3. QED
        BY <4>1, <4>2
    <3>4. QED
      BY <3>2, <3>3
  <2>4. QED
    BY <1>2, <1>5, <1>8, <2>1, <2>2, <2>3 DEF Holds
<1>10. AllHold'
  BY <1>7, <1>9 DEF AllHold
<1>11. /\ \A q \in Procs : Told(q) => Told(q)'
       /\ \A q, d \in Procs : Reached(q, d) => Reached(q, d)'
       /\ \A q \in Procs : (Queued(q) => Queued(q)') /\ (Waited(q) => Waited(q)')
  BY <1>2 DEF Told, Reached, AsleepOn, Flushed, Passed, Queued, Waited
<1>12. AllFlagged'
  BY <1>2 DEF UInv, AllFlagged
<1>13. QED
  BY <1>10, <1>11, <1>12 DEF UInv, AllTold, AllReached, AllQueued, AllWaited

LEMMA BeginKeeps ==
    ASSUME IInv, IInv', UInv, NEW p \in Procs, NEW op, NEW d, NEW both, NEW l, NEW want,
           Begin(p, op, d, both, l, want),
           l \in Calling, l \notin {"sendto", "check", "visit"},
           l \in {"send", "sendrec"} => both = TRUE,
           l = "send" => p \in ToSet(want) /\ d \in ToSet(want),
           l = "scan" => p \in ToSet(want), l = "unbind" => DC \in ToSet(want)
    PROVE  UInv'
<1>1. /\ pc[p] = "user" /\ proc[p].rts = {} /\ Goto(p, l, {}, want)
      /\ UNCHANGED <<proc, lists, walks, killed, ret, late>>
  BY DEF Begin
<1>2. PICK t \in Timed :
          call' = [call EXCEPT ![p] = [op |-> op, peer |-> d, timed |-> t, both |-> both]]
  BY DEF Begin
<1>3. call'[p].peer = d /\ call'[p].both = both /\ \A q \in Procs \ {p} : call'[q] = call[q]
  BY <1>2 DEF IInv, CallsFit
<1>4. pc'[p] = l /\ \A q \in Procs \ {p} : Apart(p, q)
  BY <1>1, <1>3, GotoApart DEF walks
<1>5. pc[p] \notin Exiting /\ l \notin Exiting \cup Walking \cup {"gone", "sleep", "done"} \cup Dozing
  BY <1>1 DEF Exiting, Calling, Dozing, Awake, Walking
<1>6. Flagged(proc[p], pc'[p], call'[p])
  <2>1. proc[p].sem >= -1
    BY DEF UInv, AllFlagged, Flagged
  <2>2. l \notin {"user", "unlist"}
    BY DEF Calling
  <2>3. PICK e, c : e = proc[p] /\ c = call'[p]
    OBVIOUS
  <2>4. e.sem >= -1 /\ e.rts = {} /\ l # "gone" /\ (l \in {"send", "sendto", "sendrec"} => c.both)
    BY <1>1, <1>3, <1>5, <2>1, <2>3 DEF Exiting
  <2>5. Flagged(e, l, c)
    BY <1>5, <2>2, <2>4 DEF Flagged
  <2>6. QED
    BY <1>4, <2>3, <2>5
<1>7. Told(p)'
  BY <1>4, <1>5 DEF Told
<1>8. Effects(p) /\ Own(p)'
  BY <1>1, <1>4, <1>5, <1>6, <1>7, Quiet
<1>9. AllHold'
  <2>1. needs'[p] = want
    BY <1>1, <1>3, GotoHolds DEF UInv
  <2>2. l \notin Walking \cup Awake \cup {"sendto", "visit", "exit", "init"}
    BY DEF Calling, Walking, Awake
  <2>3. \A k : k \in ToSet(want) => Has(p, k)'
    BY <2>1 DEF Has
  <2>4. /\ l = "send" => Has(p, p)' /\ Has(p, d)'
        /\ l = "scan" => Has(p, p)'
        /\ l = "unbind" => Has(p, DC)'
    BY <2>3
  <2>5. Holds(p)'
    BY <1>3, <1>4, <2>2, <2>4 DEF Holds, Walking
  <2>6. QED
    BY <1>1, <1>3, <2>5, GotoAll DEF UInv
<1>10. QED
  BY <1>8, <1>9, StepKeeps

LEMMA CallKeeps == ASSUME IInv, IInv', UInv, NEW p \in Procs, Call(p) PROVE UInv'
<1>1. {"send", "sendrec", "reply", "unbind", "source", "scan"} \subseteq
          Calling \ {"sendto", "check", "visit"}
  BY DEF Calling
<1>2. ASSUME NEW d \in Sends[p], Begin(p, "send", d, TRUE, "send", Ordered(p, d)) PROVE UInv'
  BY <1>1, <1>2, OrderedHas, BeginKeeps
<1>3. ASSUME NEW d \in Asks[p], Begin(p, "sendrec", d, TRUE, "sendrec", Ordered(p, d)) PROVE UInv'
  BY <1>1, <1>3, BeginKeeps
<1>4. ASSUME NEW d \in Replies[p], Begin(p, "reply", d, TRUE, "reply", Ordered(p, d)) PROVE UInv'
  BY <1>1, <1>4, BeginKeeps
<1>5. ASSUME NEW d \in Unbinds[p], Begin(p, "unbind", d, FALSE, "unbind", <<DC>> \o Ordered(p, d))
      PROVE  UInv'
  <2>1. d \in Procs
    BY CallsAssumption
  <2>2. DC \in ToSet(<<DC>> \o Ordered(p, d))
    BY <2>1, OrderedDc
  <2>3. QED
    BY <1>1, <1>5, <2>2, BeginKeeps
<1>6. ASSUME NEW s \in Sources[p] \ {ANY}, Begin(p, "receive", s, FALSE, "source", <<DC, p>>)
      PROVE  UInv'
  BY <1>1, <1>6, BeginKeeps
<1>7. ASSUME Begin(p, "receive", ANY, FALSE, "scan", <<p>>) PROVE UInv'
  BY <1>1, <1>7, OrderedHas, BeginKeeps
<1>8. QED
  BY <1>2, <1>3, <1>4, <1>5, <1>6, <1>7 DEF Call

LEMMA SendCheckKeeps == ASSUME IInv, IInv', UInv, NEW p \in Procs, SendCheck(p) PROVE UInv'
<1> DEFINE d == call[p].peer
<1>1. At(p, "send") /\ pc[p] = "send" /\ UNCHANGED <<proc, lists, call, walks, killed, late>>
  BY DEF SendCheck, At
<1>2. d \in Procs /\ d # p /\ call[p].op = "send"
  BY <1>1, Below DEF IInv, CallsFit, Fits, OpAt
<1>3. pc[p] \in Calling /\ UNCHANGED others
  BY <1>1 DEF Calling, walks
<1>4. CASE Gone(d) /\ Finish(p, "DSTDIED")
  <2>1. pc[d] \in Exiting
    BY <1>2, <1>4, GoneIsGone DEF Exiting
  <2>2. QED
    BY <1>1, <1>2, <1>3, <1>4, <2>1, FinishQuiet
<1>5. CASE ~Gone(d) /\ Goto(p, "sendto", {p, d}, <<DC>>) /\ UNCHANGED ret
  <2>1. owner[p] \in {p, NONE} /\ owner[d] \in {p, NONE}
    BY <1>1, <1>2, AtHas DEF UInv, AllHold, Holds
  <2>2. /\ pc'[p] = "sendto" /\ needs'[p] = <<DC>> /\ owner'[p] = p /\ owner'[d] = p
        /\ \A q \in Procs : q # p => pc'[q] = pc[q]
    <3>1. \A k \in {p, d} : owner[k] \in {p, NONE}
      BY <2>1
    <3>2. p \in {p, d} \cap Locks /\ d \in {p, d} \cap Locks
      BY <1>2 DEF Locks
    <3>3. QED
      BY <1>1, <1>5, <3>1, <3>2, GotoHolds DEF UInv
  <2>3. "sendto" \notin Exiting \cup {"gone", "sleep", "done", "send", "scan", "visit", "unbind"}
                        \cup Walking \cup Awake \cup Dozing
    BY DEF Exiting, Walking, Awake, Dozing
  <2>4. Holds(p)'
    BY <1>1, <2>2, <2>3 DEF Holds, Exiting
  <2>5. AllHold'
    BY <1>1, <1>5, <2>1, <2>4, GotoAll DEF UInv
  <2>6. Told(p)'
    BY <1>1, <1>2, <1>5, <2>2, <2>3, GoneIsGone DEF Told
  <2>7. Flagged(proc[p], "sendto", call[p])
    <3>1. Flagged(proc[p], "send", call[p])
      BY <1>1 DEF UInv, AllFlagged
    <3>2. QED
      BY <2>3, <3>1 DEF Flagged, Calling, Dozing, Awake, Exiting
  <2>8. pc[p] \notin Exiting
    BY <1>1 DEF Exiting
  <2>9. QED
    BY <1>1, <1>3, <1>5, <2>3, <2>5, <2>6, <2>7, <2>8, GotoQuiet
<1>6. QED
  BY <1>4, <1>5 DEF SendCheck

LEMMA ExitStartKeeps == ASSUME IInv, IInv', UInv, NEW p \in Procs, ExitStart(p) PROVE UInv'
<1>1. /\ pc[p] = "user" /\ Goto(p, "exit", {}, <<DC, p>>)
      /\ UNCHANGED <<proc, lists, call, ret, walks, late>>
  BY DEF ExitStart
<1>2. /\ pc'[p] = "exit" /\ needs'[p] = <<DC, p>>
      /\ \A q \in Procs : q # p => pc'[q] = pc[q]
  BY <1>1, GotoHolds DEF UInv
<1>3. "exit" \notin Walking \cup Awake \cup Dozing \cup Calling /\ pc[p] \notin Exiting
  BY <1>1 DEF Walking, Awake, Dozing, Calling, Exiting
<1>4. AllHold'
  <2>1. DC \in ToSet(<<DC, p>>) /\ p \in ToSet(<<DC, p>>)
    BY OrderedHas
  <2>2. Has(p, p)' /\ Has(p, DC)'
    BY <1>2, <2>1 DEF Has
  <2>3. Holds(p)'
    BY <1>2, <1>3, <2>2 DEF Holds
  <2>4. QED
    BY <1>1, <2>3, GotoAll DEF UInv
<1>5. Flagged(proc[p], "exit", call[p])
  <2>1. Flagged(proc[p], "user", call[p])
    BY <1>1 DEF UInv, AllFlagged
  <2>2. proc[p].sem >= -1 /\ proc[p].rts \subseteq {"WAITUNBIND"}
    BY <2>1 DEF Flagged
  <2>3. QED
    BY <1>3, <2>2 DEF Flagged
<1>6. Told(p)'
  BY <1>2, <1>3 DEF Told
<1>7. UNCHANGED <<others, lists, proc, late, call>> /\ \A q \in Procs \ {p} : ret'[q] = ret[q]
  BY <1>1 DEF walks
<1>8. "exit" \notin Walking \cup {"gone", "sleep"}
  BY DEF Walking
<1>9. QED
  BY <1>1, <1>3, <1>4, <1>5, <1>6, <1>7, <1>8, GotoQuiet

\* A sendrec under way is to another process.
LEMMA Asked ==
    ASSUME IInv, NEW p \in Procs, pc[p] = "sendrec"
    PROVE  call[p].peer \in Procs /\ call[p].peer # p /\ call[p].op = "sendrec"
<1>1. Fits(call[p], "sendrec", p)
  BY DEF IInv, CallsFit
<1>2. call[p].op = "sendrec"
  BY <1>1 DEF Fits, OpAt
<1>3. call[p].peer \in Procs /\ call[p].peer < p
  BY <1>1, <1>2 DEF Fits
<1>4. QED
  BY <1>2, <1>3, Below

LEMMA SendrecDiedKeeps == ASSUME IInv, IInv', UInv, NEW p \in Procs, SendrecDied(p) PROVE UInv'
<1>1. /\ pc[p] = "sendrec" /\ Gone(call[p].peer) /\ Finish(p, "DEADSRCDST")
      /\ UNCHANGED <<proc, lists, call, others, late>>
  BY DEF SendrecDied, At, walks
<1>2. call[p].peer \in Procs /\ call[p].peer # p /\ call[p].op = "sendrec"
  BY <1>1, Asked
<1>3. pc[p] \in Calling /\ pc[call[p].peer] \in Exiting
  BY <1>1, <1>2, GoneIsGone DEF Calling, Exiting
<1>4. QED
  BY <1>1, <1>2, <1>3, FinishQuiet

LEMMA UnbindNotBoundKeeps ==
    ASSUME IInv, IInv', UInv, NEW p \in Procs, UnbindNotBound(p) PROVE UInv'
<1>1. /\ pc[p] = "unbind" /\ Gone(call[p].peer) /\ Finish(p, "NOTBIND")
      /\ UNCHANGED <<proc, lists, call, others, late>>
  BY DEF UnbindNotBound, At, walks
<1>2. call[p].peer \in Procs /\ call[p].peer # p
  BY <1>1 DEF IInv, CallsFit, Fits, OpAt
<1>3. pc[p] \in Calling /\ pc[call[p].peer] \in Exiting
  BY <1>1, <1>2, GoneIsGone DEF Calling, Exiting
<1>4. QED
  BY <1>1, <1>2, <1>3, FinishQuiet

\* A thread that goes on with its call, and uses the mutexes it takes now.
LEMMA CallingOn ==
    ASSUME IInv, IInv', UInv, NEW p \in Procs, NEW l, NEW held, NEW want, Goto(p, l, held, want),
           UNCHANGED <<proc, lists, call, others, ret, late>>,
           pc[p] \in Calling, l \in {"check", "scan", "visit"},
           \A k \in held : owner[k] \in {p, NONE},
           l # "check" => p \in held \/ p \in ToSet(want)
    PROVE  UInv'
<1>1. /\ pc'[p] = l /\ needs'[p] = want /\ \A k \in held \cap Locks : owner'[k] = p
      /\ p \in Locks
  BY GotoHolds DEF UInv, Locks
<1>2. /\ l \notin Exiting \cup Walking \cup Awake \cup Dozing
                  \cup {"gone", "sleep", "done", "send", "sendto", "unbind", "exit", "user"}
      /\ l \in Calling /\ pc[p] \notin Exiting
  BY DEF Exiting, Walking, Awake, Dozing, Calling
<1>3. l # "check" => Has(p, p)'
  BY <1>1 DEF Has
<1>4. Holds(p)'
  BY <1>1, <1>2, <1>3 DEF Holds, Walking
<1>5. AllHold'
  BY <1>4, GotoAll DEF UInv
<1>6. Flagged(proc[p], l, call[p])
  <2>1. Flagged(proc[p], pc[p], call[p])
    BY DEF UInv, AllFlagged
  <2>2. proc[p].sem >= -1 /\ proc[p].rts = {}
    BY <2>1 DEF Flagged
  <2>3. l \notin {"gone", "unlist"}
    BY <1>2 DEF Walking
  <2>4. QED
    BY <1>2, <2>2, <2>3 DEF Flagged
<1>7. Told(p)'
  BY <1>1, <1>2 DEF Told
<1>8. QED
  BY <1>2, <1>5, <1>6, <1>7, GotoQuiet

LEMMA ReceiveSourceKeeps ==
    ASSUME IInv, IInv', UInv, NEW p \in Procs, ReceiveSource(p) PROVE UInv'
<1>1. /\ pc[p] = "source" /\ Goto(p, "check", {}, <<call[p].peer>>)
      /\ UNCHANGED <<proc, lists, call, others, ret, late>>
  BY DEF ReceiveSource, At, walks
<1>2. pc[p] \in Calling
  BY <1>1 DEF Calling
<1>3. QED
  BY <1>1, <1>2, CallingOn

LEMMA ReceiveCheckKeeps ==
    ASSUME IInv, IInv', UInv, NEW p \in Procs, ReceiveCheck(p) PROVE UInv'
<1>1. /\ pc[p] = "check" /\ UNCHANGED <<proc, lists, call, others, late>> /\ pc[p] \in Calling
  BY DEF ReceiveCheck, At, walks, Calling
<1>2. CASE Gone(call[p].peer)
  <2>1. call[p].peer \in Procs /\ call[p].op = "receive" /\ Finish(p, "SRCDIED")
    BY <1>1, <1>2 DEF IInv, CallsFit, Fits, OpAt, ReceiveCheck
  <2>2. pc[call[p].peer] = "gone"
    BY <1>2, <2>1, GoneIsGone
  <2>3. pc[call[p].peer] \in Exiting /\ call[p].peer # p
    BY <1>1, <2>2 DEF Exiting
  <2>4. QED
    BY <1>1, <2>1, <2>3, FinishQuiet
<1>3. CASE ~Gone(call[p].peer)
  <2>1. Goto(p, "scan", {}, <<p>>) /\ UNCHANGED ret
    BY <1>3 DEF ReceiveCheck
  <2>2. p \in ToSet(<<p>>)
    BY OrderedHas
  <2>3. QED
    BY <1>1, <2>1, <2>2, CallingOn
<1>4. QED
  BY <1>2, <1>3

LEMMA WakesUpKeeps == ASSUME IInv, IInv', UInv, NEW p \in Procs, WakesUp(p) PROVE UInv'
<1>1. pc[p] = "sleep" /\ UNCHANGED <<proc, lists, call, ret, others, late>>
  BY DEF WakesUp, walks
<1>2. PICK l \in Awake :
        /\ IF proc[p].sem >= 0 THEN l = "woken"
           ELSE (l = "expired" /\ call[p].timed) \/ (l = "signaled" /\ killed[p])
        /\ Goto(p, l, {}, IF call[p].both THEN Ordered(p, call[p].peer) ELSE <<p>>)
  BY DEF WakesUp
<1>3. l \in Dozing /\ l \notin Exiting \cup Walking \cup Calling \cup
          {"gone", "sleep", "done", "user", "send", "sendto", "sendrec", "scan", "visit", "unbind", "exit"}
  BY DEF Dozing, Awake, Exiting, Walking, Calling
<1>4. /\ pc'[p] = l /\ \A q \in Procs : q # p => pc'[q] = pc[q]
      /\ call[p].both => needs'[p] = Ordered(p, call[p].peer)
  BY <1>1, <1>2, GotoHolds DEF UInv
<1>5. Holds(p)'
  <2>1. call[p].both => Has(p, call[p].peer)'
    BY <1>1, <1>4, OrderedHas DEF Has
  <2>2. QED
    BY <1>1, <1>3, <1>4, <2>1 DEF Holds, Walking
<1>6. AllHold'
  BY <1>1, <1>2, <1>5, GotoAll DEF UInv
<1>7. Flagged(proc[p], "sleep", call[p]) /\ Told(p)
  BY <1>1 DEF UInv, AllFlagged, AllTold
<1>8. proc[p].sem < 0 => l # "woken"
  <2>1. proc[p].sem \in Int
    BY DEF IInv, DescsFit, Descriptors
  <2>2. QED
    BY <1>2, <2>1
<1>9. Flagged(proc[p], l, call[p])
  <2>1. "sleep" \in Dozing
    BY DEF Dozing
  <2>2. l \notin {"waiters", "init", "unlist"}
    BY <1>3 DEF Walking
  <2>3. PICK e, c : e = proc[p] /\ c = call[p]
    OBVIOUS
  <2>4. Flagged(e, l, c)
    BY <1>3, <1>7, <1>8, <2>1, <2>2, <2>3 DEF Flagged
  <2>5. QED
    BY <2>3, <2>4
<1>10. Told(p)'
  <2>1. "sleep" \in Dozing
    BY DEF Dozing
  <2>2. \A d \in Procs : (pc[d] \in Exiting => pc'[d] \in Exiting)
                      /\ (pc[d] \in Departed => pc'[d] \in Departed)
    BY <1>1, <1>4 DEF Exiting, Departed
  <2>3. QED
    BY <1>1, <1>3, <1>4, <1>7, <2>1, <2>2 DEF Told
<1>11. pc[p] \notin Exiting
  BY <1>1 DEF Exiting
<1>12. QED
  BY <1>1, <1>2, <1>3, <1>6, <1>9, <1>10, <1>11, GotoQuiet

LEMMA ReturnKeeps == ASSUME IInv, IInv', UInv, NEW p \in Procs, Return(p) PROVE UInv'
<1>1. /\ pc[p] = "done" /\ Goto(p, "user", {}, <<>>) /\ UNCHANGED <<proc, lists, others>>
      /\ call' = [call EXCEPT ![p] = NoCall] /\ ret' = [ret EXCEPT ![p] = "OK"]
      /\ late' = [late EXCEPT ![p] = FALSE]
  BY DEF Return, walks
<1>2. \A q \in Procs \ {p} :
          call'[q] = call[q] /\ ret'[q] = ret[q] /\ late'[q] = late[q] /\ others'[q] = others[q]
  BY <1>1 DEF IInv, CallsFit, RestTyped
<1>3. pc'[p] = "user" /\ \A q \in Procs \ {p} : Apart(p, q)
  BY <1>1, <1>2, GotoApart
<1>4. /\ "user" \notin Dozing \cup Calling \cup Walking \cup {"gone", "sleep", "sendto", "done"}
      /\ pc[p] \notin Exiting
  BY <1>1 DEF Dozing, Awake, Calling, Walking, Exiting
<1>5. Flagged(proc[p], "user", call'[p])
  <2>1. Flagged(proc[p], "done", call[p])
    BY <1>1 DEF UInv, AllFlagged
  <2>2. proc[p].sem >= -1 /\ proc[p].rts \subseteq {"WAITUNBIND"}
    BY <2>1 DEF Flagged
  <2>3. PICK c : c = call'[p]
    OBVIOUS
  <2>4. Flagged(proc[p], "user", c)
    BY <1>4, <2>2 DEF Flagged, Walking
  <2>5. QED
    BY <2>3, <2>4
<1>6. Told(p)'
  BY <1>3, <1>4 DEF Told
<1>7. Effects(p) /\ Own(p)'
  BY <1>1, <1>3, <1>4, <1>5, <1>6, Quiet
<1>8. AllHold'
  BY <1>1, <1>2, GoFree DEF UInv
<1>9. QED
  BY <1>7, <1>8, StepKeeps

-----------------------------------------------------------------------------
(* Steps that put a thread to sleep *)

LEMMA Undisturbed ==
    ASSUME NEW p \in Procs, \A q \in Procs \ {p} : proc'[q] = proc[q]
    PROVE  \A q \in Procs \ {p} : Unlinked(p, q) /\ Struck(proc[q], proc'[q], pc[q], p, pc'[p])
BY DEF Unlinked, Struck

\* Who goes on with a call is in no list.
LEMMA Unlisted ==
    ASSUME IInv, UInv, NEW p \in Procs, pc[p] \in Calling
    PROVE  /\ proc[p].rts = {} /\ proc[p] \in Descriptors
           /\ \A d \in Procs : p \notin ToSet(p_list[d]) /\ p \notin ToSet(p_ulist[d])
<1>1. Flagged(proc[p], pc[p], call[p]) /\ proc[p] \in Descriptors
  BY DEF UInv, AllFlagged, IInv, DescsFit
<1>2. proc[p].rts = {}
  BY <1>1 DEF Flagged
<1>3. QED
  BY <1>1, <1>2 DEF UInv, AllQueued, Queued, AllWaited, Waited

LEMMA SleepFields ==
    ASSUME NEW d \in Descriptors, NEW e, e = [d EXCEPT !.sem = -1, !.rcode = "OK"]
    PROVE  /\ e.rts = d.rts /\ e.sendto = d.sendto /\ e.getfrom = d.getfrom
           /\ e.waitunbind = d.waitunbind /\ e.sem = -1 /\ e.rcode = "OK"
BY DEF Descriptors

\* A thread that goes to sleep, with what it will be woken by.
LEMMA SleepKeeps ==
    ASSUME IInv, IInv', UInv, NEW p \in Procs, pc[p] \in Calling, pc'[p] = "sleep",
           \A q \in Procs \ {p} : /\ Apart(p, q) /\ Unlinked(p, q)
                                  /\ Struck(proc[q], proc'[q], pc[q], p, pc'[p]),
           Queues(p), Unbinders(p), p_list'[p] = p_list[p], AllHold',
           call'[p].op \in {"send", "sendrec", "receive", "unbind"},
           proc'[p].sem = -1, proc'[p].rcode = "OK",
           proc'[p].rts \subseteq FlagsOf(call'[p].op), LastFlag(call'[p].op) \in proc'[p].rts,
           "SENDING" \in proc'[p].rts => proc'[p].sendto = call'[p].peer /\ call'[p].both,
           "RECEIVING" \in proc'[p].rts => proc'[p].getfrom = call'[p].peer,
           "WAITUNBIND" \in proc'[p].rts => proc'[p].waitunbind = call'[p].peer,
           \A d \in Procs : p \in ToSet(p_list'[d]) <=>
               "SENDING" \in proc'[p].rts /\ call'[p].peer = d,
           \A v \in Procs : p \in ToSet(p_ulist'[v]) <=>
               "WAITUNBIND" \in proc'[p].rts /\ call'[p].peer = v,
           \A d \in Procs : call'[p].peer = d =>
               IF "SENDING" \in proc'[p].rts
               THEN ~Flushed(d)' \/ (late'[p] /\ call'[p].op = "sendrec")
               ELSE "RECEIVING" \in proc'[p].rts => late'[p] \/ ~Passed(d, p)'
    PROVE  UInv'
<1>1. /\ "sleep" \in Dozing
      /\ "sleep" \notin Calling \cup Walking \cup Exiting
                        \cup {"user", "done", "unlist", "gone", "waiters", "init", "sendto", "flush"}
      /\ pc[p] \notin Exiting
  BY DEF Dozing, Calling, Walking, Exiting
<1>2. Flagged(proc'[p], pc'[p], call'[p])
  <2>1. PICK d, c : d = proc'[p] /\ c = call'[p]
    OBVIOUS
  <2>2. /\ d.sem = -1 /\ d.rcode = "OK" /\ c.op \in {"send", "sendrec", "receive", "unbind"}
        /\ d.rts \subseteq FlagsOf(c.op) /\ LastFlag(c.op) \in d.rts
        /\ "SENDING" \in d.rts => d.sendto = c.peer /\ c.both
        /\ "RECEIVING" \in d.rts => d.getfrom = c.peer
        /\ "WAITUNBIND" \in d.rts => d.waitunbind = c.peer
    BY <2>1
  <2>3. Flagged(d, "sleep", c)
    BY <1>1, <2>2 DEF Flagged
  <2>4. QED
    BY <2>1, <2>3
<1>3. Told(p)'
  BY <1>1 DEF Told
<1>4. \A d \in Procs : Reached(p, d)'
  <2> SUFFICES ASSUME NEW d \in Procs, call'[p].peer = d PROVE Reached(p, d)'
    BY DEF Reached, AsleepOn
  <2>1. CASE "SENDING" \in proc'[p].rts
    BY <2>1 DEF Reached
  <2>2. CASE "SENDING" \notin proc'[p].rts
    BY <2>2 DEF Reached
  <2>3. QED
    BY <2>1, <2>2
<1>5. Own(p)'
  <2>1. /\ \A d \in Procs : p \in ToSet(p_list'[d]) =>
              "SENDING" \in proc'[p].rts /\ proc'[p].sendto = d
        /\ \A v \in Procs : p \in ToSet(p_ulist'[v]) <=>
              "WAITUNBIND" \in proc'[p].rts /\ proc'[p].waitunbind = v
    <3>1. /\ "SENDING" \in proc'[p].rts => proc'[p].sendto = call'[p].peer
          /\ "WAITUNBIND" \in proc'[p].rts => proc'[p].waitunbind = call'[p].peer
      OBVIOUS
    <3>2. QED
      BY <3>1
  <2>2. QED
    BY <1>1, <1>2, <1>3, <1>4, <2>1 DEF Own
<1>6. Onwards(p)
  BY <1>1, InsideOnwards
<1>7. Effects(p)
  BY <1>6 DEF Effects
<1>8. QED
  BY <1>5, <1>7, StepKeeps

\* p sends to d, which is still to come to its queue unless p has not looked.
LEMMA QueueKeeps ==
    ASSUME IInv, IInv', UInv, NEW p \in Procs, pc[p] \in Calling, NEW d \in Procs \ {p},
           NEW flags \in SUBSET {"SENDING", "RECEIVING"}, Queue(p, d, flags),
           UNCHANGED <<p_ulist, call, walks, killed, ret>>,
           call[p].op \in {"send", "sendrec"}, flags = FlagsOf(call[p].op), call[p].peer = d,
           call[p].both, Flushed(d) => call[p].op = "sendrec"
    PROVE  UInv'
<1>1. PICK g : g = [Set(proc[p], flags) EXCEPT !.sendto = d,
                       !.getfrom = IF "RECEIVING" \in flags THEN d ELSE @]
  OBVIOUS
<1>2. PICK f : f = [g EXCEPT !.sem = -1, !.rcode = "OK"]
  OBVIOUS
<1>3. /\ proc' = [proc EXCEPT ![p] = f] /\ late' = [late EXCEPT ![p] = Flushed(d)]
      /\ Goto(p, "sleep", {}, <<>>) /\ p_list' = [p_list EXCEPT ![d] = Append(@, p)]
  BY <1>1, <1>2 DEF Queue, Sleep
<1>4. /\ proc[p].rts = {} /\ proc[p] \in Descriptors
      /\ \A q \in Procs : p \notin ToSet(p_list[q]) /\ p \notin ToSet(p_ulist[q])
  BY Unlisted
<1>5. /\ g \in Descriptors /\ g.rts = flags /\ g.sendto = d
      /\ "RECEIVING" \in flags => g.getfrom = d
  BY <1>1, <1>4 DEF Set, Descriptors, RtsFlags
<1>6. /\ f.rts = flags /\ f.sendto = d /\ ("RECEIVING" \in flags => f.getfrom = d)
      /\ f.sem = -1 /\ f.rcode = "OK"
  <2>1. g \in Descriptors
    BY <1>5
  <2>2. /\ f.rts = g.rts /\ f.sendto = g.sendto /\ f.getfrom = g.getfrom
        /\ f.sem = -1 /\ f.rcode = "OK"
    BY <1>2, <2>1, SleepFields
  <2>3. QED
    BY <1>5, <2>2
<1>7. /\ proc'[p] = f /\ late'[p] = Flushed(d) /\ call' = call
      /\ \A q \in Procs \ {p} : proc'[q] = proc[q] /\ late'[q] = late[q]
  BY <1>3 DEF IInv, DescsFit, RestTyped
<1>8. pc'[p] = "sleep" /\ \A q \in Procs \ {p} : Apart(p, q)
  BY <1>3, <1>7, GotoApart DEF walks
<1>9. AllHold'
  BY <1>3, GoFree DEF UInv
<1>10. /\ p_list'[d] = Append(p_list[d], p) /\ \A q \in Procs \ {d} : p_list'[q] = p_list[q]
       /\ IsInjective(p_list[d]) /\ p_list[d] \in Seq(Procs)
  BY <1>3 DEF IInv, ListsFit, UInv, AllQueued, Queued
<1>11. ToSet(p_list'[d]) = ToSet(p_list[d]) \cup {p}
  BY <1>4, <1>10, AppendExact
<1>12. Queues(p) /\ Unbinders(p)
  BY <1>4, <1>10 DEF Queues, Unbinders
<1>13. \A q \in Procs \ {p} : Unlinked(p, q) /\ Struck(proc[q], proc'[q], pc[q], p, pc'[p])
  BY <1>7, Undisturbed
<1>14. \A q \in Procs : p \in ToSet(p_list'[q]) <=> q = d
  BY <1>4, <1>10, <1>11
<1>15. /\ "SENDING" \in flags /\ "WAITUNBIND" \notin flags /\ LastFlag(call[p].op) \in flags
  BY DEF FlagsOf, LastFlag
<1>16. Flushed(d)' => late'[p] /\ call'[p].op = "sendrec"
  BY <1>7, <1>8 DEF Flushed, Apart
<1>17. /\ \A q \in Procs : p \in ToSet(p_list'[q]) <=>
              "SENDING" \in proc'[p].rts /\ call'[p].peer = q
       /\ \A v \in Procs : p \in ToSet(p_ulist'[v]) <=>
              "WAITUNBIND" \in proc'[p].rts /\ call'[p].peer = v
  BY <1>4, <1>6, <1>7, <1>14, <1>15
<1>18. \A q \in Procs : call'[p].peer = q =>
               IF "SENDING" \in proc'[p].rts
               THEN ~Flushed(q)' \/ (late'[p] /\ call'[p].op = "sendrec")
               ELSE "RECEIVING" \in proc'[p].rts => late'[p] \/ ~Passed(q, p)'
  BY <1>6, <1>7, <1>15, <1>16
<1>19. /\ call'[p].op \in {"send", "sendrec", "receive", "unbind"}
       /\ proc'[p].sem = -1 /\ proc'[p].rcode = "OK"
       /\ proc'[p].rts \subseteq FlagsOf(call'[p].op) /\ LastFlag(call'[p].op) \in proc'[p].rts
       /\ "SENDING" \in proc'[p].rts => proc'[p].sendto = call'[p].peer /\ call'[p].both
       /\ "RECEIVING" \in proc'[p].rts => proc'[p].getfrom = call'[p].peer
       /\ "WAITUNBIND" \in proc'[p].rts => proc'[p].waitunbind = call'[p].peer
       /\ p_list'[p] = p_list[p]
  BY <1>6, <1>7, <1>10, <1>15
<1>20. QED
  BY <1>8, <1>9, <1>12, <1>13, <1>17, <1>18, <1>19, SleepKeeps

LEMMA SendBlockKeeps == ASSUME IInv, IInv', UInv, NEW p \in Procs, SendBlock(p) PROVE UInv'
<1> DEFINE d == call[p].peer
<1>1. /\ At(p, "sendto") /\ pc[p] = "sendto" /\ Queue(p, d, {"SENDING"})
      /\ UNCHANGED <<p_ulist, call, walks, killed, ret>>
  BY DEF SendBlock, At
<1>2. d \in Procs /\ d # p /\ call[p].op = "send"
  BY <1>1, Below DEF IInv, CallsFit, Fits, OpAt
<1>3. /\ needs[p] = <<DC>> /\ pc[d] # "gone"
      /\ Flagged(proc[p], "sendto", call[p])
  BY <1>1 DEF UInv, AllHold, Holds, AllTold, Told, AllFlagged
<1>4. call[p].both
  BY <1>3 DEF Flagged
<1>5. pc[d] \notin Walking
  <2>1. DC \in ToSet(<<DC>>)
    BY OrderedHas
  <2>2. Has(p, DC)
    BY <1>3, <2>1 DEF Has
  <2>3. QED
    BY <1>1, <1>2, <2>2, NobodyWalks DEF UInv
<1>6. ~Flushed(d)
  BY <1>3, <1>5 DEF Flushed, Walking
<1>7. {"SENDING"} = FlagsOf(call[p].op) /\ {"SENDING"} \in SUBSET {"SENDING", "RECEIVING"}
  BY <1>2 DEF FlagsOf
<1>8. pc[p] \in Calling
  BY <1>1 DEF Calling
<1>9. QED
  BY <1>1, <1>2, <1>4, <1>6, <1>7, <1>8, QueueKeeps

LEMMA SendrecQueueKeeps ==
    ASSUME IInv, IInv', UInv, NEW p \in Procs, SendrecQueue(p) PROVE UInv'
<1> DEFINE d == call[p].peer
<1>1. /\ pc[p] = "sendrec" /\ Queue(p, d, {"SENDING", "RECEIVING"})
      /\ UNCHANGED <<p_ulist, call, walks, killed, ret>>
  BY DEF SendrecQueue, At
<1>2. d \in Procs /\ d # p /\ call[p].op = "sendrec"
  BY <1>1, Asked
<1>3. call[p].both
  <2>1. Flagged(proc[p], "sendrec", call[p])
    BY <1>1 DEF UInv, AllFlagged
  <2>2. QED
    BY <2>1 DEF Flagged
<1>4. /\ {"SENDING", "RECEIVING"} = FlagsOf(call[p].op)
      /\ {"SENDING", "RECEIVING"} \in SUBSET {"SENDING", "RECEIVING"}
  BY <1>2 DEF FlagsOf
<1>5. pc[p] \in Calling
  BY <1>1 DEF Calling
<1>6. QED
  BY <1>1, <1>2, <1>3, <1>4, <1>5, QueueKeeps

LEMMA ReceiveBlockKeeps ==
    ASSUME IInv, IInv', UInv, NEW p \in Procs, pc[p] \in Calling, call[p].op = "receive",
           ReceiveBlock(p), UNCHANGED <<lists, call, others, killed>>
    PROVE  UInv'
<1>1. PICK s : s = call[p].peer
  OBVIOUS
<1>2. PICK g : g = [Set(proc[p], {"RECEIVING"}) EXCEPT !.getfrom = s]
  OBVIOUS
<1>3. PICK f : f = [g EXCEPT !.sem = -1, !.rcode = "OK"]
  OBVIOUS
<1>4. PICK isLate : isLate = (s # ANY /\ Passed(s, p))
  OBVIOUS
<1>5. /\ proc' = [proc EXCEPT ![p] = f] /\ late' = [late EXCEPT ![p] = isLate]
      /\ Goto(p, "sleep", {}, <<>>) /\ UNCHANGED ret
  BY <1>1, <1>2, <1>3, <1>4 DEF ReceiveBlock, Sleep
<1>6. /\ proc[p].rts = {} /\ proc[p] \in Descriptors
      /\ \A q \in Procs : p \notin ToSet(p_list[q]) /\ p \notin ToSet(p_ulist[q])
  BY Unlisted
<1>7. s \in Procs \cup {ANY, NONE}
  BY <1>1 DEF IInv, CallsFit, CallRecords
<1>8. g \in Descriptors /\ g.rts = {"RECEIVING"} /\ g.getfrom = s
  BY <1>2, <1>6, <1>7 DEF Set, Descriptors, RtsFlags
<1>9. f.rts = {"RECEIVING"} /\ f.getfrom = s /\ f.sem = -1 /\ f.rcode = "OK"
  BY <1>3, <1>8, SleepFields
<1>10. /\ proc'[p] = f /\ late'[p] = isLate /\ call' = call /\ p_list' = p_list /\ p_ulist' = p_ulist
       /\ \A q \in Procs \ {p} : proc'[q] = proc[q] /\ late'[q] = late[q]
  BY <1>5 DEF IInv, DescsFit, RestTyped, lists
<1>11. pc'[p] = "sleep" /\ \A q \in Procs \ {p} : Apart(p, q)
  BY <1>5, <1>10, GotoApart
<1>12. AllHold'
  BY <1>5, GoFree DEF UInv
<1>13. Queues(p) /\ Unbinders(p)
  BY <1>10 DEF Queues, Unbinders
<1>14. \A q \in Procs \ {p} : Unlinked(p, q) /\ Struck(proc[q], proc'[q], pc[q], p, pc'[p])
  BY <1>10, Undisturbed
<1>15. \A d \in Procs : call'[p].peer = d => late'[p] \/ ~Passed(d, p)'
  <2> SUFFICES ASSUME NEW d \in Procs, s = d, Passed(d, p)' PROVE late'[p]
    BY <1>1, <1>10
  <2>1. d # p /\ s # ANY
    BY <1>11, NamesAssumption DEF Passed, Flushed
  <2>2. Passed(s, p)
    BY <1>11, <2>1 DEF Passed, Flushed, Apart
  <2>3. QED
    BY <1>4, <1>10, <2>1, <2>2
<1>16. /\ \A q \in Procs : p \in ToSet(p_list'[q]) <=>
              "SENDING" \in proc'[p].rts /\ call'[p].peer = q
       /\ \A v \in Procs : p \in ToSet(p_ulist'[v]) <=>
              "WAITUNBIND" \in proc'[p].rts /\ call'[p].peer = v
  BY <1>6, <1>9, <1>10
<1>17. \A q \in Procs : call'[p].peer = q =>
               IF "SENDING" \in proc'[p].rts
               THEN ~Flushed(q)' \/ (late'[p] /\ call'[p].op = "sendrec")
               ELSE "RECEIVING" \in proc'[p].rts => late'[p] \/ ~Passed(q, p)'
  BY <1>9, <1>10, <1>15
<1>18. /\ call'[p].op \in {"send", "sendrec", "receive", "unbind"}
       /\ proc'[p].sem = -1 /\ proc'[p].rcode = "OK"
       /\ proc'[p].rts \subseteq FlagsOf(call'[p].op) /\ LastFlag(call'[p].op) \in proc'[p].rts
       /\ "SENDING" \in proc'[p].rts => proc'[p].sendto = call'[p].peer /\ call'[p].both
       /\ "RECEIVING" \in proc'[p].rts => proc'[p].getfrom = call'[p].peer
       /\ "WAITUNBIND" \in proc'[p].rts => proc'[p].waitunbind = call'[p].peer
       /\ p_list'[p] = p_list[p]
  BY <1>1, <1>9, <1>10 DEF FlagsOf, LastFlag
<1>19. QED
  BY <1>11, <1>12, <1>13, <1>14, <1>16, <1>17, <1>18, SleepKeeps

LEMMA ScanKeeps ==
    ASSUME IInv, IInv', UInv, NEW p \in Procs, NEW l \in {"scan", "visit"}, At(p, l),
           NEW xs, Scan(p, xs), UNCHANGED <<lists, call, others, killed>>
    PROVE  UInv'
<1>1. pc[p] = l /\ pc[p] \in Calling /\ call[p].op = "receive" /\ Has(p, p)
  BY DEF At, Calling, IInv, CallsFit, Fits, OpAt, UInv, AllHold, Holds
<1>2. CASE xs = <<>>
  BY <1>1, <1>2, ReceiveBlockKeeps DEF Scan
<1>3. CASE xs # <<>>
  <2>1. Goto(p, "visit", {p}, <<Head(xs)>>) /\ UNCHANGED <<proc, ret, late>>
    BY <1>3 DEF Scan
  <2>2. \A k \in {p} : owner[k] \in {p, NONE}
    BY <1>1, AtHas
  <2>3. QED
    BY <1>1, <2>1, <2>2, CallingOn
<1>4. QED
  BY <1>2, <1>3

LEMMA ReceiveScanKeeps == ASSUME IInv, IInv', UInv, NEW p \in Procs, ReceiveScan(p) PROVE UInv'
BY ScanKeeps DEF ReceiveScan

LEMMA WakeRts ==
    ASSUME NEW d \in Descriptors, NEW rc \in Rcodes
    PROVE  Wake(d, rc) \in Descriptors /\ Wake(d, rc).rts = d.rts
<1>1. CASE d.rts = {}
  <2>1. PICK e : e = Up(d, rc)
    OBVIOUS
  <2>2. e \in Descriptors /\ e.rts = d.rts
    BY <2>1, UpFields
  <2>3. Wake(d, rc) = e
    BY <1>1, <2>1 DEF Wake
  <2>4. QED
    BY <2>2, <2>3
<1>2. CASE d.rts # {}
  BY <1>2 DEF Wake
<1>3. QED
  BY <1>1, <1>2

\* q gets what it waits for.
LEMMA Delivered ==
    ASSUME IInv, NEW p \in Procs, NEW q \in Procs, Waits(proc[q], p),
           proc'[q] = Wake(EndReceive(proc[q]), "OK")
    PROVE  Unlinked(p, q) /\ Struck(proc[q], proc'[q], pc[q], p, pc'[p])
<1>1. proc[q] \in Descriptors /\ "OK" \in Rcodes
  BY DEF IInv, DescsFit, Rcodes
<1>2. PICK f : f = EndReceive(proc[q])
  OBVIOUS
<1>3. f \in Descriptors /\ f.rts = proc[q].rts \ {"RECEIVING"}
  BY <1>1, <1>2, EndFields
<1>4. proc'[q].rts = f.rts
  BY <1>1, <1>2, <1>3, WakeRts
<1>5. \A b \in {"SENDING", "WAITUNBIND"} : b \in proc[q].rts => b \in proc'[q].rts
  BY <1>3, <1>4
<1>6. Unlinked(p, q)
  BY <1>5 DEF Unlinked
<1>7. Struck(proc[q], proc'[q], pc[q], p, pc'[p])
  BY DEF Struck
<1>8. QED
  BY <1>6, <1>7

LEMMA WaitsDozing ==
    ASSUME IInv, UInv, NEW q \in Procs, NEW p, Waits(proc[q], p)
    PROVE  pc[q] \in Dozing /\ ~Flushed(q)
<1>1. proc[q] \in Descriptors /\ pc[q] \in PcValues /\ Flagged(proc[q], pc[q], call[q])
  BY DEF IInv, DescsFit, MutexesFit, UInv, AllFlagged
<1>2. PICK d, l, c : d = proc[q] /\ l = pc[q] /\ c = call[q]
  OBVIOUS
<1>3. "RECEIVING" \in d.rts
  BY <1>2 DEF Waits
<1>4. l \in Dozing
  BY <1>1, <1>2, <1>3, DozingFlags
<1>5. QED
  BY <1>2, <1>4 DEF Dozing, Awake, Flushed

LEMMA SendrecDeliverKeeps ==
    ASSUME IInv, IInv', UInv, NEW p \in Procs, SendrecDeliver(p) PROVE UInv'
<1>1. PICK d : d = call[p].peer
  OBVIOUS
<1>2. /\ pc[p] = "sendrec" /\ Waits(proc[d], p) /\ Goto(p, "sleep", {}, <<>>)
      /\ call' = [call EXCEPT ![p].both = FALSE] /\ UNCHANGED <<lists, walks, killed, ret, late>>
      /\ proc' = [proc EXCEPT ![d] = Wake(EndReceive(@), "OK"),
                    ![p] = [Set(@, {"RECEIVING"}) EXCEPT !.getfrom = d, !.sem = -1, !.rcode = "OK"]]
  BY <1>1 DEF SendrecDeliver, At
<1>3. d \in Procs /\ d # p /\ call[p].op = "sendrec" /\ pc[p] \in Calling
  BY <1>1, <1>2, Asked DEF Calling
<1>4. PICK g : g = [Set(proc[p], {"RECEIVING"}) EXCEPT !.getfrom = d]
  OBVIOUS
<1>5. PICK f : f = [g EXCEPT !.sem = -1, !.rcode = "OK"]
  OBVIOUS
<1>6. /\ proc[p].rts = {} /\ proc[p] \in Descriptors
      /\ \A q \in Procs : p \notin ToSet(p_list[q]) /\ p \notin ToSet(p_ulist[q])
  BY <1>3, Unlisted
<1>7. g \in Descriptors /\ g.rts = {"RECEIVING"} /\ g.getfrom = d
  BY <1>3, <1>4, <1>6 DEF Set, Descriptors, RtsFlags
<1>8. f.rts = {"RECEIVING"} /\ f.getfrom = d /\ f.sem = -1 /\ f.rcode = "OK"
  BY <1>5, <1>7, SleepFields
<1>9. /\ proc'[p] = f /\ proc'[d] = Wake(EndReceive(proc[d]), "OK")
      /\ \A q \in Procs \ {p, d} : proc'[q] = proc[q]
  BY <1>2, <1>3, <1>4, <1>5 DEF IInv, DescsFit
<1>10. /\ call'[p].op = "sendrec" /\ call'[p].peer = d /\ late' = late
       /\ p_list' = p_list /\ p_ulist' = p_ulist
       /\ \A q \in Procs \ {p} : call'[q] = call[q]
  BY <1>1, <1>2, <1>3 DEF IInv, CallsFit, lists, CallRecords
<1>11. pc'[p] = "sleep" /\ \A q \in Procs \ {p} : Apart(p, q)
  BY <1>2, <1>10, GotoApart DEF walks
<1>12. AllHold'
  BY <1>2, <1>10, GoFree DEF UInv
<1>13. Queues(p) /\ Unbinders(p)
  BY <1>10 DEF Queues, Unbinders
<1>14. ASSUME NEW q \in Procs \ {p}
       PROVE  Unlinked(p, q) /\ Struck(proc[q], proc'[q], pc[q], p, pc'[p])
  <2>1. CASE q = d
    BY <1>2, <1>9, <2>1, Delivered
  <2>2. CASE q # d
    BY <1>9, <2>2 DEF Unlinked, Struck
  <2>3. QED
    BY <2>1, <2>2
<1>15. ~Passed(d, p)'
  <2>1. ~Flushed(d) /\ pc'[d] = pc[d]
    BY <1>2, <1>3, <1>11, WaitsDozing DEF Apart
  <2>2. QED
    BY <2>1 DEF Passed, Flushed
<1>16. /\ \A q \in Procs : p \in ToSet(p_list'[q]) <=>
              "SENDING" \in proc'[p].rts /\ call'[p].peer = q
       /\ \A v \in Procs : p \in ToSet(p_ulist'[v]) <=>
              "WAITUNBIND" \in proc'[p].rts /\ call'[p].peer = v
  BY <1>6, <1>8, <1>9, <1>10
<1>17. \A q \in Procs : call'[p].peer = q =>
               IF "SENDING" \in proc'[p].rts
               THEN ~Flushed(q)' \/ (late'[p] /\ call'[p].op = "sendrec")
               ELSE "RECEIVING" \in proc'[p].rts => late'[p] \/ ~Passed(q, p)'
  BY <1>8, <1>9, <1>10, <1>15
<1>18. /\ call'[p].op \in {"send", "sendrec", "receive", "unbind"}
       /\ proc'[p].sem = -1 /\ proc'[p].rcode = "OK"
       /\ proc'[p].rts \subseteq FlagsOf(call'[p].op) /\ LastFlag(call'[p].op) \in proc'[p].rts
       /\ "SENDING" \in proc'[p].rts => proc'[p].sendto = call'[p].peer /\ call'[p].both
       /\ "RECEIVING" \in proc'[p].rts => proc'[p].getfrom = call'[p].peer
       /\ "WAITUNBIND" \in proc'[p].rts => proc'[p].waitunbind = call'[p].peer
       /\ p_list'[p] = p_list[p]
  BY <1>8, <1>9, <1>10 DEF FlagsOf, LastFlag
<1>19. QED
  BY <1>3, <1>11, <1>12, <1>13, <1>14, <1>16, <1>17, <1>18, SleepKeeps

LEMMA UnbindWaitKeeps == ASSUME IInv, IInv', UInv, NEW p \in Procs, UnbindWait(p) PROVE UInv'
<1>1. PICK v : v = call[p].peer
  OBVIOUS
<1>2. /\ At(p, "unbind") /\ pc[p] = "unbind" /\ ~Gone(v) /\ Goto(p, "sleep", {}, <<>>)
      /\ proc' = [proc EXCEPT
                 ![v] = IF @.rts # {} THEN Up(@, "SHUTDOWN") ELSE @,
                 ![p] = [Set(@, {"WAITUNBIND"}) EXCEPT !.waitunbind = v,
                            !.sem = -1, !.rcode = "OK"]]
      /\ p_ulist' = [p_ulist EXCEPT ![v] = Append(@, p)]
      /\ UNCHANGED <<p_list, call, walks, ret, late>>
  BY <1>1 DEF UnbindWait, At
<1>3. v \in Procs /\ v # p /\ call[p].op = "unbind" /\ pc[p] \in Calling
  BY <1>1, <1>2 DEF IInv, CallsFit, Fits, OpAt, Calling
<1>4. PICK g : g = [Set(proc[p], {"WAITUNBIND"}) EXCEPT !.waitunbind = v]
  OBVIOUS
<1>5. PICK f : f = [g EXCEPT !.sem = -1, !.rcode = "OK"]
  OBVIOUS
<1>6. /\ proc[p].rts = {} /\ proc[p] \in Descriptors
      /\ \A q \in Procs : p \notin ToSet(p_list[q]) /\ p \notin ToSet(p_ulist[q])
  BY <1>3, Unlisted
<1>7. g \in Descriptors /\ g.rts = {"WAITUNBIND"} /\ g.waitunbind = v
  BY <1>3, <1>4, <1>6 DEF Set, Descriptors, RtsFlags
<1>8. f.rts = {"WAITUNBIND"} /\ f.waitunbind = v /\ f.sem = -1 /\ f.rcode = "OK"
  BY <1>5, <1>7, SleepFields
<1>9. /\ proc'[p] = f /\ proc'[v] = (IF proc[v].rts # {} THEN Up(proc[v], "SHUTDOWN") ELSE proc[v])
      /\ \A q \in Procs \ {p, v} : proc'[q] = proc[q]
  BY <1>2, <1>3, <1>4, <1>5 DEF IInv, DescsFit
<1>10. /\ call' = call /\ late' = late /\ p_list' = p_list
       /\ p_ulist'[v] = Append(p_ulist[v], p) /\ \A q \in Procs \ {v} : p_ulist'[q] = p_ulist[q]
       /\ IsInjective(p_ulist[v]) /\ p_ulist[v] \in Seq(Procs)
  BY <1>2, <1>3 DEF IInv, ListsFit, UInv, AllWaited, Waited
<1>11. pc'[p] = "sleep" /\ \A q \in Procs \ {p} : Apart(p, q)
  BY <1>2, <1>10, GotoApart DEF walks
<1>12. AllHold'
  BY <1>2, GoFree DEF UInv
<1>13. pc[v] \notin {"init", "gone"}
  <2>1. Has(p, DC) /\ pc[v] # "gone"
    BY <1>2, <1>3, GoneIsGone DEF UInv, AllHold, Holds
  <2>2. pc[v] \notin Walking
    BY <1>2, <1>3, <2>1, NobodyWalks DEF UInv
  <2>3. QED
    BY <2>1, <2>2 DEF Walking
<1>14. Queues(p) /\ Unbinders(p)
  BY <1>3, <1>6, <1>10, <1>13 DEF Queues, Unbinders
<1>15. ASSUME NEW q \in Procs \ {p}
       PROVE  Unlinked(p, q) /\ Struck(proc[q], proc'[q], pc[q], p, pc'[p])
  <2>1. CASE q # v \/ proc[q].rts = {}
    BY <1>9, <2>1 DEF Unlinked, Struck
  <2>2. CASE q = v /\ proc[q].rts # {}
    <3>1. proc'[q] = Up(proc[q], "SHUTDOWN")
      BY <1>9, <2>2
    <3>2. proc[q] \in Descriptors /\ "SHUTDOWN" \in Rcodes
      BY DEF IInv, DescsFit, Rcodes
    <3>3. proc'[q].rts = proc[q].rts
      BY <3>1, <3>2, UpFields
    <3>4. QED
      BY <2>2, <3>1, <3>3 DEF Unlinked, Struck
  <2>3. QED
    BY <2>1, <2>2
<1>16. ToSet(p_ulist'[v]) = ToSet(p_ulist[v]) \cup {p}
  BY <1>6, <1>10, <1>3, AppendExact
<1>17. /\ \A q \in Procs : p \in ToSet(p_list'[q]) <=>
              "SENDING" \in proc'[p].rts /\ call'[p].peer = q
       /\ \A u \in Procs : p \in ToSet(p_ulist'[u]) <=>
              "WAITUNBIND" \in proc'[p].rts /\ call'[p].peer = u
  <2>1. \A u \in Procs : p \in ToSet(p_ulist'[u]) <=> u = v
    BY <1>3, <1>6, <1>10, <1>16
  <2>2. call'[p].peer = v /\ proc'[p].rts = {"WAITUNBIND"} /\ p_list' = p_list
    BY <1>1, <1>8, <1>9, <1>10
  <2>3. QED
    BY <1>6, <2>1, <2>2
<1>18. \A q \in Procs : call'[p].peer = q =>
               IF "SENDING" \in proc'[p].rts
               THEN ~Flushed(q)' \/ (late'[p] /\ call'[p].op = "sendrec")
               ELSE "RECEIVING" \in proc'[p].rts => late'[p] \/ ~Passed(q, p)'
  BY <1>8, <1>9
<1>19. /\ call'[p].op \in {"send", "sendrec", "receive", "unbind"}
       /\ proc'[p].sem = -1 /\ proc'[p].rcode = "OK"
       /\ proc'[p].rts \subseteq FlagsOf(call'[p].op) /\ LastFlag(call'[p].op) \in proc'[p].rts
       /\ "SENDING" \in proc'[p].rts => proc'[p].sendto = call'[p].peer /\ call'[p].both
       /\ "RECEIVING" \in proc'[p].rts => proc'[p].getfrom = call'[p].peer
       /\ "WAITUNBIND" \in proc'[p].rts => proc'[p].waitunbind = call'[p].peer
       /\ p_list'[p] = p_list[p]
  BY <1>1, <1>3, <1>8, <1>9, <1>10 DEF FlagsOf, LastFlag
<1>20. QED
  BY <1>3, <1>11, <1>12, <1>14, <1>15, <1>17, <1>18, <1>19, SleepKeeps

-----------------------------------------------------------------------------
(* Steps that return *)

LEMMA DoneKeeps ==
    ASSUME IInv, IInv', UInv, NEW p \in Procs, NEW rc, Finish(p, rc), pc[p] \notin Exiting,
           UNCHANGED <<p_ulist, call, others, late>>, Queues(p),
           \A q \in Procs \ {p} : Unlinked(p, q) /\ Struck(proc[q], proc'[q], pc[q], p, "done"),
           \A q \in Procs \ {p} : q \in ToSet(p_list[p]) =>
               "SENDING" \notin proc'[q].rts \/ q \in ToSet(p_list'[p]),
           proc'[p].sem >= -1, proc'[p].rts \subseteq {"WAITUNBIND"},
           \A d \in Procs : p \notin ToSet(p_list'[d]),
           \A v \in Procs : p \in ToSet(p_ulist[v]) <=>
               "WAITUNBIND" \in proc'[p].rts /\ proc'[p].waitunbind = v,
           rc \in {"DSTDIED", "SRCDIED", "DEADSRCDST", "NOTBIND"} =>
               call[p].peer \in Procs /\ pc[call[p].peer] \in Exiting /\ call[p].peer # p,
           call[p].op = "unbind" /\ rc = "OK" =>
               call[p].peer \in Procs /\ pc[call[p].peer] \in Departed /\ call[p].peer # p
    PROVE  UInv'
<1>1. Goto(p, "done", {}, <<>>) /\ ret' = [ret EXCEPT ![p] = rc]
  BY DEF Finish
<1>2. ret'[p] = rc /\ \A q \in Procs \ {p} : ret'[q] = ret[q]
  BY <1>1 DEF IInv, RestTyped
<1>3. pc'[p] = "done" /\ \A q \in Procs \ {p} : Apart(p, q)
  BY <1>1, <1>2, GotoApart
<1>4. "done" \notin Dozing \cup Calling \cup Walking \cup Exiting
                    \cup {"gone", "sleep", "sendto", "unlist", "waiters", "init", "flush"}
  BY DEF Dozing, Awake, Calling, Walking, Exiting
<1>5. Flagged(proc'[p], pc'[p], call'[p])
  <2>1. PICK d, c : d = proc'[p] /\ c = call'[p]
    OBVIOUS
  <2>2. d.sem >= -1 /\ d.rts \subseteq {"WAITUNBIND"}
    BY <2>1
  <2>3. "done" \notin {"send", "sendto", "sendrec"}
    OBVIOUS
  <2>4. Flagged(d, "done", c)
    BY <1>4, <2>2, <2>3 DEF Flagged
  <2>5. QED
    BY <1>3, <2>1, <2>4
<1>6. Told(p)'
  <2>1. \A d \in Procs \ {p} : pc'[d] = pc[d]
    BY <1>3 DEF Apart
  <2>2. QED
    BY <1>2, <1>3, <1>4, <2>1 DEF Told
<1>7. \A d \in Procs : Reached(p, d)'
  BY <1>3 DEF Reached, AsleepOn
<1>8. Own(p)'
  BY <1>3, <1>4, <1>5, <1>6, <1>7 DEF Own
<1>9. Onwards(p)
  BY <1>3, <1>4, InsideOnwards
<1>10. Unbinders(p)
  BY DEF Unbinders
<1>11. \A q \in Procs \ {p} : Unlinked(p, q) /\ Struck(proc[q], proc'[q], pc[q], p, pc'[p])
  BY <1>3
<1>12. Effects(p)
  BY <1>3, <1>9, <1>10, <1>11 DEF Effects
<1>13. AllHold'
  BY FinishHolds DEF UInv
<1>14. QED
  BY <1>8, <1>12, <1>13, StepKeeps

LEMMA DeliverKeeps ==
    ASSUME IInv, IInv', UInv, NEW p \in Procs, pc[p] \in Calling, call[p].op # "unbind",
           NEW d \in Procs \ {p}, Waits(proc[d], p), NEW f \in Descriptors,
           proc' = [proc EXCEPT ![d] = Wake(EndReceive(@), "OK"), ![p] = f],
           f.rts = {}, f.sem = proc[p].sem, Finish(p, "OK"),
           UNCHANGED <<lists, call, others, late>>
    PROVE  UInv'
<1>1. /\ proc[p].rts = {} /\ proc[p] \in Descriptors
      /\ \A q \in Procs : p \notin ToSet(p_list[q]) /\ p \notin ToSet(p_ulist[q])
  BY Unlisted
<1>2. /\ proc'[p] = f /\ proc'[d] = Wake(EndReceive(proc[d]), "OK")
      /\ \A q \in Procs \ {p, d} : proc'[q] = proc[q]
  BY DEF IInv, DescsFit
<1>3. p_list' = p_list /\ p_ulist' = p_ulist
  BY DEF lists
<1>4. pc'[p] = "done"
  BY DEF Finish, Goto, IInv, MutexesFit
<1>5. ASSUME NEW q \in Procs \ {p}
      PROVE  Unlinked(p, q) /\ Struck(proc[q], proc'[q], pc[q], p, "done")
  <2>1. CASE q = d
    BY <1>2, <1>4, <2>1, Delivered
  <2>2. CASE q # d
    BY <1>2, <2>2 DEF Unlinked, Struck
  <2>3. QED
    BY <2>1, <2>2
<1>6. Queues(p)
  BY <1>3 DEF Queues
<1>7. proc'[p].sem >= -1 /\ proc'[p].rts \subseteq {"WAITUNBIND"}
  BY <1>2 DEF UInv, AllFlagged, Flagged
<1>8. \A v \in Procs : /\ p \notin ToSet(p_list'[v])
                       /\ p \in ToSet(p_ulist[v]) <=>
                             "WAITUNBIND" \in proc'[p].rts /\ proc'[p].waitunbind = v
  BY <1>1, <1>2, <1>3
<1>9. pc[p] \notin Exiting
  BY DEF Calling, Exiting
<1>10. QED
  BY <1>3, <1>5, <1>6, <1>7, <1>8, <1>9, DoneKeeps

LEMMA SendDeliverKeeps == ASSUME IInv, IInv', UInv, NEW p \in Procs, SendDeliver(p) PROVE UInv'
<1>1. PICK d : d = call[p].peer
  OBVIOUS
<1>2. /\ pc[p] = "sendto" /\ Waits(proc[d], p) /\ Finish(p, "OK")
      /\ proc' = [proc EXCEPT ![d] = Wake(EndReceive(@), "OK"), ![p].rcode = "OK"]
      /\ UNCHANGED <<lists, call, others, late>>
  BY <1>1 DEF SendDeliver, At, walks
<1>3. d \in Procs /\ d # p /\ call[p].op = "send" /\ pc[p] \in Calling
  BY <1>1, <1>2, Below DEF IInv, CallsFit, Fits, OpAt, Calling
<1>4. proc[p].rts = {} /\ proc[p] \in Descriptors
  BY <1>3, Unlisted
<1>5. PICK f : f = [proc[p] EXCEPT !.rcode = "OK"]
  OBVIOUS
<1>6. f \in Descriptors /\ f.rts = {} /\ f.sem = proc[p].sem
  BY <1>4, <1>5 DEF Descriptors, Rcodes
<1>7. proc' = [proc EXCEPT ![d] = Wake(EndReceive(@), "OK"), ![p] = f]
  BY <1>2, <1>3, <1>5 DEF IInv, DescsFit
<1>8. QED
  BY <1>2, <1>3, <1>6, <1>7, DeliverKeeps

LEMMA ReplyKeeps == ASSUME IInv, IInv', UInv, NEW p \in Procs, Reply(p) PROVE UInv'
<1>1. PICK d : d = call[p].peer
  OBVIOUS
<1>2. pc[p] = "reply" /\ UNCHANGED <<lists, call, others, late>>
  BY DEF Reply, At, walks
<1>3. d \in Procs /\ d # p /\ call[p].op = "reply" /\ pc[p] \in Calling
  BY <1>1, <1>2 DEF IInv, CallsFit, Fits, OpAt, Calling
<1>4. CASE Gone(d) /\ Finish(p, "DSTDIED") /\ UNCHANGED proc
  <2>1. pc[d] \in Exiting
    BY <1>3, <1>4, GoneIsGone DEF Exiting
  <2>2. QED
    BY <1>1, <1>2, <1>3, <1>4, <2>1, FinishQuiet
<1>5. CASE /\ Waits(proc[d], p) /\ proc' = [proc EXCEPT ![d] = Wake(EndReceive(@), "OK")]
           /\ Finish(p, "OK")
  <2>1. PICK f : f = proc[p]
    OBVIOUS
  <2>2. f \in Descriptors /\ f.rts = {} /\ f.sem = proc[p].sem
    BY <1>3, <2>1, Unlisted
  <2>3. proc' = [proc EXCEPT ![d] = Wake(EndReceive(@), "OK"), ![p] = f]
    BY <1>3, <1>5, <2>1 DEF IInv, DescsFit
  <2>4. QED
    BY <1>2, <1>3, <1>5, <2>2, <2>3, DeliverKeeps
<1>6. CASE Finish(p, "PROCSTS") /\ UNCHANGED proc
  BY <1>2, <1>3, <1>6, FinishQuiet
<1>7. QED
  BY <1>1, <1>4, <1>5, <1>6 DEF Reply

LEMMA ReceiveVisitKeeps ==
    ASSUME IInv, IInv', UInv, NEW p \in Procs, ReceiveVisit(p) PROVE UInv'
<1>1. PICK x : x = Head(left[p])
  OBVIOUS
<1>2. /\ At(p, "visit") /\ pc[p] = "visit" /\ pc[p] \in Calling
      /\ UNCHANGED <<p_ulist, call, others, killed>>
  BY DEF ReceiveVisit, At, Calling
<1>3. x \in Procs /\ x # p /\ call[p].op = "receive"
  <2>1. left[p] \in Seq(Above(p)) /\ left[p] # <<>> /\ call[p].op = "receive"
    BY <1>2 DEF IInv, WalksFit, CallsFit, Fits, OpAt
  <2>2. x \in Above(p)
    BY <1>1, <2>1, HeadTailProperties
  <2>3. QED
    BY <2>1, <2>2, Below DEF Above
<1>4. /\ p_list[p] \in Seq(Procs) /\ IsInjective(p_list[p])
      /\ \A q \in ToSet(p_list[p]) : "SENDING" \in proc[q].rts /\ proc[q].sendto = p
  BY DEF IInv, ListsFit, UInv, AllQueued, Queued
<1>5. CASE Scan(p, Tail(left[p])) /\ UNCHANGED p_list
  BY <1>2, <1>5, ScanKeeps DEF lists
<1>6. CASE /\ p_list' = [p_list EXCEPT ![p] = Without(@, x)] /\ UNCHANGED late
           /\ "SENDING" \in proc[x].rts /\ proc[x].sendto = p
           /\ proc' = [proc EXCEPT ![x] = Wake(EndSend(@), "OK")] /\ Finish(p, "OK")
  <2>1. /\ proc[p].rts = {} /\ proc[p] \in Descriptors
        /\ \A q \in Procs : p \notin ToSet(p_list[q]) /\ p \notin ToSet(p_ulist[q])
    BY <1>2, Unlisted
  <2>2. /\ p_list'[p] = Without(p_list[p], x) /\ \A q \in Procs \ {p} : p_list'[q] = p_list[q]
        /\ proc'[x] = Wake(EndSend(proc[x]), "OK") /\ \A q \in Procs \ {x} : proc'[q] = proc[q]
    BY <1>3, <1>6 DEF IInv, ListsFit, DescsFit
  <2>3. /\ "SENDING" \notin proc'[x].rts
        /\ "WAITUNBIND" \in proc[x].rts => "WAITUNBIND" \in proc'[x].rts
    <3>1. proc[x] \in Descriptors /\ "OK" \in Rcodes
      BY <1>3 DEF IInv, DescsFit, Rcodes
    <3>2. PICK f : f = EndSend(proc[x])
      OBVIOUS
    <3>3. f \in Descriptors /\ f.rts = proc[x].rts \ {"SENDING"}
      BY <3>1, <3>2, EndFields
    <3>4. proc'[x].rts = f.rts
      BY <2>2, <3>1, <3>2, <3>3, WakeRts
    <3>5. QED
      BY <3>3, <3>4
  <2>4. ASSUME NEW q \in Procs \ {p}
        PROVE  Unlinked(p, q) /\ Struck(proc[q], proc'[q], pc[q], p, "done")
    <3>1. CASE q = x
      <4>1. Unlinked(p, q)
        BY <2>2, <2>3, <3>1 DEF Unlinked
      <4>2. Struck(proc[q], proc'[q], pc[q], p, "done")
        BY <1>6, <2>2, <3>1 DEF Struck
      <4>3. QED
        BY <4>1, <4>2
    <3>2. CASE q # x
      BY <2>2, <3>2 DEF Unlinked, Struck
    <3>3. QED
      BY <3>1, <3>2
  <2>5. Queues(p)
    BY <1>3, <2>2 DEF Queues
  <2>6. ToSet(p_list'[p]) = ToSet(p_list[p]) \ {x}
    BY <1>4, <2>2, WithoutExact
  <2>7. \A q \in Procs \ {p} : q \in ToSet(p_list[p]) =>
               "SENDING" \notin proc'[q].rts \/ q \in ToSet(p_list'[p])
    BY <2>3, <2>6
  <2>8. proc'[p].sem >= -1 /\ proc'[p].rts \subseteq {"WAITUNBIND"}
    BY <1>3, <2>1, <2>2 DEF UInv, AllFlagged, Flagged
  <2>9. \A v \in Procs : p \notin ToSet(p_list'[v])
    BY <2>1, <2>2, <2>6
  <2>10. \A v \in Procs : p \in ToSet(p_ulist[v]) <=>
               "WAITUNBIND" \in proc'[p].rts /\ proc'[p].waitunbind = v
    BY <1>3, <2>1, <2>2
  <2>11. pc[p] \notin Exiting
    BY <1>2 DEF Exiting
  <2>12. QED
    BY <1>2, <1>3, <1>6, <2>4, <2>5, <2>7, <2>8, <2>9, <2>10, <2>11, DoneKeeps
<1>7. CASE /\ p_list' = [p_list EXCEPT ![p] = Without(@, x)] /\ UNCHANGED late
           /\ ~("SENDING" \in proc[x].rts /\ proc[x].sendto = p)
           /\ UNCHANGED proc /\ Finish(p, "PROCSTS")
  <2>1. x \notin ToSet(p_list[p])
    BY <1>4, <1>7
  <2>2. p_list' = p_list
    BY <1>7, <2>1 DEF Without, IInv, ListsFit
  <2>3. UNCHANGED lists
    BY <1>2, <2>2 DEF lists
  <2>4. QED
    BY <1>2, <1>3, <1>7, <2>3, FinishQuiet
<1>8. QED
  BY <1>1, <1>5, <1>6, <1>7 DEF ReceiveVisit

\* What a call that is over leaves of the descriptor.
LEMMA CleanedFields ==
    ASSUME NEW f \in Descriptors, NEW op \in {"send", "sendrec", "receive", "unbind"},
           f.rts \subseteq FlagsOf(op), NEW e, e = Cleaned(op, f)
    PROVE  /\ e.rts \subseteq {"WAITUNBIND"} /\ e.sem = f.sem /\ e.waitunbind = f.waitunbind
           /\ "WAITUNBIND" \in e.rts <=> "WAITUNBIND" \in f.rts
<1>1. PICK g, h, k : g = EndReceive(f) /\ h = EndSend(f) /\ k = EndSend(g)
  OBVIOUS
<1>2. g \in Descriptors /\ g.rts = f.rts \ {"RECEIVING"} /\ g.sem = f.sem /\ g.waitunbind = f.waitunbind
  BY <1>1, EndFields
<1>3. h.rts = f.rts \ {"SENDING"} /\ h.sem = f.sem /\ h.waitunbind = f.waitunbind
  BY <1>1, EndFields
<1>4. k.rts = g.rts \ {"SENDING"} /\ k.sem = g.sem /\ k.waitunbind = g.waitunbind
  BY <1>1, <1>2, EndFields
<1>5. CASE op = "send"
  BY <1>1, <1>3, <1>5 DEF FlagsOf, Cleaned
<1>6. CASE op = "receive"
  BY <1>1, <1>2, <1>6 DEF FlagsOf, Cleaned
<1>7. CASE op = "sendrec"
  BY <1>1, <1>2, <1>4, <1>7 DEF FlagsOf, Cleaned
<1>8. CASE op = "unbind"
  BY <1>8 DEF FlagsOf, Cleaned
<1>9. QED
  BY <1>5, <1>6, <1>7, <1>8

LEMMA CallDoneKeeps == ASSUME IInv, IInv', UInv, NEW p \in Procs, CallDone(p) PROVE UInv'
<1>1. PICK l \in Awake : At(p, l) /\ pc[p] = l
  BY DEF CallDone, At
<1>2. PICK rc, d, s, c, q : /\ rc = Result(p) /\ c = call[p] /\ q = call[p].peer
         /\ s = (IF rc # "OK" /\ proc[p].sem < 0 THEN proc[p].sem + 1 ELSE proc[p].sem)
         /\ d = [proc[p] EXCEPT !.rcode = "OK", !.sem = s]
  OBVIOUS
<1>3. PICK e : e = IF rc = "OK" THEN d ELSE Cleaned(c.op, d)
  OBVIOUS
<1>4. /\ proc' = [proc EXCEPT ![p] = e]
      /\ p_list' = IF rc # "OK" /\ "SENDING" \in d.rts
                   THEN [p_list EXCEPT ![q] = Without(@, p)] ELSE p_list
      /\ Finish(p, rc) /\ UNCHANGED <<p_ulist, call, others, late>>
  <2>1. d = [proc[p] EXCEPT !.rcode = "OK", !.sem = IF rc # "OK" /\ @ < 0 THEN @ + 1 ELSE @]
    BY <1>2
  <2>2. QED
    BY <1>2, <1>3, <2>1 DEF CallDone, walks
<1>5. /\ proc[p] \in Descriptors /\ Flagged(proc[p], l, c) /\ l \in Dozing
      /\ Told(p) /\ pc[p] \in Dozing
  BY <1>1, <1>2 DEF IInv, DescsFit, UInv, AllFlagged, AllTold, Dozing
<1>6. rc = "OK" => l = "woken" /\ proc[p].rts = {}
  <2> SUFFICES ASSUME rc = "OK" PROVE l = "woken" /\ proc[p].rts = {}
    OBVIOUS
  <2>1. l = "woken" /\ proc[p].rcode = "OK"
    BY <1>1, <1>2 DEF Result, Awake
  <2>2. proc[p].sem \in Int
    BY <1>5 DEF Descriptors
  <2>3. proc[p].sem >= 0
    BY <1>5, <2>1, <2>2 DEF Flagged
  <2>4. QED
    BY <1>5, <2>1, <2>3 DEF Flagged
<1>7. /\ d \in Descriptors /\ d.rts = proc[p].rts /\ d.waitunbind = proc[p].waitunbind
      /\ d.sem = s /\ s >= -1
  <2>1. s \in Int /\ s >= -1 /\ d = [proc[p] EXCEPT !.rcode = "OK", !.sem = s]
    BY <1>2, <1>5 DEF Descriptors, Flagged
  <2>2. QED
    BY <1>5, <2>1 DEF Descriptors, Rcodes
<1>8. /\ e.rts \subseteq {"WAITUNBIND"} /\ e.sem >= -1 /\ e.waitunbind = proc[p].waitunbind
      /\ "WAITUNBIND" \in e.rts <=> "WAITUNBIND" \in proc[p].rts
  <2>1. CASE rc = "OK"
    BY <1>3, <1>6, <1>7, <2>1
  <2>2. CASE rc # "OK"
    <3>1. e = Cleaned(c.op, d)
      BY <1>3, <2>2
    <3>2. /\ e.rts \subseteq {"WAITUNBIND"} /\ e.sem = s /\ e.waitunbind = proc[p].waitunbind
          /\ "WAITUNBIND" \in e.rts <=> "WAITUNBIND" \in proc[p].rts
      <4>1. /\ c.op \in {"send", "sendrec", "receive", "unbind"} /\ d.rts \subseteq FlagsOf(c.op)
        BY <1>5, <1>7 DEF Flagged
      <4>2. /\ e.rts \subseteq {"WAITUNBIND"} /\ e.sem = d.sem /\ e.waitunbind = d.waitunbind
            /\ "WAITUNBIND" \in e.rts <=> "WAITUNBIND" \in d.rts
        BY <1>7, <3>1, <4>1, CleanedFields
      <4>3. QED
        BY <1>7, <4>2
    <3>3. QED
      BY <1>7, <3>2
  <2>3. QED
    BY <2>1, <2>2
<1>9. proc'[p] = e /\ \A r \in Procs \ {p} : proc'[r] = proc[r]
  BY <1>4 DEF IInv, DescsFit
<1>10. \A r \in Procs \ {p} : Unlinked(p, r) /\ Struck(proc[r], proc'[r], pc[r], p, "done")
  BY <1>9 DEF Unlinked, Struck
<1>11. \A r \in Procs : p \in ToSet(p_list[r]) =>
           rc # "OK" /\ "SENDING" \in d.rts /\ r = q
  BY <1>2, <1>5, <1>6, <1>7 DEF UInv, AllQueued, Queued, Flagged
<1>12. Queues(p) /\ p_list'[p] = p_list[p] /\ \A r \in Procs : p \notin ToSet(p_list'[r])
  <2>1. CASE rc # "OK" /\ "SENDING" \in d.rts
    <3>1. c.both /\ q \in Procs \ {p}
      BY <1>2, <1>5, <1>7, <2>1 DEF Flagged, IInv, CallsFit, Fits
    <3>2. owner[q] \in {p, NONE}
      BY <1>1, <1>2, <3>1, AtHas DEF UInv, AllHold, Holds
    <3>3. pc[q] # "flush"
      BY <3>1, <3>2, NamesAssumption DEF UInv, AllHold, Holds
    <3>4. /\ p_list'[q] = Without(p_list[q], p) /\ \A r \in Procs \ {q} : p_list'[r] = p_list[r]
          /\ p_list[q] \in Seq(Procs) /\ IsInjective(p_list[q])
      BY <1>4, <2>1, <3>1 DEF IInv, ListsFit, UInv, AllQueued, Queued
    <3>5. ToSet(p_list'[q]) = ToSet(p_list[q]) \ {p}
      BY <3>4, WithoutExact
    <3>6. Queues(p)
      BY <3>1, <3>3, <3>4 DEF Queues
    <3>7. p_list'[p] = p_list[p] /\ \A r \in Procs : p \notin ToSet(p_list'[r])
      BY <1>11, <3>1, <3>4, <3>5
    <3>8. QED
      BY <3>6, <3>7
  <2>2. CASE ~(rc # "OK" /\ "SENDING" \in d.rts)
    <3>1. p_list' = p_list
      BY <1>4, <2>2
    <3>2. QED
      BY <1>11, <2>2, <3>1 DEF Queues
  <2>3. QED
    BY <2>1, <2>2
<1>13. \A v \in Procs : p \in ToSet(p_ulist[v]) <=>
           "WAITUNBIND" \in proc'[p].rts /\ proc'[p].waitunbind = v
  BY <1>8, <1>9 DEF UInv, AllWaited, Waited
<1>14. pc[p] \notin Exiting
  BY <1>1 DEF Awake, Exiting
<1>15. rc \in {"DSTDIED", "SRCDIED", "DEADSRCDST", "NOTBIND"} =>
          call[p].peer \in Procs /\ pc[call[p].peer] \in Exiting /\ call[p].peer # p
  <2>1. rc \in {"DSTDIED", "SRCDIED", "DEADSRCDST", "NOTBIND"} => rc = proc[p].rcode
    BY <1>2 DEF Result
  <2>2. QED
    BY <1>5, <1>14, <2>1 DEF Told
<1>16. call[p].op = "unbind" /\ rc = "OK" =>
          call[p].peer \in Procs /\ pc[call[p].peer] \in Departed /\ call[p].peer # p
  <2> SUFFICES ASSUME call[p].op = "unbind", rc = "OK"
               PROVE  call[p].peer \in Procs /\ pc[call[p].peer] \in Departed /\ call[p].peer # p
    OBVIOUS
  <2>1. proc[p].rcode = "OK"
    BY <1>1, <1>2 DEF Result, Awake
  <2>2. proc[p].sem >= 0
    BY <1>5, <1>6 DEF Flagged, Descriptors
  <2>3. call[p].peer \in Procs /\ pc[call[p].peer] \in Departed
    BY <1>5, <2>1, <2>2 DEF Told
  <2>4. QED
    BY <1>1, <2>3 DEF Awake, Departed
<1>17. QED
  BY <1>4, <1>8, <1>9, <1>10, <1>12, <1>13, <1>14, <1>15, <1>16, DoneKeeps

-----------------------------------------------------------------------------
(* Steps that leave *)

LEMMA LeavesMutexes ==
    ASSUME IInv, UInv, NEW p \in Procs, NEW l \in Walking \cup {"exit"}, At(p, l)
    PROVE  /\ owner[DC] \in {p, NONE} /\ owner[p] \in {p, NONE} /\ pc[p] = l
           /\ \A q \in Procs \ {p} : pc[q] \notin Walking
           /\ proc[p].rts \subseteq {"WAITUNBIND"} /\ proc[p].sem >= -1 /\ proc[p] \in Descriptors
           /\ \A d \in Procs : p \notin ToSet(p_list[d])
<1>1. pc[p] = l /\ Has(p, DC) /\ Has(p, p)
  BY DEF At, UInv, AllHold, Holds, Has
<1>2. owner[DC] \in {p, NONE} /\ owner[p] \in {p, NONE}
  BY <1>1, AtHas
<1>3. \A q \in Procs \ {p} : pc[q] \notin Walking
  BY <1>1, NobodyWalks DEF UInv
<1>4. l \in Exiting \ {"gone"}
  BY DEF Walking, Exiting
<1>5. proc[p].rts \subseteq {"WAITUNBIND"} /\ proc[p].sem >= -1 /\ proc[p] \in Descriptors
  <2>1. Flagged(proc[p], l, call[p]) /\ proc[p] \in Descriptors
    BY <1>1 DEF UInv, AllFlagged, IInv, DescsFit
  <2>2. QED
    BY <1>4, <2>1 DEF Flagged
<1>6. \A d \in Procs : p \notin ToSet(p_list[d])
  BY <1>5 DEF UInv, AllQueued, Queued
<1>7. QED
  BY <1>1, <1>2, <1>3, <1>5, <1>6

LEMMA LeavesApart ==
    ASSUME IInv, NEW p \in Procs, Leaving(p), Walks(p) \/ UNCHANGED others,
           UNCHANGED <<call, ret, late>>
    PROVE  pc'[p] \in Exiting /\ \A q \in Procs \ {p} : Apart(p, q)
<1>1. PICK l \in Exiting : pc' = [pc EXCEPT ![p] = l]
  BY DEF Leaving
<1>2. pc'[p] = l /\ \A q \in Procs \ {p} : pc'[q] = pc[q]
  BY <1>1 DEF IInv, MutexesFit
<1>3. \A q \in Procs \ {p} : others'[q] = others[q]
  <2>1. CASE UNCHANGED others
    BY <2>1
  <2>2. CASE Walks(p)
    <3>1. PICK rs \in SUBSET (Procs \ {p}) : others' = [others EXCEPT ![p] = rs]
      BY <2>2 DEF Walks
    <3>2. QED
      BY <3>1 DEF IInv, WalksFit
  <2>3. QED
    BY <2>1, <2>2
<1>4. QED
  BY <1>2, <1>3 DEF Apart

\* The flags of who leaves, at each of its loops.
LEMMA LeavingFlagged ==
    ASSUME NEW d, NEW l \in Walking, NEW c, d.sem >= -1, d.rts \subseteq {"WAITUNBIND"},
           l = "unlist" => "WAITUNBIND" \in d.rts,
           l \in {"waiters", "init"} => "WAITUNBIND" \notin d.rts
    PROVE  Flagged(d, l, c)
<1>1. /\ l \notin Calling \cup Dozing \cup {"user", "done", "gone", "send", "sendto", "sendrec"}
      /\ l \in Exiting
  BY DEF Walking, Calling, Dozing, Awake, Exiting
<1>2. QED
  BY <1>1 DEF Flagged

LEMMA LeaveKeeps ==
    ASSUME IInv, IInv', UInv, NEW p \in Procs, pc[p] \in Walking \cup {"exit"}, pc'[p] \in Exiting,
           \A q \in Procs \ {p} : Apart(p, q), AllHold',
           \A q \in Procs \ {p} : Unlinked(p, q) /\ Struck(proc[q], proc'[q], pc[q], p, pc'[p]),
           Queues(p), Unbinders(p), Onwards(p),
           Flagged(proc'[p], pc'[p], call'[p]), \A d \in Procs : p \notin ToSet(p_list'[d]),
           pc'[p] = "flush" => p_list'[p] # <<>>,
           \A v \in Procs : p \in ToSet(p_ulist'[v]) <=>
               "WAITUNBIND" \in proc'[p].rts /\ proc'[p].waitunbind = v,
           pc'[p] = "waiters" => p_ulist'[p] # <<>>,
           pc'[p] \in {"init", "gone"} => p_ulist'[p] = <<>>
    PROVE  UInv'
<1>1. Exiting \cap (Dozing \cup {"sleep", "sendto", "done"}) = {}
  BY DEF Exiting, Dozing, Awake
<1>2. Told(p)'
  BY <1>1 DEF Told
<1>3. \A d \in Procs : Reached(p, d)'
  BY <1>1 DEF Reached, AsleepOn
<1>4. Own(p)'
  BY <1>2, <1>3 DEF Own
<1>5. Effects(p)
  BY DEF Effects
<1>6. QED
  BY <1>4, <1>5, StepKeeps

\* Where a thread that walks goes.
LEMMA FlushOthers ==
    ASSUME IInv, NEW p \in Procs, NEW xs, Flush(p, xs)
    PROVE  IF xs = <<>> THEN others'[p] = Procs \ {p} ELSE others' = others
BY DEF Flush, Others, IInv, WalksFit

LEMMA OthersLeft ==
    ASSUME IInv, NEW p \in Procs, NEW rs, Others(p, rs)
    PROVE  others'[p] = rs
BY DEF Others, IInv, WalksFit

\* After the queue, where xs is left of it.
LEMMA FlushKeeps ==
    ASSUME IInv, IInv', UInv, NEW p \in Procs, NEW l \in {"exit", "flush"}, At(p, l),
           NEW xs \in Seq(Above(p)), Flush(p, xs), p_list'[p] = xs, ToSet(xs) \subseteq ToSet(p_list[p]),
           \A d \in Procs \ {p} : p_list'[d] = p_list[d], Queues(p), proc'[p] = proc[p],
           UNCHANGED <<p_ulist, call, ret, left, killed, late>>,
           \A q \in Procs \ {p} : /\ Unlinked(p, q)
                                  /\ \A k \in Exiting : Struck(proc[q], proc'[q], pc[q], p, k)
                                  /\ q \in ToSet(p_list[p]) =>
                                        "SENDING" \notin proc'[q].rts \/ q \in ToSet(xs)
    PROVE  UInv'
<1>1. /\ owner[DC] \in {p, NONE} /\ owner[p] \in {p, NONE} /\ pc[p] = l
      /\ proc[p].rts \subseteq {"WAITUNBIND"} /\ proc[p].sem >= -1
      /\ \A d \in Procs : p \notin ToSet(p_list[d])
  BY LeavesMutexes DEF Walking
<1>2. /\ AllHold'
      /\ IF xs # <<>> THEN pc'[p] = "flush"
         ELSE IF Procs \ {p} # {} THEN pc'[p] = "others"
         ELSE pc'[p] = IF "WAITUNBIND" \in proc[p].rts THEN "unlist"
                       ELSE IF p_ulist[p] = <<>> THEN "init" ELSE "waiters"
  BY <1>1, FlushHolds DEF UInv
<1>3. Leaving(p) /\ Walks(p)
  BY FlushFits DEF IInv
<1>4. pc'[p] \in Exiting /\ \A q \in Procs \ {p} : Apart(p, q)
  BY <1>3, LeavesApart
<1>5. pc'[p] \in Walking /\ pc[p] \in Walking \cup {"exit"}
  BY <1>1, <1>2 DEF Walking
<1>6. Flagged(proc'[p], pc'[p], call'[p])
  <2>1. PICK d, m, c : d = proc'[p] /\ m = pc'[p] /\ c = call'[p]
    OBVIOUS
  <2>2. /\ m \in Walking /\ d.sem >= -1 /\ d.rts \subseteq {"WAITUNBIND"}
        /\ m = "unlist" => "WAITUNBIND" \in d.rts
        /\ m \in {"waiters", "init"} => "WAITUNBIND" \notin d.rts
    BY <1>1, <1>2, <1>5, <2>1
  <2>3. QED
    BY <2>1, <2>2, LeavingFlagged
<1>7. \A d \in Procs : p \notin ToSet(p_list'[d])
  BY <1>1
<1>8. /\ pc'[p] = "flush" => p_list'[p] # <<>>
      /\ pc'[p] = "waiters" => p_ulist'[p] # <<>>
      /\ pc'[p] \in {"init", "gone"} => p_ulist'[p] = <<>>
  BY <1>2
<1>9. \A v \in Procs : p \in ToSet(p_ulist'[v]) <=>
               "WAITUNBIND" \in proc'[p].rts /\ proc'[p].waitunbind = v
  BY DEF UInv, AllWaited, Waited
<1>10. Onwards(p)
  <2>1. pc[p] \notin Departed /\ pc'[p] # "gone"
    BY <1>1, <1>5 DEF Departed, Walking
  <2>2. ASSUME NEW q \in Procs \ {p}, q \in ToSet(p_list[p])
        PROVE  "SENDING" \notin proc'[q].rts \/ (q \in ToSet(p_list'[p]) /\ ~Flushed(p)')
    <3>1. CASE q \in ToSet(xs)
      <4>1. xs # <<>>
        BY <3>1, EmptyExact
      <4>2. QED
        BY <1>2, <3>1, <4>1 DEF Flushed
    <3>2. CASE q \notin ToSet(xs)
      BY <2>2, <3>2
    <3>3. QED
      BY <3>1, <3>2
  <2>3. ASSUME NEW q \in Procs \ {p} PROVE ~Passed(p, q)'
    <3>1. CASE xs = <<>>
      <4>1. others'[p] = Procs \ {p} /\ pc'[p] = "others"
        BY <1>2, <3>1, FlushOthers
      <4>2. QED
        BY <4>1 DEF Passed
    <3>2. CASE xs # <<>>
      BY <1>2, <3>2 DEF Passed, Flushed
    <3>3. QED
      BY <3>1, <3>2
  <2>4. QED
    BY <1>4, <2>1, <2>2, <2>3 DEF Onwards
<1>11. Unbinders(p)
  BY DEF Unbinders
<1>12. \A q \in Procs \ {p} : Unlinked(p, q) /\ Struck(proc[q], proc'[q], pc[q], p, pc'[p])
  BY <1>4
<1>13. QED
  BY <1>2, <1>4, <1>5, <1>6, <1>7, <1>8, <1>9, <1>10, <1>11, <1>12, LeaveKeeps

LEMMA ExitKeeps == ASSUME IInv, IInv', UInv, NEW p \in Procs, Exit(p) PROVE UInv'
<1>1. /\ At(p, "exit") /\ Flush(p, p_list[p]) /\ p_list[p] \in Seq(Above(p))
      /\ UNCHANGED <<proc, p_list, p_ulist, call, ret, left, killed, late>>
  BY DEF Exit, lists, IInv, ListsFit
<1>2. \A q \in Procs \ {p} : /\ Unlinked(p, q)
                             /\ \A k \in Exiting : Struck(proc[q], proc'[q], pc[q], p, k)
  BY <1>1 DEF Unlinked, Struck
<1>3. Queues(p)
  BY <1>1 DEF Queues
<1>4. QED
  BY <1>1, <1>2, <1>3, FlushKeeps

LEMMA ExitFlushKeeps == ASSUME IInv, IInv', UInv, NEW p \in Procs, ExitFlush(p) PROVE UInv'
<1>1. PICK x : x = Head(p_list[p])
  OBVIOUS
<1>2. /\ At(p, "flush") /\ Flush(p, Without(p_list[p], x))
      /\ proc' = [proc EXCEPT ![x] = Up(Clear(@, {"SENDING"}), "DSTDIED")]
      /\ p_list' = [p_list EXCEPT ![p] = Without(@, x)]
      /\ UNCHANGED <<p_ulist, call, ret, left, killed, late>>
  BY <1>1 DEF ExitFlush
<1>3. /\ p_list[p] \in Seq(Procs) /\ p_list[p] \in Seq(Above(p)) /\ p_list[p] # <<>>
      /\ IsInjective(p_list[p])
      /\ \A q \in ToSet(p_list[p]) : "SENDING" \in proc[q].rts /\ proc[q].sendto = p
  BY <1>2 DEF At, IInv, ListsFit, UInv, AllQueued, Queued
<1>4. x \in Procs /\ x # p /\ x \in ToSet(p_list[p])
  <2>1. x \in Above(p) /\ x = p_list[p][1] /\ 1 \in DOMAIN p_list[p]
    BY <1>1, <1>3, HeadTailProperties
  <2>2. x \in ToSet(p_list[p])
    BY <2>1 DEF ToSet
  <2>3. QED
    BY <2>1, <2>2, Below DEF Above
<1>5. PICK xs : xs = Without(p_list[p], x)
  OBVIOUS
<1>6. xs \in Seq(Above(p)) /\ ToSet(xs) = ToSet(p_list[p]) \ {x}
  BY <1>3, <1>5, WithoutFacts, WithoutExact
<1>7. /\ p_list'[p] = xs /\ \A d \in Procs \ {p} : p_list'[d] = p_list[d]
      /\ proc'[x] = Up(Clear(proc[x], {"SENDING"}), "DSTDIED")
      /\ \A q \in Procs \ {x} : proc'[q] = proc[q]
  BY <1>2, <1>4, <1>5 DEF IInv, ListsFit, DescsFit
<1>8. proc'[x].rts = proc[x].rts \ {"SENDING"}
  <2>1. proc[x] \in Descriptors /\ "DSTDIED" \in Rcodes
    BY <1>4 DEF IInv, DescsFit, Rcodes
  <2>2. QED
    BY <1>7, <2>1, DiedFields
<1>9. ASSUME NEW q \in Procs \ {p}
      PROVE  /\ Unlinked(p, q) /\ \A k \in Exiting : Struck(proc[q], proc'[q], pc[q], p, k)
             /\ q \in ToSet(p_list[p]) => "SENDING" \notin proc'[q].rts \/ q \in ToSet(xs)
  <2>1. CASE q = x
    <3>1. Unlinked(p, q)
      BY <1>5, <1>7, <1>8, <2>1 DEF Unlinked
    <3>2. \A k \in Exiting : Struck(proc[q], proc'[q], pc[q], p, k)
      BY <1>3, <1>4, <1>7, <2>1 DEF Struck
    <3>3. "SENDING" \notin proc'[q].rts
      BY <1>8, <2>1
    <3>4. QED
      BY <3>1, <3>2, <3>3
  <2>2. CASE q # x
    BY <1>6, <1>7, <2>2 DEF Unlinked, Struck
  <2>3. QED
    BY <2>1, <2>2
<1>10. Queues(p)
  BY <1>4, <1>5, <1>7 DEF Queues
<1>11. /\ Flush(p, xs) /\ p_list'[p] = xs /\ proc'[p] = proc[p]
       /\ ToSet(xs) \subseteq ToSet(p_list[p])
  BY <1>2, <1>4, <1>5, <1>6, <1>7
<1>12. QED
  BY <1>2, <1>6, <1>7, <1>9, <1>10, <1>11, FlushKeeps

LEMMA ExitOtherKeeps == ASSUME IInv, IInv', UInv, NEW p \in Procs, ExitOther(p) PROVE UInv'
<1>1. /\ At(p, "others")
      /\ UNCHANGED <<p_list, p_ulist, call, ret, left, killed, late>>
  BY DEF ExitOther, lists
<1>2. PICK r \in others[p] :
         /\ proc' = [proc EXCEPT ![r] =
               IF ~Gone(r) /\ Waits(@, p) /\ @.getfrom = p
               THEN Up(Clear(@, {"RECEIVING"}), "SRCDIED") ELSE @]
         /\ Others(p, others[p] \ {r})
  BY DEF ExitOther
<1>3. PICK rs : rs = others[p] \ {r}
  OBVIOUS
<1>4. r \in Procs /\ r # p /\ rs \in SUBSET (Procs \ {p}) /\ Others(p, rs)
  BY <1>2, <1>3 DEF IInv, WalksFit
<1>5. /\ owner[DC] \in {p, NONE} /\ owner[p] \in {p, NONE} /\ pc[p] = "others"
      /\ proc[p].rts \subseteq {"WAITUNBIND"} /\ proc[p].sem >= -1
      /\ \A d \in Procs : p \notin ToSet(p_list[d])
  BY <1>1, LeavesMutexes DEF Walking
<1>6. /\ AllHold'
      /\ IF rs # {} THEN pc'[p] = "others"
         ELSE pc'[p] = IF "WAITUNBIND" \in proc[p].rts THEN "unlist"
                       ELSE IF p_ulist[p] = <<>> THEN "init" ELSE "waiters"
  BY <1>1, <1>4, <1>5, OthersHold DEF UInv
<1>7. Leaving(p) /\ Walks(p) /\ others'[p] = rs
  BY <1>4, OthersFits, OthersLeft DEF IInv
<1>8. pc'[p] \in Exiting /\ \A q \in Procs \ {p} : Apart(p, q)
  BY <1>1, <1>7, LeavesApart
<1>9. pc'[p] \in Walking /\ pc[p] \in Walking \cup {"exit"}
  BY <1>5, <1>6 DEF Walking
<1>10. /\ proc'[r] = (IF ~Gone(r) /\ Waits(proc[r], p) /\ proc[r].getfrom = p
                      THEN Up(Clear(proc[r], {"RECEIVING"}), "SRCDIED") ELSE proc[r])
       /\ \A q \in Procs \ {r} : proc'[q] = proc[q]
  BY <1>2, <1>4 DEF IInv, DescsFit
<1>11. proc'[p] = proc[p]
  BY <1>4, <1>10
<1>12. Flagged(proc'[p], pc'[p], call'[p])
  <2>1. PICK d, m, c : d = proc'[p] /\ m = pc'[p] /\ c = call'[p]
    OBVIOUS
  <2>2. /\ m \in Walking /\ d.sem >= -1 /\ d.rts \subseteq {"WAITUNBIND"}
        /\ m = "unlist" => "WAITUNBIND" \in d.rts
        /\ m \in {"waiters", "init"} => "WAITUNBIND" \notin d.rts
    BY <1>5, <1>6, <1>9, <1>11, <2>1
  <2>3. QED
    BY <2>1, <2>2, LeavingFlagged
<1>13. Unlinked(p, r) /\ Struck(proc[r], proc'[r], pc[r], p, pc'[p])
  <2>1. CASE ~Gone(r) /\ Waits(proc[r], p) /\ proc[r].getfrom = p
    <3>1. /\ proc[r] \in Descriptors /\ "SRCDIED" \in Rcodes
          /\ proc'[r] = Up(Clear(proc[r], {"RECEIVING"}), "SRCDIED")
      BY <1>4, <1>10, <2>1 DEF IInv, DescsFit, Rcodes
    <3>2. proc'[r].rts = proc[r].rts \ {"RECEIVING"}
      BY <3>1, DiedFields
    <3>3. Unlinked(p, r)
      BY <3>2 DEF Unlinked
    <3>4. Struck(proc[r], proc'[r], pc[r], p, pc'[p])
      BY <1>8, <2>1, <3>1 DEF Struck
    <3>5. QED
      BY <3>3, <3>4
  <2>2. CASE ~(~Gone(r) /\ Waits(proc[r], p) /\ proc[r].getfrom = p)
    <3>1. proc'[r] = proc[r]
      BY <1>10, <2>2
    <3>2. QED
      BY <3>1 DEF Unlinked, Struck
  <2>3. QED
    BY <2>1, <2>2
<1>14. ASSUME NEW q \in Procs \ {p}
       PROVE  Unlinked(p, q) /\ Struck(proc[q], proc'[q], pc[q], p, pc'[p])
  <2>1. CASE q = r
    BY <1>13, <2>1
  <2>2. CASE q # r
    BY <1>10, <2>2 DEF Unlinked, Struck
  <2>3. QED
    BY <2>1, <2>2
<1>15. Onwards(p)
  <2>1. pc[p] \notin Departed /\ pc'[p] # "gone" /\ Flushed(p)
    BY <1>5, <1>9 DEF Departed, Walking, Flushed
  <2>2. ASSUME NEW q \in Procs \ {p}, Passed(p, q)'
        PROVE  \/ Passed(p, q)
               \/ ~(~Gone(q) /\ Waits(proc[q], p) /\ proc[q].getfrom = p)
               \/ proc'[q].sem >= 0
    <3>1. CASE q = r
      <4>1. CASE ~Gone(r) /\ Waits(proc[r], p) /\ proc[r].getfrom = p
        <5>1. /\ proc[r] \in Descriptors /\ "SRCDIED" \in Rcodes /\ proc[r].sem >= -1
              /\ proc'[r] = Up(Clear(proc[r], {"RECEIVING"}), "SRCDIED")
          BY <1>4, <1>10, <4>1 DEF IInv, DescsFit, Rcodes, UInv, AllFlagged, Flagged
        <5>2. proc'[r].sem = proc[r].sem + 1
          BY <5>1, DiedFields
        <5>3. QED
          BY <3>1, <5>1, <5>2 DEF Descriptors
      <4>2. CASE ~(~Gone(r) /\ Waits(proc[r], p) /\ proc[r].getfrom = p)
        BY <3>1, <4>2
      <4>3. QED
        BY <4>1, <4>2
    <3>2. CASE q # r
      <4>1. q \notin rs
        <5>1. CASE rs = {}
          BY <5>1
        <5>2. CASE rs # {}
          BY <1>6, <1>7, <2>2, <5>2 DEF Passed
        <5>3. QED
          BY <5>1, <5>2
      <4>2. q \notin others[p]
        BY <1>3, <3>2, <4>1
      <4>3. QED
        BY <2>1, <4>2 DEF Passed
    <3>3. QED
      BY <3>1, <3>2
  <2>3. QED
    BY <1>8, <2>1, <2>2 DEF Onwards
<1>16. Queues(p) /\ Unbinders(p)
  BY <1>1 DEF Queues, Unbinders
<1>17. \A d \in Procs : p \notin ToSet(p_list'[d])
  BY <1>1, <1>5
<1>18. /\ pc'[p] = "flush" => p_list'[p] # <<>>
       /\ pc'[p] = "waiters" => p_ulist'[p] # <<>>
       /\ pc'[p] \in {"init", "gone"} => p_ulist'[p] = <<>>
  BY <1>1, <1>6
<1>19. \A v \in Procs : p \in ToSet(p_ulist'[v]) <=>
               "WAITUNBIND" \in proc'[p].rts /\ proc'[p].waitunbind = v
  BY <1>1, <1>11 DEF UInv, AllWaited, Waited
<1>20. QED
  BY <1>6, <1>8, <1>9, <1>12, <1>14, <1>15, <1>16, <1>17, <1>18, <1>19, LeaveKeeps

\* The last two loops: p has passed everybody.
LEMMA LastOnwards ==
    ASSUME NEW p \in Procs, NEW l \in {"unlist", "waiters"}, pc[p] = l,
           pc'[p] \in {"waiters", "init"}
    PROVE  Onwards(p)
<1>1. /\ pc'[p] \in Exiting /\ pc'[p] \in Departed /\ pc'[p] # "gone"
      /\ \A q \in Procs : Passed(p, q)
  BY DEF Exiting, Departed, Passed, Flushed
<1>2. Flushed(p)
  BY DEF Flushed
<1>3. QED
  BY <1>1, <1>2 DEF Onwards

LEMMA ExitUnlistKeeps == ASSUME IInv, IInv', UInv, NEW p \in Procs, ExitUnlist(p) PROVE UInv'
<1>1. PICK v, e : /\ v = proc[p].waitunbind
                  /\ e = [Clear(proc[p], {"WAITUNBIND"}) EXCEPT !.waitunbind = NONE]
  OBVIOUS
<1>2. /\ At(p, "unlist") /\ p_ulist' = [p_ulist EXCEPT ![v] = Without(@, p)]
      /\ proc' = [proc EXCEPT ![p] = e] /\ Waiters(p, p_ulist[p])
      /\ UNCHANGED <<p_list, call, ret, walks, killed, late>>
  BY <1>1 DEF ExitUnlist
<1>3. /\ owner[DC] \in {p, NONE} /\ owner[p] \in {p, NONE} /\ pc[p] = "unlist"
      /\ \A q \in Procs \ {p} : pc[q] \notin Walking
      /\ proc[p].rts \subseteq {"WAITUNBIND"} /\ proc[p].sem >= -1 /\ proc[p] \in Descriptors
      /\ \A d \in Procs : p \notin ToSet(p_list[d])
  BY <1>2, LeavesMutexes DEF Walking
<1>4. "WAITUNBIND" \in proc[p].rts /\ v \in Procs /\ v # p
  <2>1. "WAITUNBIND" \in proc[p].rts
    BY <1>3 DEF UInv, AllFlagged, Flagged
  <2>2. QED
    BY <1>1, <2>1 DEF IInv, DescsFit, Fit
<1>5. p_ulist[p] \in Seq(Procs \ {p})
  BY DEF IInv, ListsFit
<1>6. AllHold' /\ pc'[p] = (IF p_ulist[p] = <<>> THEN "init" ELSE "waiters")
  BY <1>2, <1>3, <1>5, WaitersHold DEF UInv
<1>7. Leaving(p)
  BY <1>2, <1>5, WaitersFits DEF IInv
<1>8. pc'[p] \in Exiting /\ \A q \in Procs \ {p} : Apart(p, q)
  BY <1>2, <1>7, LeavesApart DEF walks
<1>9. e.rts = {} /\ e.sem >= -1
  <2>1. PICK d : d = proc[p]
    OBVIOUS
  <2>2. d \in Descriptors /\ e = [Clear(d, {"WAITUNBIND"}) EXCEPT !.waitunbind = NONE]
    BY <1>1, <1>3, <2>1
  <2>3. e.rts = d.rts \ {"WAITUNBIND"} /\ e.sem = d.sem
    BY <2>2, ReleaseFields
  <2>4. QED
    BY <1>3, <2>1, <2>3
<1>10. /\ proc'[p] = e /\ \A q \in Procs \ {p} : proc'[q] = proc[q]
       /\ p_ulist'[v] = Without(p_ulist[v], p) /\ \A u \in Procs \ {v} : p_ulist'[u] = p_ulist[u]
  BY <1>2, <1>4 DEF IInv, DescsFit, ListsFit
<1>11. pc'[p] \in {"waiters", "init"} /\ pc'[p] \in Walking /\ pc[p] \in Walking \cup {"exit"}
  BY <1>3, <1>6 DEF Walking
<1>12. Flagged(proc'[p], pc'[p], call'[p])
  <2>1. PICK d, m, c : d = proc'[p] /\ m = pc'[p] /\ c = call'[p]
    OBVIOUS
  <2>2. m \in Walking /\ m # "unlist" /\ d.sem >= -1 /\ d.rts = {}
    BY <1>9, <1>10, <1>11, <2>1
  <2>3. QED
    BY <2>1, <2>2, LeavingFlagged
<1>13. \A q \in Procs \ {p} : Unlinked(p, q) /\ Struck(proc[q], proc'[q], pc[q], p, pc'[p])
  BY <1>10, Undisturbed
<1>14. Queues(p)
  BY <1>2 DEF Queues
<1>15. Unbinders(p)
  <2>1. pc[v] # "waiters"
    BY <1>3, <1>4 DEF Walking
  <2>2. QED
    BY <1>4, <1>10, <2>1 DEF Unbinders
<1>16. Onwards(p)
  BY <1>3, <1>11, LastOnwards
<1>17. \A d \in Procs : p \notin ToSet(p_list'[d])
  BY <1>2, <1>3
<1>18. \A u \in Procs : p \notin ToSet(p_ulist'[u])
  <2>1. \A u \in Procs : p \in ToSet(p_ulist[u]) => u = v
    BY <1>1 DEF UInv, AllWaited, Waited
  <2>2. p_ulist[v] \in Seq(Procs) /\ IsInjective(p_ulist[v])
    BY <1>4 DEF IInv, ListsFit, UInv, AllWaited, Waited
  <2>3. ToSet(p_ulist'[v]) = ToSet(p_ulist[v]) \ {p}
    BY <1>10, <2>2, WithoutExact
  <2>4. QED
    BY <1>10, <2>1, <2>3
<1>19. \A u \in Procs : p \in ToSet(p_ulist'[u]) <=>
               "WAITUNBIND" \in proc'[p].rts /\ proc'[p].waitunbind = u
  BY <1>9, <1>10, <1>18
<1>20. /\ pc'[p] = "flush" => p_list'[p] # <<>>
       /\ pc'[p] = "waiters" => p_ulist'[p] # <<>>
       /\ pc'[p] \in {"init", "gone"} => p_ulist'[p] = <<>>
  BY <1>4, <1>6, <1>10
<1>21. QED
  BY <1>6, <1>8, <1>11, <1>12, <1>13, <1>14, <1>15, <1>16, <1>17, <1>19, <1>20, LeaveKeeps

LEMMA ExitWaiterKeeps == ASSUME IInv, IInv', UInv, NEW p \in Procs, ExitWaiter(p) PROVE UInv'
<1>1. PICK r : r = Head(p_ulist[p])
  OBVIOUS
<1>2. PICK us : us = Without(p_ulist[p], r)
  OBVIOUS
<1>3. /\ At(p, "waiters") /\ p_ulist' = [p_ulist EXCEPT ![p] = us] /\ Waiters(p, us)
      /\ proc' = [proc EXCEPT ![r] =
              Up([Clear(@, {"WAITUNBIND"}) EXCEPT !.waitunbind = NONE], "OK")]
      /\ UNCHANGED <<p_list, call, ret, walks, killed, late>>
  BY <1>1, <1>2 DEF ExitWaiter
<1>4. /\ owner[DC] \in {p, NONE} /\ owner[p] \in {p, NONE} /\ pc[p] = "waiters"
      /\ \A q \in Procs \ {p} : pc[q] \notin Walking
      /\ proc[p].sem >= -1 /\ \A d \in Procs : p \notin ToSet(p_list[d])
  BY <1>3, LeavesMutexes DEF Walking
<1>5. proc[p].rts = {}
  BY <1>4 DEF UInv, AllFlagged, Flagged
<1>6. /\ p_ulist[p] \in Seq(Procs) /\ p_ulist[p] \in Seq(Procs \ {p}) /\ p_ulist[p] # <<>>
      /\ IsInjective(p_ulist[p])
      /\ \A x \in Procs : x \in ToSet(p_ulist[p]) <=>
            "WAITUNBIND" \in proc[x].rts /\ proc[x].waitunbind = p
  BY <1>4 DEF IInv, ListsFit, UInv, AllWaited, Waited
<1>7. r \in Procs /\ r # p /\ "WAITUNBIND" \in proc[r].rts /\ proc[r].waitunbind = p
  <2>1. r \in Procs \ {p} /\ r = p_ulist[p][1] /\ 1 \in DOMAIN p_ulist[p]
    BY <1>1, <1>6, HeadTailProperties
  <2>2. r \in ToSet(p_ulist[p])
    BY <2>1 DEF ToSet
  <2>3. QED
    BY <1>6, <2>1, <2>2
<1>8. us \in Seq(Procs \ {p})
  BY <1>2, <1>6, WithoutFacts
<1>9. AllHold' /\ pc'[p] = (IF us = <<>> THEN "init" ELSE "waiters")
  BY <1>3, <1>4, <1>8, WaitersHold DEF UInv
<1>10. Leaving(p)
  BY <1>3, <1>8, WaitersFits DEF IInv
<1>11. pc'[p] \in Exiting /\ \A q \in Procs \ {p} : Apart(p, q)
  BY <1>3, <1>10, LeavesApart DEF walks
<1>12. /\ proc'[r] = Up([Clear(proc[r], {"WAITUNBIND"}) EXCEPT !.waitunbind = NONE], "OK")
       /\ \A q \in Procs \ {r} : proc'[q] = proc[q]
       /\ p_ulist'[p] = us /\ \A u \in Procs \ {p} : p_ulist'[u] = p_ulist[u]
  BY <1>3, <1>7 DEF IInv, DescsFit, ListsFit
<1>13. proc'[r].rts = proc[r].rts \ {"WAITUNBIND"}
  <2>1. proc[r] \in Descriptors /\ "OK" \in Rcodes
    BY <1>7 DEF IInv, DescsFit, Rcodes
  <2>2. QED
    BY <1>12, <2>1, ReleasedFields
<1>14. /\ pc'[p] \in {"waiters", "init"} /\ pc'[p] \in Walking /\ pc[p] \in Walking \cup {"exit"}
       /\ pc'[p] \in Departed /\ pc[r] # "unlist" /\ proc'[p] = proc[p]
  BY <1>4, <1>7, <1>9, <1>12 DEF Walking, Departed
<1>15. Flagged(proc'[p], pc'[p], call'[p])
  <2>1. PICK d, m, c : d = proc'[p] /\ m = pc'[p] /\ c = call'[p]
    OBVIOUS
  <2>2. m \in Walking /\ m # "unlist" /\ d.sem >= -1 /\ d.rts = {}
    BY <1>4, <1>5, <1>14, <2>1
  <2>3. QED
    BY <2>1, <2>2, LeavingFlagged
<1>16. ASSUME NEW q \in Procs \ {p}
       PROVE  Unlinked(p, q) /\ Struck(proc[q], proc'[q], pc[q], p, pc'[p])
  <2>1. CASE q = r
    <3>1. Unlinked(p, q)
      BY <1>2, <1>12, <1>13, <2>1 DEF Unlinked
    <3>2. Struck(proc[q], proc'[q], pc[q], p, pc'[p])
      BY <1>7, <1>12, <1>14, <2>1 DEF Struck
    <3>3. QED
      BY <3>1, <3>2
  <2>2. CASE q # r
    BY <1>12, <2>2 DEF Unlinked, Struck
  <2>3. QED
    BY <2>1, <2>2
<1>17. Queues(p)
  BY <1>3 DEF Queues
<1>18. Unbinders(p)
  <2>1. "WAITUNBIND" \notin proc'[r].rts
    BY <1>13
  <2>2. QED
    BY <1>2, <1>7, <1>12, <2>1 DEF Unbinders
<1>19. Onwards(p)
  BY <1>4, <1>14, LastOnwards
<1>20. \A d \in Procs : p \notin ToSet(p_list'[d])
  BY <1>3, <1>4
<1>21. \A u \in Procs : p \in ToSet(p_ulist'[u]) <=>
               "WAITUNBIND" \in proc'[p].rts /\ proc'[p].waitunbind = u
  <2>1. \A u \in Procs : p \notin ToSet(p_ulist[u])
    BY <1>5 DEF UInv, AllWaited, Waited
  <2>2. ToSet(us) = ToSet(p_ulist[p]) \ {r}
    BY <1>2, <1>6, WithoutExact
  <2>3. \A u \in Procs : p \notin ToSet(p_ulist'[u])
    BY <1>12, <2>1, <2>2
  <2>4. QED
    BY <1>5, <1>14, <2>3
<1>22. /\ pc'[p] = "flush" => p_list'[p] # <<>>
       /\ pc'[p] = "waiters" => p_ulist'[p] # <<>>
       /\ pc'[p] \in {"init", "gone"} => p_ulist'[p] = <<>>
  BY <1>9, <1>12
<1>23. QED
  BY <1>9, <1>11, <1>14, <1>15, <1>16, <1>17, <1>18, <1>19, <1>20, <1>21, <1>22, LeaveKeeps

LEMMA ExitInitKeeps == ASSUME IInv, IInv', UInv, NEW p \in Procs, ExitInit(p) PROVE UInv'
<1>1. PICK e : e = Set(Bound, {"SLOT_FREE"})
  OBVIOUS
<1>2. /\ At(p, "init") /\ Goto(p, "gone", {}, <<>>) /\ proc' = [proc EXCEPT ![p] = e]
      /\ p_list' = [p_list EXCEPT ![p] = <<>>] /\ p_ulist' = [p_ulist EXCEPT ![p] = <<>>]
      /\ UNCHANGED <<call, ret, others, late>>
  BY <1>1 DEF ExitInit, walks
<1>3. pc[p] = "init" /\ \A d \in Procs : p \notin ToSet(p_list[d])
  BY <1>2, LeavesMutexes DEF Walking
<1>4. proc[p].rts = {} /\ p_ulist[p] = <<>>
  BY <1>3 DEF UInv, AllFlagged, Flagged, AllWaited, Waited
<1>5. e.rts = {"SLOT_FREE"} /\ e.sem = 0
  BY <1>1 DEF Set, Bound
<1>6. /\ proc'[p] = e /\ \A q \in Procs \ {p} : proc'[q] = proc[q]
      /\ p_list'[p] = <<>> /\ p_ulist'[p] = <<>>
      /\ \A q \in Procs \ {p} : p_list'[q] = p_list[q] /\ p_ulist'[q] = p_ulist[q]
  BY <1>2 DEF IInv, DescsFit, ListsFit
<1>7. pc'[p] = "gone" /\ \A q \in Procs \ {p} : Apart(p, q)
  BY <1>2, GotoApart
<1>8. AllHold'
  BY <1>2, GoFree DEF UInv
<1>9. Flagged(proc'[p], pc'[p], call'[p])
  <2>1. PICK d, c : d = proc'[p] /\ c = call'[p]
    OBVIOUS
  <2>2. "gone" \notin Calling \cup Dozing \cup {"user", "done", "unlist", "waiters", "init",
                                                  "send", "sendto", "sendrec"}
    BY DEF Calling, Dozing, Awake
  <2>3. d.sem >= -1 /\ d.rts = {"SLOT_FREE"}
    BY <1>5, <1>6, <2>1
  <2>4. Flagged(d, "gone", c)
    BY <2>2, <2>3 DEF Flagged
  <2>5. QED
    BY <1>7, <2>1, <2>4
<1>10. \A q \in Procs \ {p} : Unlinked(p, q) /\ Struck(proc[q], proc'[q], pc[q], p, pc'[p])
  BY <1>6, Undisturbed
<1>11. Queues(p) /\ Unbinders(p)
  BY <1>4, <1>6 DEF Queues, Unbinders
<1>12. Onwards(p)
  <2>1. pc'[p] \in Exiting /\ pc'[p] \in Departed
    BY <1>7 DEF Exiting, Departed
  <2>2. Flushed(p) /\ \A q \in Procs : Passed(p, q)
    BY <1>3 DEF Passed, Flushed
  <2>3. QED
    BY <1>3, <2>1, <2>2 DEF Onwards
<1>13. \A d \in Procs : p \notin ToSet(p_list'[d])
  BY <1>3, <1>6, EmptyExact
<1>14. \A u \in Procs : p \in ToSet(p_ulist'[u]) <=>
               "WAITUNBIND" \in proc'[p].rts /\ proc'[p].waitunbind = u
  <2>1. \A u \in Procs : p \notin ToSet(p_ulist[u])
    BY <1>4 DEF UInv, AllWaited, Waited
  <2>2. \A u \in Procs : p \notin ToSet(p_ulist'[u])
    BY <1>6, <2>1, EmptyExact
  <2>3. QED
    BY <1>5, <1>6, <2>2
<1>15. pc[p] \in Walking \cup {"exit"} /\ pc'[p] \in Exiting
  BY <1>3, <1>7 DEF Walking, Exiting
<1>16. QED
  BY <1>6, <1>7, <1>8, <1>9, <1>10, <1>11, <1>12, <1>13, <1>14, <1>15, LeaveKeeps

-----------------------------------------------------------------------------
(* The theorems on who is woken, released and told *)

LEMMA InitUnbinds == Init => UInv
<1> SUFFICES ASSUME Init PROVE UInv
  OBVIOUS
<1>1. \A p \in Procs :
          /\ proc[p] = Bound /\ p_list[p] = <<>> /\ p_ulist[p] = <<>> /\ pc[p] = "user"
          /\ call[p] = NoCall
  BY DEF Init
<1>2. "user" \notin Walking \cup Awake \cup Dozing \cup Calling \cup
          {"send", "sendto", "sendrec", "scan", "visit", "exit", "unbind", "flush", "init",
           "waiters", "unlist", "gone", "sleep", "done"}
  BY DEF Walking, Awake, Dozing, Calling
<1>3. ASSUME NEW p \in Procs PROVE Holds(p) /\ Told(p) /\ \A d \in Procs : Reached(p, d)
  BY <1>1, <1>2 DEF Holds, Told, Reached, AsleepOn
<1>4. ASSUME NEW p \in Procs PROVE Flagged(proc[p], pc[p], call[p])
  <2>1. Bound.sem = 0 /\ Bound.rts = {}
    BY DEF Bound
  <2>2. Flagged(Bound, "user", NoCall)
    BY <1>2, <2>1 DEF Flagged
  <2>3. QED
    BY <1>1, <2>2
<1>5. ASSUME NEW p \in Procs PROVE Queued(p) /\ Waited(p)
  <2>1. "WAITUNBIND" \notin Bound.rts
    BY DEF Bound
  <2>2. QED
    BY <1>1, <1>2, <2>1, EmptyExact DEF Queued, Waited
<1>6. QED
  BY <1>3, <1>4, <1>5
     DEF UInv, AllHold, AllFlagged, AllQueued, AllWaited, AllReached, AllTold

LEMMA StepUnbinds == IInv /\ UInv /\ [Next]_vars => UInv'
<1> SUFFICES ASSUME IInv, UInv, [Next]_vars PROVE UInv'
  OBVIOUS
<1>1. IInv'
  BY StepFits
<1>2. CASE UNCHANGED vars
  <2>1. UNCHANGED <<proc, p_list, p_ulist, owner, needs, pc, call, left, others, ret, late>>
    BY <1>2 DEF vars, lists, locks, thread, walks
  <2>2. /\ AllHold => AllHold'
        /\ AllFlagged => AllFlagged'
        /\ AllQueued => AllQueued'
        /\ AllWaited => AllWaited'
        /\ AllReached => AllReached'
        /\ AllTold => AllTold'
    BY <2>1 DEF AllHold, Holds, Has, AllFlagged, AllQueued, Queued, AllWaited, Waited,
                AllReached, Reached, AsleepOn, Passed, Flushed, AllTold, Told
  <2>3. QED
    BY <2>2 DEF UInv
<1>3. ASSUME NEW p \in Procs, Continue(p) PROVE UInv'
  BY <1>1, <1>3, LockKeeps, SendCheckKeeps, SendDeliverKeeps, SendBlockKeeps, SendrecDiedKeeps,
     SendrecDeliverKeeps, SendrecQueueKeeps, ReplyKeeps, ReceiveSourceKeeps, ReceiveCheckKeeps,
     ReceiveScanKeeps, ReceiveVisitKeeps, WakesUpKeeps, CallDoneKeeps, ReturnKeeps,
     UnbindNotBoundKeeps, UnbindWaitKeeps, ExitKeeps, ExitFlushKeeps, ExitOtherKeeps,
     ExitUnlistKeeps, ExitWaiterKeeps, ExitInitKeeps
     DEF Continue
<1>4. QED
  BY <1>1, <1>2, <1>3, CallKeeps, ExitStartKeeps DEF Next

LEMMA Unbinding == Spec => [](IInv /\ UInv)
<1>1. Init => IInv /\ UInv
  BY InitFits, InitUnbinds
<1>2. (IInv /\ UInv) /\ [Next]_vars => (IInv /\ UInv)'
  BY StepFits, StepUnbinds
<1>3. QED
  BY <1>1, <1>2, PTL DEF Spec

\* Who sleeps on a process that has passed it on its way out.
LEMMA LeftAsleep ==
    ASSUME IInv, UInv, NEW p \in Procs, NEW d \in Procs, AsleepOn(p, d), pc[d] \in Departed,
           call[p].op # "unbind"
    PROVE  late[p] /\ call[p].op \in {"sendrec", "receive"}
<1>1. Flushed(d) /\ Passed(d, p)
  BY DEF Departed, Passed, Flushed
<1>2. Reached(p, d) /\ Flagged(proc[p], "sleep", call[p]) /\ proc[p].sem < 0
  BY DEF UInv, AllReached, AllFlagged, AsleepOn
<1>3. /\ call[p].op \in {"send", "sendrec", "receive"} /\ LastFlag(call[p].op) \in proc[p].rts
      /\ proc[p].rts \subseteq FlagsOf(call[p].op)
  BY <1>2 DEF Flagged, Dozing
<1>4. "SENDING" \in proc[p].rts => late[p] /\ call[p].op = "sendrec"
  BY <1>1, <1>2 DEF Reached
<1>5. "SENDING" \notin proc[p].rts /\ "RECEIVING" \in proc[p].rts => late[p]
  BY <1>1, <1>2 DEF Reached
<1>6. QED
  BY <1>3, <1>4, <1>5 DEF LastFlag, FlagsOf

\* WAITUNBIND and the lists of who waits agree (do_unbind, the p_ulist loops),
\* also for an unbind that gave up, whoever leaves and in which order.
THEOREM WaitersReleased == Spec => []Released
<1>1. UInv => Released
  BY DEF UInv, AllWaited, Waited, Released
<1>2. QED
  BY <1>1, Unbinding, PTL

\* do_unbind leaves asleep on the process that left only a sendrec or a receive
\* that found it there and went to sleep after it had passed.
THEOREM LeaversWake == Spec => []NoneDeserted
<1>1. IInv /\ UInv => NoneDeserted
  <2> SUFFICES ASSUME IInv, UInv, NEW p \in Procs, NEW d \in Procs, AsleepOn(p, d), Gone(d)
               PROVE  late[p] /\ call[p].op \in {"sendrec", "receive"}
    BY DEF NoneDeserted
  <2>1. pc[d] = "gone" /\ pc[d] \in Departed
    BY GoneIsGone DEF Departed
  <2>2. call[p].op # "unbind"
    <3> SUFFICES ASSUME call[p].op = "unbind" PROVE FALSE
      OBVIOUS
    <3>1. Flagged(proc[p], "sleep", call[p]) /\ proc[p].sem < 0 /\ call[p].peer = d
      BY DEF UInv, AllFlagged, AsleepOn
    <3>2. "WAITUNBIND" \in proc[p].rts /\ proc[p].waitunbind = d
      BY <3>1 DEF Flagged, Dozing, LastFlag
    <3>3. p \in ToSet(p_ulist[d]) /\ p_ulist[d] = <<>>
      BY <2>1, <3>2 DEF UInv, AllWaited, Waited
    <3>4. QED
      BY <3>3, EmptyExact
  <2>3. QED
    BY <2>1, <2>2, LeftAsleep
<1>2. QED
  BY <1>1, Unbinding, PTL

\* A call reports the death of a process that has left or is leaving, and
\* new_unbind returns OK once the process has woken who slept on it.
THEOREM DeathsTold == Spec => []DeathReports
<1>1. IInv /\ UInv => DeathReports
  <2> SUFFICES ASSUME IInv, UInv, NEW p \in Procs, pc[p] = "done"
               PROVE  LET d == call[p].peer IN
                      /\ ret[p] \in {"DSTDIED", "SRCDIED", "DEADSRCDST", "NOTBIND"} =>
                            pc[d] \in Exiting
                      /\ call[p].op = "unbind" /\ ret[p] = "OK" =>
                            /\ pc[d] \in {"waiters", "init", "gone"}
                            /\ \A q \in Procs : AsleepOn(q, d) => late[q] \/ call[q].op = "unbind"
    BY DEF DeathReports
  <2> DEFINE d == call[p].peer
  <2>1. Told(p)
    BY DEF UInv, AllTold
  <2>2. ret[p] \in {"DSTDIED", "SRCDIED", "DEADSRCDST", "NOTBIND"} => pc[d] \in Exiting
    BY <2>1 DEF Told
  <2>3. call[p].op = "unbind" /\ ret[p] = "OK" => d \in Procs /\ pc[d] \in Departed
    BY <2>1 DEF Told
  <2>4. ASSUME d \in Procs, pc[d] \in Departed, NEW q \in Procs, AsleepOn(q, d)
        PROVE  late[q] \/ call[q].op = "unbind"
    BY <2>4, LeftAsleep
  <2>5. QED
    BY <2>2, <2>3, <2>4 DEF Departed
<1>2. QED
  BY <1>1, Unbinding, PTL
=============================================================================
