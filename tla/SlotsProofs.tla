----------------------------- MODULE SlotsProofs -----------------------------
(* The variables of Slots keep their types, for any number of nodes, slots,  *)
(* starts, crashes and forks.                                                *)
EXTENDS Slots, FiniteSetTheorems, SequenceTheorems, TLAPS

Effects == [m : Member, out : Seq(Message), dead : Reasons \cup {"no"}]

----------------------------------------------------------------------------
(* The limits, and what the code computes from them. *)

LEMMA NodeFinite == IsFiniteSet(Node) /\ Node \subseteq Int
BY FS_Interval, NodesAssumption DEF Node

LEMMA NodeCard == ASSUME NEW S \in SUBSET Node PROVE Cardinality(S) \in Nat
BY NodeFinite, FS_Subset, FS_CardinalityType

LEMMA SlotCard == ASSUME NEW S \in SUBSET Slot PROVE Cardinality(S) \in Nat
BY SlotsAssumption, FS_Subset, FS_CardinalityType

LEMMA Limits == min_owned_slots \in Int /\ free_slots_low \in Int /\ total_slots \in Int
<1>1. total_slots \in Int
  BY SlotCard DEF total_slots
<1>2. min_owned_slots \in Int
  BY <1>1, NodesAssumption DEF min_owned_slots
<1>3. QED
  BY <1>1, <1>2 DEF free_slots_low

LEMMA CeilingType == ASSUME NEW x \in Int, NEW y \in Nat \ {0} PROVE Ceiling(x, y) \in Int
<1>1. x \div y \in Int
  OBVIOUS
<1>2. QED
  BY <1>1 DEF Ceiling

LEMMA NextMember ==
    ASSUME NEW x, NEW S \in SUBSET Node PROVE get_next_mbr(x, S) \in Node \cup {none}
BY DEF get_next_mbr

LEMMA FreeOwnedType == ASSUME NEW n, NEW m \in Member PROVE FreeOwned(n, m) \subseteq Slot
BY DEF FreeOwned

LEMMA FirstFreeType == ASSUME NEW n, NEW m \in Member, NEW k PROVE FirstFree(n, m, k) \subseteq Slot
BY FreeOwnedType DEF FirstFree

----------------------------------------------------------------------------
(* The handlers: every one turns a member and a message into an effect. *)

LEMMA EffectType == ASSUME NEW m \in Member PROVE Effect(m) \in Effects
BY DEF Effect, Effects

LEMMA SendType ==
    ASSUME NEW e \in Effects, NEW msg \in Message PROVE Send(e, msg) \in Effects
BY DEF Send, Effects

LEMMA DeadType ==
    ASSUME NEW e \in Effects, NEW why \in Reasons PROVE Dead(e, why) \in Effects
BY DEF Dead, Effects

LEMMA SignalType == ASSUME NEW m \in Member PROVE Signal(m) \in Member
BY DEF Signal, Member

LEMMA ChangeType ==
    ASSUME NEW e \in Effects, NEW m \in Member PROVE [e EXCEPT !.m = m] \in Effects
BY DEF Effects

LEMMA RequestType ==
    ASSUME NEW n \in Node, NEW nr \in Int, NEW e \in Effects
    PROVE  mcast_rqst_slots(n, nr, e) \in Effects
<1> DEFINE donors == e.m.bm_init \ {n}
           asked  == [e EXCEPT !.m.bm_donors = donors]
           msg    == [type |-> "SYS_REQ_SLOTS", source |-> n, need |-> nr]
<1>1. asked \in Effects
  BY DEF Effects, Member
<1>2. msg \in Message
  BY DEF Message
<1>3. Send(asked, msg) \in Effects
  BY <1>1, <1>2, SendType
<1>4. QED
  BY <1>1, <1>3 DEF mcast_rqst_slots

LEMMA NewRequestType ==
    ASSUME NEW n \in Node, NEW nr \in Int, NEW e \in Effects
    PROVE  new_rqst_slots(n, nr, e) \in Effects
<1>1. [e EXCEPT !.m.FSM_state = "REQ_SLOTS"] \in Effects
  BY DEF Effects, Member, STATES
<1>2. QED
  BY <1>1, RequestType DEF new_rqst_slots

LEMMA StatusType ==
    ASSUME NEW n \in Node, NEW dest \in Node, NEW e \in Effects
    PROVE  mcast_status_info(n, dest, e) \in Effects
<1> DEFINE msg == [type |-> "SYS_PUT_STATUS", source |-> n, dest |-> dest,
                   bm_init |-> e.m.bm_init, bm_waitsts |-> e.m.bm_waitsts,
                   owner |-> e.m.owner, donating |-> e.m.donating]
<1>1. msg \in Message
  BY DEF Effects, Member, Message
<1>2. QED
  BY <1>1, SendType DEF mcast_status_info

LEMMA PrimaryStatusType ==
    ASSUME NEW n \in Node, NEW e \in Effects
    PROVE  primary_sts_mcast(n, e) \in Effects
<1> DEFINE next == get_next_mbr(e.m.nr_waitsts, e.m.bm_waitsts)
           s    == [e EXCEPT !.m.nr_waitsts = next]
<1>1. e.m.bm_waitsts \in SUBSET Node
  BY DEF Effects, Member
<1>2. next \in Node \cup {none}
  BY <1>1, NextMember
<1> HIDE DEF next
<1>3. s \in Effects
  BY <1>2 DEF Effects, Member
<1>4. next # none => mcast_status_info(n, next, s) \in Effects
  BY <1>2, <1>3, StatusType
<1>5. QED
  BY <1>3, <1>4 DEF primary_sts_mcast, next

LEMMA AfterViewType ==
    ASSUME NEW n \in Node, NEW e \in Effects PROVE AfterView(n, e) \in Effects
<1>1. [e EXCEPT !.m.bm_donors = {}, !.m.bm_pending = {}] \in Effects
  BY DEF Effects, Member
<1>2. QED
  BY <1>1, PrimaryStatusType, NewRequestType, Limits DEF AfterView

LEMMA JoinType ==
    ASSUME NEW n \in Node, NEW m \in Member, NEW msg \in Message, msg.type = "JOIN"
    PROVE  sp_join(n, m, msg) \in Effects
<1> DEFINE owner == [i \in Slot |-> n]
           one   == 1
           waits == [m EXCEPT !.bm_waitsts = @ \cup {msg.member}]
           alone == [m EXCEPT !.FSM_state = "RUNNING", !.primary_mbr = n,
                              !.bm_init = @ \cup {n}, !.nr_init = one,
                              !.owned_slots = total_slots, !.owner = owner]
           asks  == [waits EXCEPT !.FSM_state = "WAIT_STATUS"]
<1>1. msg.member \in Node
  BY DEF Message
<1>2. waits \in Member
  BY <1>1 DEF Member
<1>3. owner \in [Slot -> Node \cup {none}] /\ one \in Int
  OBVIOUS
<1> HIDE DEF owner, one
<1>4. alone \in Member
  BY <1>3, Limits DEF Member, STATES
<1>5. asks \in Member
  BY <1>2 DEF Member, STATES
<1> HIDE DEF waits, alone, asks
<1>6. Effect(Signal(alone)) \in Effects /\ Effect(asks) \in Effects /\ Effect(waits) \in Effects
  BY <1>2, <1>4, <1>5, SignalType, EffectType
<1>7. AfterView(n, Effect(waits)) \in Effects
  BY <1>6, AfterViewType
<1>8. QED
  BY <1>6, <1>7 DEF sp_join, waits, alone, asks, owner, one

LEMMA ToDonateType ==
    ASSUME NEW m \in Member, NEW needed \in Int, m.nr_init > 1
    PROVE  ToDonate(m, needed) \in Int
<1>1. m.nr_init - 1 \in Nat \ {0} /\ m.free_slots \in Int
  BY DEF Member
<1>2. Ceiling(needed, m.nr_init - 1) \in Int
  BY <1>1, CeilingType
<1>3. Surplus(m) \in Int
  BY <1>1, Limits DEF Surplus
<1>4. QED
  BY <1>2, <1>3 DEF ToDonate

LEMMA DonationType ==
    ASSUME NEW n \in Node, NEW e \in Effects, NEW dst \in Node, NEW nr \in Int,
           NEW given \in SUBSET Slot
    PROVE  mcast_donation(n, e, dst, nr, given) \in Effects
<1>1. [type |-> "SYS_DON_SLOTS", source |-> n, dst |-> dst, nr |-> nr, slots |-> given] \in Message
  BY DEF Message
<1>2. QED
  BY <1>1, SendType DEF mcast_donation

LEMMA DonateType ==
    ASSUME NEW n \in Node, NEW e \in Effects, NEW requester \in Node, NEW nr \in Int
    PROVE  Donate(n, e, requester, nr) \in Effects
<1> DEFINE given == FirstFree(n, e.m, nr)
           k == Cardinality(given)
           owner == [i \in Slot |-> IF i \in given THEN requester ELSE e.m.owner[i]]
           free  == e.m.free_slots - k
           owned == e.m.owned_slots - k
           s == [e EXCEPT !.m.free_slots = free, !.m.owned_slots = owned,
                          !.m.owner = owner,
                          !.m.no_map = @ \cup given, !.m.donating = @ \cup given]
<1>1. e.m \in Member
  BY DEF Effects
<1>2. given \in SUBSET Slot
  BY <1>1, FirstFreeType
<1>3. k \in Nat
  BY <1>2, SlotCard
<1> HIDE DEF given, k
<1>4. owner \in [Slot -> Node \cup {none}]
  BY <1>1 DEF Member
<1>5. free \in Int /\ owned \in Int
  BY <1>1, <1>3 DEF Member
<1> HIDE DEF owner, free, owned
<1>6. s \in Effects
  BY <1>2, <1>4, <1>5 DEF Effects, Member
<1> HIDE DEF s
<1>7. mcast_donation(n, s, requester, nr, given) \in Effects
  BY <1>2, <1>6, DonationType
<1>8. QED
  BY <1>7 DEF Donate, given, k, owner, free, owned, s

LEMMA AskedType ==
    ASSUME NEW n \in Node, NEW e \in Effects, NEW requester \in Node, NEW needed \in Int
    PROVE  sp_req_slots(n, e, requester, needed) \in Effects
<1> DEFINE m    == e.m
           next == get_next_mbr(requester, m.bm_init)
           asks == m.bm_donors # {}
           give == IF asks THEN 0 ELSE ToDonate(m, needed)
           nr   == IF give > SLOTS_BY_MSG THEN SLOTS_BY_MSG ELSE give
<1>1. m \in Member
  BY DEF Effects
<1>2. [e EXCEPT !.m.bm_donors = @ \ {requester}] \in Effects
  BY DEF Effects, Member
<1>3. [e EXCEPT !.m.bm_pending = @ \cup {requester}] \in Effects
  BY DEF Effects, Member
<1>4. Dead(e, "assert") \in Effects
  BY DeadType DEF Reasons
<1>5. asks \/ m.nr_init > 1 => nr \in Int
  <2>1. m.nr_init > 1 => ToDonate(m, needed) \in Int
    BY <1>1, ToDonateType
  <2> HIDE DEF asks, m
  <2>2. asks \/ m.nr_init > 1 => give \in Int
    BY <2>1
  <2>3. QED
    BY <2>2 DEF SLOTS_BY_MSG
<1>6. m.nr_init \in Int
  BY <1>1 DEF Member
<1> HIDE DEF give
<1>7. asks \/ m.nr_init > 1 => Donate(n, e, requester, nr) \in Effects
  BY <1>5, DonateType
<1>8. asks \/ m.nr_init > 1 \/ m.nr_init <= 1
  BY <1>6
<1>9. QED
  BY <1>2, <1>3, <1>4, <1>7, <1>8 DEF sp_req_slots, give

LEMMA OtherStatusType ==
    ASSUME NEW n \in Node, NEW m \in Member, NEW msg \in Message, msg.type = "SYS_PUT_STATUS"
    PROVE  put_status_other(n, m, msg) \in Effects
<1> DEFINE heard == [m EXCEPT !.bm_waitsts = @ \ {msg.dest}]
           told  == primary_sts_mcast(n, Effect(heard))
           count == told.m.nr_init + 1
           init  == [told EXCEPT !.m.bm_init = @ \cup {msg.dest}, !.m.nr_init = count]
           later == [heard EXCEPT !.bm_init = @ \cup {msg.dest}]
<1>1. msg.dest \in Node
  BY DEF Message
<1>2. heard \in Member
  BY DEF Member
<1> HIDE DEF heard
<1>3. told \in Effects
  BY <1>2, EffectType, PrimaryStatusType
<1> HIDE DEF told
<1>4. count \in Int
  BY <1>3 DEF Effects, Member
<1> HIDE DEF count
<1>5. init \in Effects
  BY <1>1, <1>3, <1>4 DEF Effects, Member
<1> HIDE DEF init
<1>6. later \in Member
  BY <1>1, <1>2 DEF Member
<1>7. sp_req_slots(n, init, msg.dest, min_owned_slots) \in Effects
  BY <1>1, <1>5, AskedType, Limits
<1>8. Dead(told, "assert") \in Effects /\ Dead(told, "initialized twice") \in Effects
  BY <1>3, DeadType DEF Reasons
<1>9. Effect(later) \in Effects
  BY <1>6, EffectType
<1>10. QED
  BY <1>7, <1>8, <1>9 DEF put_status_other, heard, told, count, init

LEMMA LocalStatusType ==
    ASSUME NEW n \in Node, NEW m \in Member, NEW msg \in Message, msg.type = "SYS_PUT_STATUS"
    PROVE  put_status_local(n, m, msg) \in Effects
<1> DEFINE init  == m.bm_init \cup msg.bm_init \cup {n}
           new   == {i \in Slot : m.owner[i] = none}
           zero  == 0
           count == Cardinality(init)
           waits == (m.bm_waitsts \cup msg.bm_waitsts) \ {n}
           owner == [i \in Slot |-> IF i \in new THEN msg.owner[i] ELSE m.owner[i]]
           given == (m.donating \ new) \cup (msg.donating \cap new)
           s     == [m EXCEPT
                !.FSM_state = "REQ_SLOTS", !.owned_slots = zero,
                !.bm_init = init, !.nr_init = count, !.bm_donors = init \ {n},
                !.bm_waitsts = waits, !.owner = owner, !.donating = given]
<1>1. msg \in [type : {"SYS_PUT_STATUS"}, source : Node, dest : Node, bm_init : SUBSET Node,
               bm_waitsts : SUBSET Node, owner : [Slot -> Node \cup {none}],
               donating : SUBSET Slot]
  BY DEF Message
<1>2. init \in SUBSET Node /\ waits \in SUBSET Node /\ given \in SUBSET Slot
  BY <1>1 DEF Member
<1>3. owner \in [Slot -> Node \cup {none}]
  BY <1>1 DEF Member
<1>4. count \in Int /\ zero \in Int
  BY <1>2, NodeCard
<1> HIDE DEF init, count, waits, owner, given, zero
<1>5. s \in Member
  BY <1>2, <1>3, <1>4 DEF Member, STATES
<1>6. Effect(s) \in Effects /\ Effect(m) \in Effects
  BY <1>5, EffectType
<1>7. QED
  BY <1>6 DEF put_status_local, init, count, waits, owner, given, zero

LEMMA PutStatusType ==
    ASSUME NEW n \in Node, NEW m \in Member, NEW msg \in Message, msg.type = "SYS_PUT_STATUS"
    PROVE  sp_put_status(n, m, msg) \in Effects
<1> DEFINE s == IF Initialized(m) THEN m ELSE [m EXCEPT !.primary_mbr = msg.source]
<1>1. msg.source \in Node
  BY DEF Message
<1>2. s \in Member
  BY <1>1 DEF Member
<1> HIDE DEF s
<1>3. put_status_local(n, s, msg) \in Effects /\ put_status_other(n, s, msg) \in Effects
  BY <1>2, OtherStatusType, LocalStatusType
<1>4. QED
  BY <1>3 DEF sp_put_status, s

LEMMA DonatedType ==
    ASSUME NEW n \in Node, NEW m \in Member, NEW msg \in Message, NEW ub,
           msg.type = "SYS_DON_SLOTS"
    PROVE  sp_don_slots(n, m, msg, ub) \in Effects
<1> DEFINE first == LeastOf(msg.slots)
           owner == [i \in Slot |-> IF i \in msg.slots THEN msg.dst ELSE m.owner[i]]
           owns  == [m EXCEPT !.owner = owner]
           done  == IF msg.slots = {} THEN m
                    ELSE [m EXCEPT !.owner[first] = msg.dst,
                                   !.no_map = @ \ {first}, !.donating = @ \ {first}]
           free  == m.free_slots + msg.nr
           owned == m.owned_slots + msg.nr
           got   == [owns EXCEPT !.free_slots = free, !.owned_slots = owned,
                                 !.bm_donors = @ \ {msg.source}]
           runs  == [got EXCEPT !.FSM_state = "RUNNING"]
           left  == [owns EXCEPT !.bm_pending = @ \ {msg.dst}]
<1>1. msg.source \in Node /\ msg.dst \in Node /\ msg.nr \in Int /\ msg.slots \in SUBSET Slot
  BY DEF Message
<1>2. owner \in [Slot -> Node \cup {none}]
  BY <1>1 DEF Member
<1>3. free \in Int /\ owned \in Int
  BY <1>1 DEF Member
<1> HIDE DEF owner, free, owned, first
<1>4. owns \in Member
  BY <1>2 DEF Member
<1>5. done \in Member
  BY <1>1 DEF Member
<1> HIDE DEF owns, done
<1>6. got \in Member
  BY <1>3, <1>4 DEF Member
<1>7. left \in Member
  BY <1>4 DEF Member
<1> HIDE DEF got, left
<1>8. runs \in Member
  BY <1>6 DEF Member, STATES
<1> HIDE DEF runs
<1>9. /\ Effect(m) \in Effects /\ Effect(owns) \in Effects /\ Effect(done) \in Effects
      /\ Dead(Effect(m), "assert") \in Effects /\ Dead(Effect(m), "fault") \in Effects
  BY <1>4, <1>5, EffectType, DeadType DEF Reasons
<1>10. mcast_donation(n, Effect(left), msg.dst, 0, {}) \in Effects
  BY <1>1, <1>7, EffectType, DonationType
<1>11. new_rqst_slots(n, min_owned_slots,
           Effect(IF m.owned_slots = 0 /\ msg.nr > 0 THEN Signal(runs) ELSE got)) \in Effects
  BY <1>6, <1>8, SignalType, EffectType, NewRequestType, Limits
<1>12. QED
  BY <1>9, <1>10, <1>11 DEF sp_don_slots, first, owner, owns, done, free, owned, got, runs, left

LEMMA TakeBackType ==
    ASSUME NEW n \in Node, NEW m \in Member, NEW disc \in Node
    PROVE  TakeBack(n, m, disc) \in Member
<1> DEFINE lost  == {i \in Slot : m.owner[i] = disc}
           back  == lost \cap m.donating
           mine  == IF m.primary_mbr = n THEN lost \ back ELSE {}
           k     == Cardinality(back \cup mine)
           owner == [i \in Slot |-> IF i \in back THEN n
                                    ELSE IF i \in lost THEN m.primary_mbr ELSE m.owner[i]]
           free  == m.free_slots + k
           owned == m.owned_slots + k
           s     == [m EXCEPT !.owner = owner, !.no_map = @ \ back,
                              !.free_slots = free, !.owned_slots = owned]
           runs  == [s EXCEPT !.FSM_state = "RUNNING"]
<1>1. back \cup mine \in SUBSET Slot
  OBVIOUS
<1>2. k \in Nat
  BY <1>1, SlotCard
<1>3. owner \in [Slot -> Node \cup {none}]
  BY DEF Member
<1> HIDE DEF k
<1>4. free \in Int /\ owned \in Int
  BY <1>2 DEF Member
<1> HIDE DEF owner, free, owned
<1>5. s \in Member
  BY <1>3, <1>4 DEF Member
<1> HIDE DEF s
<1>6. runs \in Member
  BY <1>5 DEF Member, STATES
<1> HIDE DEF runs
<1>7. Signal(runs) \in Member
  BY <1>6, SignalType
<1>8. QED
  BY <1>5, <1>7 DEF TakeBack, k, owner, free, owned, s, runs

LEMMA DisconnectType ==
    ASSUME NEW n \in Node, NEW m \in Member, NEW msg \in Message, msg.type = "DISCONNECT"
    PROVE  sp_disconnect(n, m, msg) \in Effects
<1> DEFINE disc  == msg.member
           count == IF disc \in m.bm_init THEN m.nr_init - 1 ELSE m.nr_init
           gone  == [m EXCEPT !.nr_init = count,
                          !.bm_init = @ \ {disc}, !.bm_donors = @ \ {disc},
                          !.bm_waitsts = @ \ {disc}, !.bm_pending = @ \ {disc}]
           next  == get_primary_mbr(gone.bm_init)
           s     == [gone EXCEPT !.primary_mbr = IF @ = disc THEN next ELSE @]
<1>1. disc \in Node
  BY DEF Message
<1>2. count \in Int
  BY DEF Member
<1> HIDE DEF count
<1>3. gone \in Member
  BY <1>2 DEF Member
<1>4. next \in Node \cup {none}
  BY <1>3, NextMember DEF get_primary_mbr, Member
<1> HIDE DEF gone, next
<1>5. s \in Member
  BY <1>3, <1>4 DEF Member
<1> HIDE DEF s, disc
<1>6. TakeBack(n, s, disc) \in Member
  BY <1>1, <1>5, TakeBackType
<1>7. Effect(TakeBack(n, s, disc)) \in Effects /\ AfterView(n, Effect(TakeBack(n, s, disc))) \in Effects
  BY <1>6, EffectType, AfterViewType
<1>8. Dead(Effect(m), "left") \in Effects /\ Dead(Effect(m), "exit") \in Effects
  BY EffectType, DeadType DEF Reasons
<1>9. QED
  BY <1>7, <1>8 DEF sp_disconnect, count, gone, next, s, disc

LEMMA HandleType ==
    ASSUME NEW n \in Node, NEW m \in Member, NEW msg \in Message, NEW ub
    PROVE  Handle(n, m, msg, ub) \in Effects
<1>1. CASE msg.type = "JOIN"
  BY <1>1, JoinType DEF Handle
<1>2. CASE msg.type = "DISCONNECT"
  BY <1>2, DisconnectType DEF Handle
<1>3. CASE msg.type = "SYS_PUT_STATUS"
  BY <1>3, PutStatusType DEF Handle
<1>4. CASE msg.type = "SYS_REQ_SLOTS"
  <2>1. msg.source \in Node /\ msg.need \in Int
    BY <1>4 DEF Message
  <2>2. QED
    BY <1>4, <2>1, EffectType, AskedType DEF Handle
<1>5. CASE msg.type = "SYS_DON_SLOTS"
  BY <1>5, DonatedType DEF Handle
<1>6. msg.type \in {"JOIN", "DISCONNECT", "SYS_PUT_STATUS", "SYS_REQ_SLOTS", "SYS_DON_SLOTS"}
  BY DEF Message
<1>7. QED
  BY <1>1, <1>2, <1>3, <1>4, <1>5, <1>6

----------------------------------------------------------------------------
(* The steps. *)

LEMMA FreshType == Fresh \in Member
<1> DEFINE owner == [i \in Slot |-> none]
           zero  == 0
<1>1. owner \in [Slot -> Node \cup {none}] /\ zero \in Int /\ zero \in Node
  BY NodesAssumption DEF Node
<1>2. Fresh =
    [FSM_state |-> "NEW", primary_mbr |-> none, nr_waitsts |-> zero, bm_waitsts |-> {},
     nr_init |-> zero, bm_init |-> {}, bm_donors |-> {}, bm_pending |-> {},
     owner |-> owner, donating |-> {}, no_map |-> {}, bound |-> {},
     owned_slots |-> zero, free_slots |-> zero, main |-> "starting", child |-> none]
  BY DEF Fresh
<1> HIDE DEF owner, zero
<1>3. QED
  BY <1>1, <1>2 DEF Member, STATES

LEMMA DeliverType ==
    ASSUME NEW group, NEW boxes \in [Node -> Seq(Message)], NEW msgs \in Seq(Message)
    PROVE  Deliver(group, boxes, msgs) \in [Node -> Seq(Message)]
<1>1. \A n \in Node : boxes[n] \o msgs \in Seq(Message)
  BY ConcatProperties
<1>2. <<>> \in Seq(Message)
  OBVIOUS
<1>3. QED
  BY <1>1, <1>2 DEF Deliver

LEMMA ViewType ==
    ASSUME NEW group \in SUBSET Node, NEW n \in Node, NEW t \in {"JOIN", "DISCONNECT"}
    PROVE  [type |-> t, member |-> n, nr_nodes |-> Cardinality(group)] \in Message
BY NodeCard DEF Message

LEMMA EndsType ==
    ASSUME TypeOK, NEW n \in Node, NEW out \in Seq(Message), Ends(n, out)
    PROVE  /\ up' \subseteq Node
           /\ inbox' \in [Node -> Seq(Message)]
           /\ mbr' \in [Node -> Member]
<1> DEFINE msg == [type |-> "DISCONNECT", member |-> n, nr_nodes |-> Cardinality(up')]
<1>1. PICK k \in 0 .. Len(out) :
        /\ up' = up \ {n}
        /\ inbox' = Deliver(up', inbox, Append(SubSeq(out, 1, k), msg))
        /\ mbr' = [mbr EXCEPT ![n] = Fresh]
  BY DEF Ends
<1>2. up' \in SUBSET Node
  BY <1>1 DEF TypeOK
<1>3. msg \in Message
  BY <1>2, ViewType
<1>4. SubSeq(out, 1, k) \in Seq(Message)
  BY SubSeqProperties
<1> HIDE DEF msg
<1>5. Append(SubSeq(out, 1, k), msg) \in Seq(Message)
  BY <1>3, <1>4
<1>6. inbox' \in [Node -> Seq(Message)]
  BY <1>1, <1>5, DeliverType DEF TypeOK
<1>7. mbr' \in [Node -> Member]
  BY <1>1, FreshType DEF TypeOK
<1>8. QED
  BY <1>2, <1>6, <1>7

LEMMA FinishesType ==
    ASSUME TypeOK, NEW n \in Node, NEW e \in Effects, NEW boxes \in [Node -> Seq(Message)],
           Finishes(n, e, boxes)
    PROVE  /\ up' \subseteq Node
           /\ inbox' \in [Node -> Seq(Message)]
           /\ mbr' \in [Node -> Member]
           /\ failed' \subseteq Reasons
<1>1. e.m \in Member /\ e.out \in Seq(Message) /\ e.dead \in Reasons \cup {"no"}
  BY DEF Effects
<1>2. CASE e.dead # "no"
  <2>1. Ends(n, e.out) /\ failed' = failed \cup {e.dead}
    BY <1>2 DEF Finishes
  <2>2. failed' \subseteq Reasons
    BY <1>1, <1>2, <2>1 DEF TypeOK
  <2>3. QED
    BY <1>1, <2>1, <2>2, EndsType
<1>3. CASE e.dead = "no"
  <2>1. mbr' = [mbr EXCEPT ![n] = e.m] /\ Multicast(e, boxes) /\ UNCHANGED <<up, failed>>
    BY <1>3 DEF Finishes
  <2>2. inbox' \in [Node -> Seq(Message)]
    BY <1>1, <2>1, DeliverType DEF Multicast
  <2>3. QED
    BY <1>1, <2>1, <2>2 DEF TypeOK
<1>4. QED
  BY <1>2, <1>3

LEMMA StartType == ASSUME TypeOK, NEW n \in Node, Start(n) PROVE TypeOK'
<1> DEFINE msg == [type |-> "JOIN", member |-> n, nr_nodes |-> Cardinality(up')]
<1>1. /\ starts < StartLimit /\ starts' = starts + 1
      /\ up' = up \cup {n} /\ inbox' = Deliver(up', inbox, <<msg>>)
      /\ mbr' = [mbr EXCEPT ![n] = Fresh]
      /\ UNCHANGED <<crashes, forks, failed>>
  BY DEF Start
<1>2. up' \in SUBSET Node
  BY <1>1 DEF TypeOK
<1>3. msg \in Message
  BY <1>2, ViewType
<1> HIDE DEF msg
<1>4. inbox' \in [Node -> Seq(Message)]
  <2>1. <<msg>> \in Seq(Message)
    BY <1>3
  <2>2. QED
    BY <1>1, <2>1, DeliverType DEF TypeOK
<1>5. mbr' \in [Node -> Member]
  BY <1>1, FreshType DEF TypeOK
<1>6. starts' \in 0 .. StartLimit
  BY <1>1, BoundsAssumption DEF TypeOK
<1>7. QED
  BY <1>1, <1>2, <1>4, <1>5, <1>6 DEF TypeOK

LEMMA CrashType == ASSUME TypeOK, NEW n \in Node, Crash(n) PROVE TypeOK'
<1>1. /\ crashes < CrashLimit /\ crashes' = crashes + 1 /\ Ends(n, <<>>)
      /\ UNCHANGED <<starts, forks, failed>>
  BY DEF Crash
<1>2. /\ up' \subseteq Node
      /\ inbox' \in [Node -> Seq(Message)]
      /\ mbr' \in [Node -> Member]
  <2>1. <<>> \in Seq(Message)
    OBVIOUS
  <2>2. QED
    BY <1>1, <2>1, EndsType
<1>3. crashes' \in 0 .. CrashLimit
  BY <1>1, BoundsAssumption DEF TypeOK
<1>4. QED
  BY <1>1, <1>2, <1>3 DEF TypeOK

LEMMA ReceiveType == ASSUME TypeOK, NEW n \in Node, Receive(n) PROVE TypeOK'
<1> DEFINE msg   == Head(inbox[n])
           boxes == [inbox EXCEPT ![n] = Tail(@)]
<1>1. PICK ub \in {"fault", "stale"} : Finishes(n, Handle(n, mbr[n], msg, ub), boxes)
  BY DEF Receive
<1>2. inbox[n] \in Seq(Message) /\ inbox[n] # <<>>
  BY DEF Receive, TypeOK
<1>3. msg \in Message /\ Tail(inbox[n]) \in Seq(Message)
  BY <1>2, HeadTailProperties
<1>4. boxes \in [Node -> Seq(Message)]
  BY <1>3 DEF TypeOK
<1>5. Handle(n, mbr[n], msg, ub) \in Effects
  BY <1>3, HandleType DEF TypeOK
<1> HIDE DEF msg, boxes
<1>6. /\ up' \subseteq Node
      /\ inbox' \in [Node -> Seq(Message)]
      /\ mbr' \in [Node -> Member]
      /\ failed' \subseteq Reasons
  BY <1>1, <1>4, <1>5, FinishesType
<1>7. QED
  BY <1>6 DEF Receive, TypeOK

LEMMA MainWaitsType == ASSUME TypeOK, NEW n \in Node, MainWaits(n) PROVE TypeOK'
<1>1. [mbr[n] EXCEPT !.main = "waiting"] \in Member
  <2>1. \A m \in Member : [m EXCEPT !.main = "waiting"] \in Member
    BY DEF Member
  <2>2. QED
    BY <2>1 DEF TypeOK
<1>2. mbr' \in [Node -> Member]
  BY <1>1 DEF MainWaits, TypeOK
<1>3. QED
  BY <1>2 DEF MainWaits, TypeOK

LEMMA MainRunsType == ASSUME TypeOK, NEW n \in Node, MainRuns(n) PROVE TypeOK'
<1> DEFINE m     == mbr[n]
           again == m.FSM_state = "REQ_SLOTS" /\ m.owned_slots = 0
           waits == [m EXCEPT !.main = "waiting"]
           runs  == [m EXCEPT !.main = "running", !.free_slots = m.owned_slots]
           e     == IF again THEN mcast_rqst_slots(n, free_slots_low, Effect(waits))
                    ELSE Effect(runs)
<1>1. m \in Member
  BY DEF TypeOK
<1> HIDE DEF m
<1>2. waits \in Member /\ runs \in Member
  BY <1>1 DEF Member
<1> HIDE DEF waits, runs
<1>3. e \in Effects
  BY <1>2, EffectType, RequestType, Limits
<1>4. mbr' = [mbr EXCEPT ![n] = e.m] /\ Multicast(e, inbox)
  BY DEF MainRuns, m, waits, runs
<1> HIDE DEF e
<1>5. e.m \in Member /\ e.out \in Seq(Message)
  BY <1>3 DEF Effects
<1>6. inbox' \in [Node -> Seq(Message)]
  BY <1>4, <1>5, DeliverType DEF Multicast, TypeOK
<1>7. mbr' \in [Node -> Member]
  BY <1>4, <1>5 DEF TypeOK
<1>8. QED
  BY <1>6, <1>7 DEF MainRuns, TypeOK

LEMMA GetFreeType == ASSUME TypeOK, NEW n \in Node, get_free_proc(n) PROVE TypeOK'
<1> DEFINE m    == mbr[n]
           fair == Ceiling(max_owned_slots(m), m.nr_init)
           left == IF fair > m.owned_slots THEN fair - m.owned_slots
                                           ELSE free_slots_low - m.free_slots
           next == FirstFree(n, m, 1)
           asks(late) == /\ late /\ m.free_slots < free_slots_low
                         /\ m.owned_slots < max_owned_slots(m)
                         /\ m.bm_donors = {} /\ m.bm_waitsts = {}
           e(late) == IF asks(late) THEN mcast_rqst_slots(n, left, Effect(m)) ELSE Effect(m)
           r(late) == IF asks(late) /\ m.nr_init <= 0 THEN Dead(Effect(m), "divided by 0")
                      ELSE IF m.free_slots = 0 THEN e(late)
                      ELSE IF next = {} THEN Dead(e(late), "assert")
                      ELSE [e(late) EXCEPT !.m.child = CHOOSE i \in next : TRUE]
<1>1. PICK late \in BOOLEAN : Finishes(n, r(late), inbox)
  BY DEF get_free_proc
<1>2. forks' \in 0 .. ForkLimit
  <2>1. forks < ForkLimit /\ forks' = forks + 1
    BY DEF get_free_proc
  <2>2. QED
    BY <2>1, BoundsAssumption DEF TypeOK
<1>3. m \in Member
  BY DEF TypeOK
<1> HIDE DEF m
<1>4. Effect(m) \in Effects
  BY <1>3, EffectType
<1>5. m.nr_init \in Int /\ m.owned_slots \in Int /\ m.free_slots \in Int
  BY <1>3 DEF Member
<1>6. max_owned_slots(m) \in Int
  BY <1>5, Limits DEF max_owned_slots
<1>7. m.nr_init > 0 => left \in Int
  <2>1. m.nr_init > 0 => fair \in Int
    BY <1>5, <1>6, CeilingType
  <2> HIDE DEF fair
  <2>2. QED
    BY <2>1, <1>5, Limits
<1> HIDE DEF left
<1>8. m.nr_init > 0 => mcast_rqst_slots(n, left, Effect(m)) \in Effects
  BY <1>4, <1>7, RequestType
<1>9. ~(asks(late) /\ m.nr_init <= 0) => e(late) \in Effects
  BY <1>4, <1>5, <1>8
<1> HIDE DEF asks, e
<1>10. next # {} => (CHOOSE i \in next : TRUE) \in Slot
  BY <1>3, FirstFreeType
<1>11. \A x \in Effects, i \in Slot : [x EXCEPT !.m.child = i] \in Effects
  BY DEF Effects, Member
<1>12. \A x \in Effects : Dead(x, "assert") \in Effects /\ Dead(x, "divided by 0") \in Effects
  BY DeadType DEF Reasons
<1>13. r(late) \in Effects
  BY <1>4, <1>9, <1>10, <1>11, <1>12
<1> HIDE DEF r
<1>14. /\ up' \subseteq Node
       /\ inbox' \in [Node -> Seq(Message)]
       /\ mbr' \in [Node -> Member]
       /\ failed' \subseteq Reasons
  BY <1>1, <1>13, FinishesType DEF TypeOK
<1>15. QED
  BY <1>2, <1>14 DEF get_free_proc, TypeOK

LEMMA ForkType == ASSUME TypeOK, NEW n \in Node, do_fork(n) PROVE TypeOK'
<1> DEFINE m    == mbr[n]
           free == m.free_slots - 1
           m2   == IF m.child \in m.bound \cup m.no_map THEN [m EXCEPT !.child = none]
                   ELSE [m EXCEPT !.child = none, !.bound = m.bound \cup {m.child},
                                  !.free_slots = free]
<1>1. m \in Member /\ m.child # none
  BY DEF do_fork, TypeOK
<1>2. mbr' = [mbr EXCEPT ![n] = m2]
  BY DEF do_fork
<1> HIDE DEF m
<1>3. free \in Int
  BY <1>1 DEF Member
<1> HIDE DEF free
<1>4. m2 \in Member
  BY <1>1, <1>3 DEF Member
<1> HIDE DEF m2
<1>5. mbr' \in [Node -> Member]
  BY <1>2, <1>4 DEF TypeOK
<1>6. QED
  BY <1>5 DEF do_fork, TypeOK

LEMMA ExitType == ASSUME TypeOK, NEW n \in Node, do_exit(n) PROVE TypeOK'
<1> DEFINE m == mbr[n]
<1>1. PICK i \in m.bound, counted \in {0, 1} :
        mbr' = [mbr EXCEPT ![n] = [m EXCEPT !.bound = m.bound \ {i},
                                            !.free_slots = m.free_slots + counted]]
  BY DEF do_exit
<1> DEFINE free == m.free_slots + counted
           m2   == [m EXCEPT !.bound = m.bound \ {i}, !.free_slots = free]
<1>2. m \in Member
  BY DEF TypeOK
<1>3. mbr' = [mbr EXCEPT ![n] = m2]
  BY <1>1
<1> HIDE DEF m
<1>4. free \in Int
  BY <1>2 DEF Member
<1> HIDE DEF free
<1>5. m2 \in Member
  BY <1>2, <1>4 DEF Member
<1> HIDE DEF m2
<1>6. mbr' \in [Node -> Member]
  BY <1>3, <1>5 DEF TypeOK
<1>7. QED
  BY <1>6 DEF do_exit, TypeOK

LEMMA StepType == TypeOK /\ [Next]_vars => TypeOK'
<1> SUFFICES ASSUME TypeOK, [Next]_vars PROVE TypeOK'
  OBVIOUS
<1>1. CASE Next
  <2>1. PICK n \in Node :
          \/ Start(n) \/ Crash(n) \/ Receive(n) \/ MainWaits(n) \/ MainRuns(n)
          \/ get_free_proc(n) \/ do_fork(n) \/ do_exit(n)
    BY <1>1 DEF Next
  <2>2. QED
    BY <2>1, StartType, CrashType, ReceiveType, MainWaitsType, MainRunsType,
       GetFreeType, ForkType, ExitType
<1>2. CASE UNCHANGED vars
  BY <1>2 DEF vars, TypeOK
<1>3. QED
  BY <1>1, <1>2

LEMMA InitType == Init => TypeOK
<1> SUFFICES ASSUME Init PROVE TypeOK
  OBVIOUS
<1>1. inbox \in [Node -> Seq(Message)] /\ mbr \in [Node -> Member]
  BY FreshType DEF Init
<1>2. starts \in 0 .. StartLimit /\ crashes \in 0 .. CrashLimit /\ forks \in 0 .. ForkLimit
  BY BoundsAssumption DEF Init
<1>3. QED
  BY <1>1, <1>2 DEF Init, TypeOK

(* Type correctness: no handler of the slots thread, no call of the PM and no *)
(* crash takes a counter, a bitmap, the table or a message out of its type.   *)
THEOREM TypeCorrect == Spec => []TypeOK
BY InitType, StepType, PTL DEF Spec
=============================================================================
