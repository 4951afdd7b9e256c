------------------------------ MODULE MCDvkIpc ------------------------------
(* Instances of DvkIpc for TLC: who may call what, and whom. *)
EXTENDS DvkIpcRendezvous, TLC

Nobody == {}
Bottom == {0}
Nothing == [p \in Procs |-> {}]
Self == [p \in Procs |-> {p}]

Pair == {0, 1}
Trio == {0, 1, 2}
Four == {0, 1, 2, 3}

\* A server below its two clients: sendrec against rcvrqst and reply.
RpcIpcTo == 0 :> {1, 2} @@ 1 :> {0} @@ 2 :> {0}

QueueSources == 0 :> {ANY, 1} @@ 1 :> {} @@ 2 :> {}
AnySources == 0 :> {ANY} @@ 1 :> {} @@ 2 :> {}

\* A server below its clients.
ServiceIpcTo == 0 :> {1, 2} @@ 1 :> {0} @@ 2 :> {0}
ServiceCalls == 0 :> {"receive", "rcvrqst", "reply"} @@ 1 :> {"send", "sendrec"} @@ 2 :> {"sendrec"}

\* Consumers above the producers, which may give up and turn to another: the
\* receivers release their mutex to lock a sender.  3 never calls: a receive
\* from it skips every sender.
PeersIpcTo == 0 :> {1, 2} @@ 1 :> {0, 2} @@ 2 :> {} @@ 3 :> {}
PeersCalls == 0 :> {"send"} @@ 1 :> {"receive", "send"} @@ 2 :> {"receive"} @@ 3 :> {}
PeersSources == 0 :> {} @@ 1 :> {ANY} @@ 2 :> {ANY, 1, 3} @@ 3 :> {}

\* A driver below the process it notifies: each makes the blocking calls of
\* the other, and the upper one waits in every way.
NotifyIpcTo == 0 :> {1} @@ 1 :> {0}
NotifyCalls == 0 :> {"notify", "reply", "sendrec"} @@
               1 :> {"receive", "rcvrqst", "sendrec"}
NotifySources == 0 :> {} @@ 1 :> {ANY, 0}
Top == {1}

\* A server below two clients that send and sendrec.
LiveCalls == 0 :> {"receive", "rcvrqst", "reply"} @@
             1 :> {"send", "sendrec"} @@ 2 :> {"send", "sendrec"}

\* The server replies to the sendrec it took, and only then takes the next
\* message.  It keeps taking messages; the clients may stop calling.
Owes(d) == AwaitsReply(proc[d], 0)
Disciplined ==
    /\ Next
    /\ call[0].op = "none" /\ call'[0].op \in {"receive", "rcvrqst"} =>
          \A d \in Procs : ~Owes(d)
    /\ call[0].op = "none" /\ call'[0].op = "reply" => Owes(call'[0].peer)
LiveSpec ==
    /\ Init /\ [][Disciplined]_vars /\ Fairness({0})
    /\ \A d \in Procs : WF_vars(Reply(0, d))
=============================================================================
