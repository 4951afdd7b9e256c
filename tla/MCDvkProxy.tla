----------------------------- MODULE MCDvkProxy -----------------------------
(* Instances of DvkProxy for TLC. *)
EXTENDS DvkProxy, TLC

TwoNodes == {"a", "b"}

\* A server on one node; on the other two clients, one of which also notifies
\* it, and a process it does not let in.
Office == {0, 1, 2, 3}
OfficeHome == 0 :> "a" @@ 1 :> "b" @@ 2 :> "b" @@ 3 :> "b"
OfficeIpcTo == 0 :> {1, 2, 3} @@ 1 :> {0} @@ 2 :> {0} @@ 3 :> {0}
OfficeRmtIpcTo == 0 :> {1, 2, 3} @@ 1 :> {0} @@ 2 :> {0} @@ 3 :> {}
OfficeCalls == 0 :> {"receive", "reply"} @@ 1 :> {"send", "sendrec"} @@
               2 :> {"sendrec", "notify"} @@ 3 :> {"send"}
OfficeSources == 0 :> {ANY} @@ 1 :> {} @@ 2 :> {} @@ 3 :> {}
OfficeLimit == 0 :> 3 @@ 1 :> 2 @@ 2 :> 1 @@ 3 :> 1
Nobody == {}
OfficeSpec == Spec /\ Fairness({0})
OfficeAnswered == Answered(0)

\* Two processes whose calls to each other time out or are interrupted.
Duo == {0, 1}
DuoHome == 0 :> "a" @@ 1 :> "b"
DuoIpcTo == 0 :> {1} @@ 1 :> {0}
DuoCalls == 0 :> {"receive", "reply", "send"} @@ 1 :> {"send", "sendrec", "receive"}
DuoSources == 0 :> {ANY} @@ 1 :> {ANY}
DuoLimit == 0 :> 1 @@ 1 :> 2
=============================================================================
