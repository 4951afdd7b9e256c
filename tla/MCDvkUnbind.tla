---------------------------- MODULE MCDvkUnbind -----------------------------
(* Instances of DvkUnbind for TLC. *)
EXTENDS DvkUnbind, TLC

\* A server between a process below it, which it sends to, and a client above.
\* Both may unbind it, and it may leave by itself.
Office == {0, 1, 2}
OfficeSends   == 0 :> {} @@ 1 :> {0} @@ 2 :> {1}
OfficeAsks    == 0 :> {} @@ 1 :> {} @@ 2 :> {1}
OfficeReplies == 0 :> {} @@ 1 :> {2} @@ 2 :> {}
OfficeSources == 0 :> {1} @@ 1 :> {ANY, 0} @@ 2 :> {}
OfficeUnbinds == 0 :> {1} @@ 1 :> {} @@ 2 :> {1}
OfficeLeavers == {1, 2}
FairSpec == Spec /\ Fairness
=============================================================================
