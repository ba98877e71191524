---------------------------- MODULE MCAudioLease ----------------------------
(* The companion and a probe beside it at a ring of two frames and blocks of   *)
(* one or two.  In "ring" nobody stalls or dies; in "mishaps" no process       *)
(* begins a block that ends after FewFrames.                                  *)
EXTENDS AudioLease

CONSTANTS p1, p2, FewFrames
MCProducer == {p1, p2}
MCResetter == {p1, p2, server}

VARIABLE part
MCInit == LeaseInit /\ part \in {"ring", "mishaps"}
MCNext ==
  /\ LeaseNext /\ UNCHANGED part
  /\ part = "ring" => mishaps' = 0
  /\ part = "mishaps" => \A p \in Producer : write'[p].from + write'[p].count <= FewFrames
MCSpec == MCInit /\ [][MCNext]_<<leaseAndRing, part>> /\ LeaseFairness
=============================================================================
