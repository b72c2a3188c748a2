-------------------------- MODULE MCSynthesisJobs --------------------------
(* Instances of SynthesisJobs. *)
EXTENDS SynthesisJobs

CONSTANTS d1, p1, p2

OneDrift == {d1}
TwoPollers == {p1, p2}
=============================================================================
