-------------------------- MODULE MCDriftLifecycle --------------------------
(* Instances of DriftLifecycle: two events of two shapes, two of one shape, *)
(* or a pile of two of one shape beside an event of another.               *)
EXTENDS DriftLifecycle, TLC

CONSTANTS t1, t2, e1, e2, e3, f0, f1, f2

MCFields == {f0, f1, f2}
TwinFields == {f0, f1}
MCBase == {f0}
OneThread == {t1}
TwoThreads == {t1, t2}
TwoEvents == {e1, e3}
TwinEvents == {e1, e2}
PiledEvents == {e1, e2, e3}
ThreadSymmetry == Permutations(TwoThreads)
MCCarries == [e \in Events |-> CASE e = e3 -> {f0, f2}
                               [] OTHER -> {f0, f1}]

(* Exchanging the two events together with the fields that tell their      *)
(* shapes apart leaves MCCarries as it is.                                 *)
ShapeSwap == (e1 :> e3) @@ (e3 :> e1) @@ (f1 :> f2) @@ (f2 :> f1)
ThreadAndShapeSymmetry == ThreadSymmetry \cup {ShapeSwap}
=============================================================================
