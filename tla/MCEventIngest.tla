--------------------------- MODULE MCEventIngest ---------------------------
(* Instances of EventIngest, in one run: two requests at a time that may   *)
(* die, over two payloads and one batch; and one request at a time (the    *)
(* other slot is absent), over all payloads and longer batches, with a     *)
(* death among the first events.  The engine fails on b, holds c, and x    *)
(* has no source.                                                          *)
EXTENDS EventIngest

CONSTANTS t1, t2, a, b, c, d, x, fw

TwoThreads == {t1, t2}
MCItems == {a, b, c, d, x}
MCSource == [i \in Items |-> IF i = x THEN NoSource ELSE fw]
MCOutcome == [i \in Items |-> IF i = b THEN "broken" ELSE IF i = c THEN "held" ELSE "output"]
MCBatches == {<<a, b, a>>, <<a, c, a, d>>, <<d, c>>, <<x, x>>, <<b, d>>}
ThreadSymmetry == Permutations(TwoThreads)

MCInit ==
    /\ Init
    /\ \/ \A t \in Threads : th[t] = Idle
       \/ \A t \in Threads : th[t] = IF t = t1 THEN Idle ELSE Absent

Ops == {th[t].op : t \in Threads}

Scope ==
    IF Alone
    THEN failures = 1 => nextRef <= 3
    ELSE /\ nextRef <= 3
         /\ "strip" \in Ops => nextRef <= 2 /\ Ops \subseteq {"strip", "delete", "none"}
         /\ \A t \in Threads : \/ Len(th[t].batch) = 3
                               \/ th[t].batch = <<>> /\ Range(th[t].lines) \subseteq {a, b}

MCNext == Next /\ Scope'
MCSpec == MCInit /\ [][MCNext]_vars
=============================================================================
