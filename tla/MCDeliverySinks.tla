-------------------------- MODULE MCDeliverySinks --------------------------
(* What leaves the engine: the sinks and the live stream.  They share no   *)
(* state, so a behaviour runs the one or the other.                        *)
EXTENDS DeliverySinks, LiveHub

VARIABLE part

all == <<vars, liveVars, part>>

(* A behaviour about the live stream needs no destinations; one about the  *)
(* sinks starts with a buffering one.                                      *)
MCInit ==
    /\ Init /\ LiveInit
    /\ part \in {"sinks", "live"}
    /\ part = "live" => enabled = {}
    /\ part = "sinks" => Buffered \subseteq enabled

(* A second viewer only where nothing is filtered, and fewer messages.     *)
Watched ==
    \/ Cardinality({v \in Viewers : ws[v].pc # "new"}) <= 1
    \/ /\ Len(published) <= 2
       /\ \A v \in Viewers : ws[v].filter = AnySource
       /\ Cardinality(Range(published)) <= 1

MCNext ==
    \/ part = "sinks" /\ Next /\ UNCHANGED <<liveVars, part>>
    \/ part = "live" /\ LiveNext /\ Watched' /\ UNCHANGED <<vars, part>>

(* Threads run on, a flusher wakes up every flush_interval seconds; the    *)
(* event loop runs what is ready, and timers fire.                         *)
MCFairness ==
    /\ \A t \in Workers : WF_all(part = "sinks" /\ WorkerStep(t) /\ UNCHANGED <<liveVars, part>>)
    /\ \A s \in Sinks : WF_all(part = "sinks" /\ FlusherStep(s) /\ UNCHANGED <<liveVars, part>>)
    /\ WF_all(part = "sinks" /\ HandlerStep /\ UNCHANGED <<liveVars, part>>)
    /\ WF_all(part = "live" /\ _put /\ UNCHANGED <<vars, part>>)
    /\ \A v \in Viewers : WF_all(part = "live" /\ ViewerStep(v) /\ UNCHANGED <<vars, part>>)

MCSpec == MCInit /\ [][MCNext]_all /\ MCFairness
=============================================================================
