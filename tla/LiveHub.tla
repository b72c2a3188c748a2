------------------------------ MODULE LiveHub ------------------------------
(***************************************************************************)
(* The live stream: engine threads hand messages to the event loop, which  *)
(* puts them into the bounded queue of every viewer; a handler per viewer  *)
(* sends what passes its filter, pings when nothing comes for 15 seconds,  *)
(* and leaves the hub when a send fails.                                   *)
(***************************************************************************)
EXTENDS Integers, Sequences, SequencesExt

CONSTANTS
    Viewers,        \* web sockets; each is opened at most once
    Sources,        \* sources of the events
    AnySource,      \* no filter
    QueueSize,      \* messages a viewer's queue holds (100)
    MaxMessages     \* bound on messages

ASSUME SourceAssumption == AnySource \notin Sources
ASSUME QueueAssumption == QueueSize \in Nat \ {0}
ASSUME MessageAssumption == MaxMessages \in Nat

VARIABLES
    published,  \* the source of each message, in the order they were published
    ready,      \* the loop's callbacks: numbers of the messages to be put
    subs,       \* viewers in the hub
    ws          \* each viewer: its filter, how many messages there were when it
                \* came, its queue, its handler and what it was sent

liveVars == <<published, ready, subs, ws>>

-----------------------------------------------------------------------------
Closed == [pc |-> "new", filter |-> AnySource, since |-> 0, queue |-> <<>>, msg |-> 0,
           gone |-> FALSE, sent |-> <<>>, dropped |-> {}]

LiveInit ==
    /\ published = <<>>
    /\ ready = <<>>
    /\ subs = {}
    /\ ws = [v \in Viewers |-> Closed]

(* LiveHub.publish, from any thread: nothing is kept when nobody watches.  *)
publish(s) ==
    /\ Len(published) < MaxMessages
    /\ published' = Append(published, s)
    /\ ready' = IF subs = {} THEN ready ELSE Append(ready, Len(published) + 1)
    /\ UNCHANGED <<subs, ws>>

(* Mutant: messages are put in front. *)
PutInFront ==
    /\ ready # <<>>
    /\ ready' = Tail(ready)
    /\ ws' = [v \in Viewers |-> IF v \in subs /\ Len(ws[v].queue) < QueueSize
                                THEN [ws[v] EXCEPT !.queue = <<Head(ready)>> \o @] ELSE ws[v]]
    /\ UNCHANGED <<published, subs>>

(* publish._put, on the loop: one message for every viewer that has room.  *)
_put ==
    /\ ready # <<>>
    /\ ready' = Tail(ready)
    /\ ws' = [v \in Viewers |->
                IF v \notin subs THEN ws[v]
                ELSE IF Len(ws[v].queue) < QueueSize
                     THEN [ws[v] EXCEPT !.queue = Append(@, Head(ready))]
                     ELSE [ws[v] EXCEPT !.dropped = @ \cup {Head(ready)}]]
    /\ UNCHANGED <<published, subs>>

(* ws_live: accept and subscribe. *)
ws_live(v, filter) ==
    /\ ws[v].pc = "new"
    /\ subs' = subs \cup {v}
    /\ ws' = [ws EXCEPT ![v].pc = "wait", ![v].filter = filter, ![v].since = Len(published)]
    /\ UNCHANGED <<published, ready>>

(* The next message is taken off the queue; one of another source is left  *)
(* out.                                                                    *)
Receive(v) ==
    LET k == Head(ws[v].queue)
        rest == [ws[v] EXCEPT !.queue = Tail(@)]
    IN  /\ ws[v].pc = "wait"
        /\ ws[v].queue # <<>>
        /\ ws' = [ws EXCEPT ![v] = IF ws[v].filter \in {AnySource, published[k]}
                                   THEN [rest EXCEPT !.pc = "send", !.msg = k] ELSE rest]
        /\ UNCHANGED <<published, ready, subs>>

(* 15 seconds without a message: a ping is due. *)
Timeout(v) ==
    /\ ws[v].pc = "wait"
    /\ ws[v].queue = <<>>
    /\ ws' = [ws EXCEPT ![v].pc = "ping"]
    /\ UNCHANGED <<published, ready, subs>>

(* A send that works ... *)
Send(v) ==
    /\ ws[v].pc \in {"send", "ping"}
    /\ ~ws[v].gone
    /\ ws' = [ws EXCEPT ![v].pc = "wait", ![v].msg = 0,
                        ![v].sent = IF ws[v].pc = "send" THEN Append(@, ws[v].msg) ELSE @]
    /\ UNCHANGED <<published, ready, subs>>

(* Mutant: the handler ends and stays in the hub. *)
EndQuietly(v) ==
    /\ ws[v].pc \in {"send", "ping"}
    /\ ws[v].gone
    /\ ws' = [ws EXCEPT ![v].pc = "over"]
    /\ UNCHANGED <<published, ready, subs>>

(* ... and one that fails: the viewer leaves the hub. *)
SendFails(v) ==
    /\ ws[v].pc \in {"send", "ping"}
    /\ ws[v].gone
    /\ subs' = subs \ {v}
    /\ ws' = [ws EXCEPT ![v].pc = "over"]
    /\ UNCHANGED <<published, ready>>

(* The browser goes away; the server learns of it when it sends. *)
Leave(v) ==
    /\ ws[v].pc \notin {"new", "over"}
    /\ ~ws[v].gone
    /\ ws' = [ws EXCEPT ![v].gone = TRUE]
    /\ UNCHANGED <<published, ready, subs>>

ViewerStep(v) == Receive(v) \/ Timeout(v) \/ Send(v) \/ SendFails(v)

LiveNext ==
    \/ \E s \in Sources : publish(s)
    \/ _put
    \/ \E v \in Viewers : ViewerStep(v) \/ Leave(v)
                          \/ \E f \in Sources \cup {AnySource} : ws_live(v, f)

LiveSpec == LiveInit /\ [][LiveNext]_liveVars

-----------------------------------------------------------------------------
LiveTypeOK ==
    /\ published \in Seq(Sources)
    /\ Range(ready) \subseteq DOMAIN published
    /\ subs \subseteq Viewers
    /\ ws \in [Viewers -> [pc : {"new", "wait", "send", "ping", "over"},
                           filter : Sources \cup {AnySource}, since : Nat, queue : Seq(Nat), msg : Nat,
                           gone : BOOLEAN, sent : Seq(Nat), dropped : SUBSET Nat]]

Seen(v) == ws[v].sent \o (IF ws[v].pc = "send" THEN <<ws[v].msg>> ELSE <<>>)
Passes(v, k) == ws[v].filter \in {AnySource, published[k]}

(* What a viewer sees is in the order of publication, without repetition,  *)
(* of its source; and of the messages since it came only those are missing *)
(* that its full queue turned away.  It may also see older ones the loop   *)
(* had not put yet, and then not every one: what was published while       *)
(* nobody watched is not kept.                                             *)
ViewersSeeInOrder ==
    \A v \in Viewers :
        /\ \A i, j \in DOMAIN Seen(v) : i < j => Seen(v)[i] < Seen(v)[j]
        /\ \A k \in Range(Seen(v)) : k \in DOMAIN published /\ Passes(v, k)
        /\ \A k \in DOMAIN published :
              /\ ws[v].since < k /\ Passes(v, k)
              /\ \E l \in Range(Seen(v)) : k < l
              => k \in Range(Seen(v)) \cup ws[v].dropped

(* Something is about to be sent to the viewer, or waits in its queue. *)
SendDue(v) ==
    \/ ws[v].pc \in {"send", "ping"}
    \/ ws[v].pc = "wait" /\ \E k \in Range(ws[v].queue) : Passes(v, k)

(* Nothing is on its way to the viewer. *)
NothingComes(v) == ready = <<>> /\ ws[v].queue = <<>>

(* A viewer that went away leaves the hub with the next send that it is    *)
(* due, however busy the stream is; and if the stream falls silent for     *)
(* good, every one that went away leaves, by the ping.  On a stream that   *)
(* never falls silent and holds nothing for it, a viewer may stay for ever *)
(* (ws_live).                                                              *)
GoneViewersLeave ==
    \A v \in Viewers :
        /\ (ws[v].gone /\ SendDue(v)) ~> v \notin subs
        /\ <>[]NothingComes(v) => (ws[v].gone ~> v \notin subs)
=============================================================================
