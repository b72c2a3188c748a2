--------------------------- MODULE DeliverySinks ---------------------------
(***************************************************************************)
(* Delivery of normalized outputs to the destinations an operator manages: *)
(* the cached list of sinks, the sinks that buffer lines and upload them a *)
(* batch at a time, their flusher threads, and the handlers that change    *)
(* the destinations and drop the list.  Threads share the list without a   *)
(* lock; a buffer has one, and an upload runs outside it.                  *)
(***************************************************************************)
EXTENDS Integers, FiniteSets

CONSTANTS
    Workers,        \* threads that process events and deliver
    Handler,        \* the thread of the request that changes a destination
    Destinations,   \* the destinations there may be
    Buffered,       \* those that buffer (s3); the others deliver at once
    BatchSize,      \* lines that make a batch (batch_size, 500)
    NoList,         \* _sink_cache before it is built and after it was dropped
    NoSink,
    MaxLines,       \* bound on outputs delivered
    MaxBuilds,      \* bound on lists built
    MaxChanges      \* bound on requests and restarts

ASSUME HandlerAssumption == Handler \notin Workers
ASSUME WorkersAssumption == IsFiniteSet(Workers)
ASSUME BufferedAssumption == Buffered \subseteq Destinations
ASSUME BatchAssumption == BatchSize \in Nat \ {0}
ASSUME BoundAssumption == MaxLines \in Nat /\ MaxBuilds \in Nat /\ MaxChanges \in Nat

Threads == Workers \cup {Handler}
Lines == 1 .. MaxLines

(* Each build of the list has a sink of its own for each destination. *)
Sinks == (1 .. MaxBuilds) \X Destinations
Dest(s) == s[2]

ASSUME NoListAssumption == \A S \in SUBSET Sinks : NoList # S
ASSUME NoSinkAssumption == \A s \in Sinks : NoSink # s

VARIABLES
    enabled,    \* the destinations that are stored and enabled
    builds,     \* how many lists were built
    buffer,     \* the lines in each sink's buffer
    flushing,   \* the lines each sink's flusher thread is uploading
    cache,      \* _sink_cache: a set of sinks, or NoList
    fresh,      \* the list is younger than CACHE_TTL
    thr,        \* what each thread is doing
    accepted,   \* the <<sink, line>> pairs a sink has taken
    uploaded,   \* those that reached their destination
    lost,       \* those that did not: a delivery failed, or the process died
    lines,      \* outputs so far
    changes     \* requests and restarts so far

vars == <<enabled, builds, buffer, flushing, cache, fresh, thr,
          accepted, uploaded, lost, lines, changes>>
store == <<enabled, changes>>
list == <<builds, cache, fresh>>

-----------------------------------------------------------------------------
(* A thread: its line, the sinks it has still to visit, the one it is at,  *)
(* and the lines it carries to an upload.                                  *)
Idle == [pc |-> "idle", line |-> 0, todo |-> {}, at |-> NoSink, body |-> {}]

(* Destinations were stored before the process started. *)
Init ==
    /\ enabled \in SUBSET Destinations
    /\ builds = 0
    /\ buffer = [s \in Sinks |-> {}]
    /\ flushing = [s \in Sinks |-> {}]
    /\ cache = NoList
    /\ fresh = FALSE
    /\ thr = [t \in Threads |-> Idle]
    /\ accepted = {}
    /\ uploaded = {}
    /\ lost = {}
    /\ lines = 0
    /\ changes = 0

-----------------------------------------------------------------------------
(* The list of sinks *)

(* _deliver, then get_destination_sinks: a fresh list will do. *)
StartDelivery(t) ==
    /\ thr[t].pc = "idle"
    /\ lines < MaxLines
    /\ lines' = lines + 1
    /\ thr' = [thr EXCEPT ![t] = [Idle EXCEPT !.line = lines + 1,
                 !.pc = IF cache # NoList /\ fresh THEN "list" ELSE "load"]]
    /\ UNCHANGED <<store, list, buffer, flushing, accepted, uploaded, lost>>

(* With these sinks to visit; without any the event goes nowhere. *)
Visiting(r, S) == IF S = {} THEN Idle ELSE [r EXCEPT !.pc = "visit", !.todo = S]

(* The list is read a second time; a handler may have dropped it since. *)
ReturnList(t) ==
    /\ thr[t].pc = "list"
    /\ thr' = [thr EXCEPT ![t] = Visiting(@, IF cache = NoList THEN {} ELSE cache)]
    /\ UNCHANGED <<store, list, buffer, flushing, accepted, uploaded, lost, lines>>

(* The rows are read and each gets a new sink, until the database or one   *)
(* of them fails: those built by then make up the list.                    *)
LoadDestinations(t, rows) ==
    /\ thr[t].pc = "load"
    /\ builds < MaxBuilds
    /\ builds' = builds + 1
    /\ thr' = [thr EXCEPT ![t].pc = "publish", ![t].todo = {builds + 1} \X rows]
    /\ UNCHANGED <<store, cache, fresh, buffer, flushing, accepted, uploaded, lost, lines>>

(* The list just built is everybody's, and the thread goes through it. *)
PublishList(t) ==
    /\ thr[t].pc = "publish"
    /\ cache' = thr[t].todo
    /\ fresh' = TRUE
    /\ thr' = [thr EXCEPT ![t] = Visiting(@, @.todo)]
    /\ UNCHANGED <<store, builds, buffer, flushing, accepted, uploaded, lost, lines>>

(* CACHE_TTL seconds pass. *)
Expire ==
    /\ fresh
    /\ fresh' = FALSE
    /\ UNCHANGED <<store, builds, cache, thr, buffer, flushing, accepted, uploaded, lost, lines>>

-----------------------------------------------------------------------------
(* Sinks *)

Pairs(s, body) == {<<s, l>> : l \in body}

(* An upload of these lines arrives, or they are gone. *)
Put(s, body, ok) ==
    IF ok THEN uploaded' = uploaded \cup Pairs(s, body) /\ UNCHANGED lost
    ELSE lost' = lost \cup Pairs(s, body) /\ UNCHANGED uploaded

(* The thread is through with the sink it is at. *)
Advance(r) == Visiting([r EXCEPT !.at = NoSink, !.body = {}], r.todo)

(* ConsoleSink, HttpSink, KafkaSink: the line arrives or it does not; an   *)
(* exception is logged and the next sink gets its turn.                    *)
DeliverAtOnce(t, s, ok) ==
    /\ thr[t].pc = "visit" /\ s \in thr[t].todo
    /\ Dest(s) \notin Buffered
    /\ accepted' = accepted \cup {<<s, thr[t].line>>}
    /\ Put(s, {thr[t].line}, ok)
    /\ thr' = [thr EXCEPT ![t] = Visiting(@, @.todo \ {s})]
    /\ UNCHANGED <<store, list, buffer, flushing, lines>>

(* S3Sink.deliver: the line joins the buffer under the lock; whoever fills *)
(* a batch flushes it.                                                     *)
AppendLine(t, s) ==
    /\ thr[t].pc = "visit" /\ s \in thr[t].todo
    /\ Dest(s) \in Buffered
    /\ accepted' = accepted \cup {<<s, thr[t].line>>}
    /\ buffer' = [buffer EXCEPT ![s] = @ \cup {thr[t].line}]
    /\ thr' = [thr EXCEPT ![t] =
                 IF Cardinality(buffer[s] \cup {thr[t].line}) >= BatchSize
                 THEN [@ EXCEPT !.pc = "flush", !.at = s, !.todo = thr[t].todo \ {s}]
                 ELSE Visiting(@, @.todo \ {s})]
    /\ UNCHANGED <<store, list, flushing, uploaded, lost, lines>>

(* Mutant: the lines are read, and the buffer is emptied after the upload. *)
ReadBuffer(t) ==
    /\ thr[t].pc = "flush"
    /\ thr' = [thr EXCEPT ![t] =
                 IF buffer[@.at] = {} THEN Advance(@)
                 ELSE [@ EXCEPT !.pc = "upload", !.body = buffer[thr[t].at]]]
    /\ UNCHANGED <<store, list, buffer, flushing, accepted, uploaded, lost, lines>>

(* flush: the buffer is swapped for an empty one under the lock ... *)
SwapBuffer(t) ==
    /\ thr[t].pc = "flush"
    /\ buffer' = [buffer EXCEPT ![thr[t].at] = {}]
    /\ thr' = [thr EXCEPT ![t] =
                 IF buffer[@.at] = {} THEN Advance(@)
                 ELSE [@ EXCEPT !.pc = "upload", !.body = buffer[thr[t].at]]]
    /\ UNCHANGED <<store, list, flushing, accepted, uploaded, lost, lines>>

(* ... and its lines are uploaded outside it. *)
Upload(t, ok) ==
    /\ thr[t].pc = "upload"
    /\ Put(thr[t].at, thr[t].body, ok)
    /\ thr' = [thr EXCEPT ![t] = Advance(@)]
    /\ UNCHANGED <<store, list, buffer, flushing, accepted, lines>>

(* Mutant: a sink that has left the list is not flushed any more. *)
FlusherOfList(s) ==
    /\ cache # NoList /\ s \in cache
    /\ flushing[s] = {} /\ buffer[s] # {}
    /\ flushing' = [flushing EXCEPT ![s] = buffer[s]]
    /\ buffer' = [buffer EXCEPT ![s] = {}]
    /\ UNCHANGED <<store, list, thr, accepted, uploaded, lost, lines>>

(* _flush_loop: a sink's own thread flushes what there is, also once the   *)
(* sink has left the list.                                                 *)
FlusherSwaps(s) ==
    /\ flushing[s] = {} /\ buffer[s] # {}
    /\ flushing' = [flushing EXCEPT ![s] = buffer[s]]
    /\ buffer' = [buffer EXCEPT ![s] = {}]
    /\ UNCHANGED <<store, list, thr, accepted, uploaded, lost, lines>>

FlusherUploads(s, ok) ==
    /\ flushing[s] # {}
    /\ Put(s, flushing[s], ok)
    /\ flushing' = [flushing EXCEPT ![s] = {}]
    /\ UNCHANGED <<store, list, thr, buffer, accepted, lines>>

-----------------------------------------------------------------------------
(* Destinations *)

(* create_destination, update_destination, delete_destination, up to the   *)
(* commit: the list is dropped only afterwards.                            *)
ChangeDestination(d) ==
    /\ thr[Handler].pc = "idle"
    /\ changes < MaxChanges
    /\ changes' = changes + 1
    /\ enabled' = IF d \in enabled THEN enabled \ {d} ELSE enabled \cup {d}
    /\ thr' = [thr EXCEPT ![Handler].pc = "invalidate"]
    /\ UNCHANGED <<list, buffer, flushing, accepted, uploaded, lost, lines>>

(* The handler flushes the next of its sinks, or goes on to drop the list. *)
Flushing(r, S) ==
    IF S = {} THEN [Idle EXCEPT !.pc = "drop"]
    ELSE [r EXCEPT !.pc = "flushing", !.todo = S, !.at = NoSink, !.body = {}]

(* invalidate_destination_sinks: every buffered sink of the list is        *)
(* flushed, a failure is logged, and the list is dropped.                  *)
Invalidate ==
    /\ thr[Handler].pc = "invalidate"
    /\ thr' = [thr EXCEPT ![Handler] =
                 Flushing(@, IF cache = NoList THEN {} ELSE {s \in cache : Dest(s) \in Buffered})]
    /\ UNCHANGED <<store, list, buffer, flushing, accepted, uploaded, lost, lines>>

InvalidateSwaps(s) ==
    /\ thr[Handler].pc = "flushing" /\ s \in thr[Handler].todo
    /\ buffer' = [buffer EXCEPT ![s] = {}]
    /\ thr' = [thr EXCEPT ![Handler] =
                 IF buffer[s] = {} THEN Flushing(@, @.todo \ {s})
                 ELSE [@ EXCEPT !.pc = "flushed", !.todo = thr[Handler].todo \ {s},
                                !.at = s, !.body = buffer[s]]]
    /\ UNCHANGED <<store, list, flushing, accepted, uploaded, lost, lines>>

InvalidateUploads(ok) ==
    /\ thr[Handler].pc = "flushed"
    /\ Put(thr[Handler].at, thr[Handler].body, ok)
    /\ thr' = [thr EXCEPT ![Handler] = Flushing(@, @.todo)]
    /\ UNCHANGED <<store, list, buffer, flushing, accepted, lines>>

DropList ==
    /\ thr[Handler].pc = "drop"
    /\ cache' = NoList
    /\ thr' = [thr EXCEPT ![Handler] = Idle]
    /\ UNCHANGED <<store, builds, fresh, buffer, flushing, accepted, uploaded, lost, lines>>

(* The process is restarted: what only it held is gone. *)
Restart ==
    /\ changes < MaxChanges
    /\ changes' = changes + 1
    /\ lost' = accepted \ uploaded
    /\ buffer' = [s \in Sinks |-> {}]
    /\ flushing' = [s \in Sinks |-> {}]
    /\ thr' = [t \in Threads |-> Idle]
    /\ cache' = NoList
    /\ fresh' = FALSE
    /\ UNCHANGED <<enabled, builds, accepted, uploaded, lines>>

-----------------------------------------------------------------------------
WorkerStep(t) ==
    \/ ReturnList(t) \/ PublishList(t) \/ SwapBuffer(t)
    \/ \E rows \in SUBSET enabled : LoadDestinations(t, rows)
    \/ \E ok \in BOOLEAN : Upload(t, ok) \/ \E s \in thr[t].todo : DeliverAtOnce(t, s, ok)
    \/ \E s \in thr[t].todo : AppendLine(t, s)

FlusherStep(s) == FlusherSwaps(s) \/ \E ok \in BOOLEAN : FlusherUploads(s, ok)

HandlerStep ==
    \/ Invalidate \/ DropList
    \/ \E s \in thr[Handler].todo : InvalidateSwaps(s)
    \/ \E ok \in BOOLEAN : InvalidateUploads(ok)

Next ==
    \/ \E t \in Workers : StartDelivery(t) \/ WorkerStep(t)
    \/ \E s \in Sinks : FlusherStep(s)
    \/ \E d \in Destinations : ChangeDestination(d)
    \/ HandlerStep \/ Expire \/ Restart

Spec == Init /\ [][Next]_vars

(* Threads run on; a flusher wakes up every flush_interval seconds. *)
Fairness ==
    /\ \A t \in Workers : WF_vars(WorkerStep(t))
    /\ \A s \in Sinks : WF_vars(FlusherStep(s))
    /\ WF_vars(HandlerStep)

FairSpec == Spec /\ Fairness

-----------------------------------------------------------------------------
(* Properties *)

Thread == [pc : {"idle", "list", "load", "publish", "visit", "flush", "upload",
                 "invalidate", "flushing", "flushed", "drop"},
           line : {0} \cup Lines, todo : SUBSET Sinks, at : {NoSink} \cup Sinks, body : SUBSET Lines]

TypeOK ==
    /\ enabled \subseteq Destinations
    /\ builds \in 0 .. MaxBuilds
    /\ buffer \in [Sinks -> SUBSET Lines]
    /\ flushing \in [Sinks -> SUBSET Lines]
    /\ cache \in {NoList} \cup SUBSET Sinks
    /\ fresh \in BOOLEAN
    /\ thr \in [Threads -> Thread]
    /\ accepted \subseteq Sinks \X Lines
    /\ uploaded \subseteq Sinks \X Lines
    /\ lost \subseteq Sinks \X Lines
    /\ lines \in 0 .. MaxLines
    /\ changes \in 0 .. MaxChanges

(* Where a line that a sink has taken may be. *)
Carried(t, s) == IF thr[t].at = s THEN thr[t].body ELSE {}

OnePlace(s, l) ==
    /\ <<s, l>> \in accepted <=>
           \/ l \in buffer[s] \/ l \in flushing[s]
           \/ \E t \in Threads : l \in Carried(t, s)
           \/ <<s, l>> \in uploaded \/ <<s, l>> \in lost
    /\ l \in buffer[s] => l \notin flushing[s] /\ \A t \in Threads : l \notin Carried(t, s)
    /\ l \in flushing[s] => \A t \in Threads : l \notin Carried(t, s)
    /\ \A t, u \in Threads : l \in Carried(t, s) /\ l \in Carried(u, s) => t = u
    /\ <<s, l>> \in uploaded \/ <<s, l>> \in lost =>
           /\ l \notin buffer[s] /\ l \notin flushing[s]
           /\ \A t \in Threads : l \notin Carried(t, s)
    /\ ~(<<s, l>> \in uploaded /\ <<s, l>> \in lost)

(* A line that a sink has taken is in exactly one place: in the buffer, in *)
(* one upload, at the destination, or given up.  So none is uploaded twice *)
(* and none vanishes between the swap of a buffer and its upload, whoever  *)
(* flushes, however often the list is rebuilt.                             *)
InOnePlace == \A s \in Sinks, l \in Lines : OnePlace(s, l)

(* When no more outputs come (MaxLines bounds them), every line that was   *)
(* taken is uploaded or given up, also when its sink has left the list.    *)
EveryLineSettles == <>[](accepted = uploaded \cup lost)
=============================================================================
