---------------------------- MODULE PipelineQueue ----------------------------
(***************************************************************************)
(* The in-process pipeline: syslog listeners on the event loop and the     *)
(* file watcher's thread enqueue items, worker coroutines take them off    *)
(* and run the engine.                                                     *)
(*                                                                         *)
(* The event loop runs one callback or coroutine at a time, a worker until *)
(* it waits in queue.get().  The watcher's thread runs beside it and uses  *)
(* the same asyncio.Queue, whose operations are several steps each.  The   *)
(* interpreter changes threads at calls and jumps only, so that += on one  *)
(* of its counters is one step.                                            *)
(***************************************************************************)
EXTENDS Integers, Sequences, SequencesExt, FiniteSets

CONSTANTS
    PipelineWorkers,\* worker coroutines (pipeline_workers, at least one)
    MaxQueue,       \* capacity of the queue (pipeline_max_queue)
    Watching,       \* TRUE: the file watcher is on
    MaxItems,       \* bound on the items offered
    MaxRestarts     \* bound on restarts of the process

ASSUME QueueAssumption == MaxQueue \in Nat \ {0}
ASSUME WatchingAssumption == Watching \in BOOLEAN
ASSUME ItemsAssumption == MaxItems \in Nat /\ MaxRestarts \in Nat
ASSUME WorkerAssumption == PipelineWorkers \in Nat \ {0}

VARIABLES
    queue,      \* the items that wait
    getters,    \* workers parked in queue.get(), in order
    ready,      \* workers the loop will resume, in order
    turn,       \* the worker that has the event loop, or NoWorker
    step,       \* step[w]: what worker w does next
    hand,       \* hand[w]: the item worker w has taken, 0 for none
    unfinished, \* the queue's count of items put and not yet task_done
    watcher,    \* the watcher's step in put_nowait, and its item
    offered,    \* items offered so far; item n is the n-th
    taken,      \* items workers have taken, in order
    done,       \* items that went through the engine, or failed there
    shed,       \* items dropped because the queue was full (_dropped_total)
    lost,       \* items a restart forgot
    restarts

vars == <<queue, getters, ready, turn, step, hand, unfinished, watcher, offered, taken,
          done, shed, lost, restarts>>

Items == 1 .. MaxItems

(* worker_factories: the workers are started in order. *)
Workers == 1 .. PipelineWorkers
WorkerOrder == [w \in Workers |-> w]
NoWorker == 0

Init ==
    /\ queue = <<>>
    /\ getters = <<>>
    /\ ready = WorkerOrder
    /\ turn = NoWorker
    /\ step = [w \in Workers |-> "get"]
    /\ hand = [w \in Workers |-> 0]
    /\ unfinished = 0
    /\ watcher = [pc |-> "idle", item |-> 0]
    /\ offered = 0
    /\ taken = <<>>
    /\ done = {}
    /\ shed = {}
    /\ lost = {}
    /\ restarts = 0

-----------------------------------------------------------------------------
(* Producers *)

Full == Len(queue) >= MaxQueue

(* Queue._wakeup_next: the first parked getter is resumed. *)
WakeNext ==
    IF getters = <<>> THEN UNCHANGED <<getters, ready>>
    ELSE /\ getters' = Tail(getters)
         /\ ready' = Append(ready, Head(getters))

(* put_nowait on the loop: nothing else on the loop sees it half done. *)
Put(i) ==
    /\ queue' = Append(queue, i)
    /\ unfinished' = unfinished + 1
    /\ WakeNext

(* Mutant: the oldest item makes room. *)
EnqueueDropsOldest ==
    /\ turn = NoWorker
    /\ offered < MaxItems
    /\ offered' = offered + 1
    /\ IF Full THEN /\ queue' = Append(Tail(queue), offered + 1)
                    /\ shed' = shed \cup {Head(queue)}
                    /\ UNCHANGED <<getters, ready, unfinished>>
       ELSE Put(offered + 1) /\ UNCHANGED shed
    /\ UNCHANGED <<turn, step, hand, watcher, taken, done, lost, restarts>>

(* Mutant: nobody is woken. *)
EnqueueQuietly ==
    /\ turn = NoWorker
    /\ offered < MaxItems
    /\ offered' = offered + 1
    /\ IF Full THEN shed' = shed \cup {offered + 1} /\ UNCHANGED <<queue, unfinished>>
       ELSE /\ queue' = Append(queue, offered + 1)
            /\ unfinished' = unfinished + 1
            /\ UNCHANGED shed
    /\ UNCHANGED <<getters, ready, turn, step, hand, watcher, taken, done, lost, restarts>>

(* A datagram or a line on a connection: its callback has the loop. *)
enqueue ==
    /\ turn = NoWorker
    /\ offered < MaxItems
    /\ offered' = offered + 1
    /\ IF Full THEN shed' = shed \cup {offered + 1} /\ UNCHANGED <<queue, getters, ready, unfinished>>
       ELSE Put(offered + 1) /\ UNCHANGED shed
    /\ UNCHANGED <<turn, step, hand, watcher, taken, done, lost, restarts>>

(* The watcher's thread goes through put_nowait while the loop goes on: it *)
(* looks for room, appends, counts, and wakes a worker.                    *)
WatcherChecksFull ==
    /\ Watching
    /\ watcher.pc = "idle"
    /\ offered < MaxItems
    /\ offered' = offered + 1
    /\ IF Full THEN shed' = shed \cup {offered + 1} /\ UNCHANGED watcher
       ELSE watcher' = [pc |-> "put", item |-> offered + 1] /\ UNCHANGED shed
    /\ UNCHANGED <<queue, getters, ready, turn, step, hand, unfinished, taken, done, lost, restarts>>

WatcherPuts ==
    /\ watcher.pc = "put"
    /\ queue' = Append(queue, watcher.item)
    /\ watcher' = [pc |-> "count", item |-> 0]
    /\ UNCHANGED <<getters, ready, turn, step, hand, unfinished, offered, taken, done, shed,
                   lost, restarts>>

(* A worker may have taken the item by now, and be done with it. *)
WatcherCounts ==
    /\ watcher.pc = "count"
    /\ unfinished' = unfinished + 1
    /\ watcher' = [pc |-> "wake", item |-> 0]
    /\ UNCHANGED <<queue, getters, ready, turn, step, hand, offered, taken, done, shed, lost, restarts>>

WatcherWakes ==
    /\ watcher.pc = "wake"
    /\ WakeNext
    /\ watcher' = [pc |-> "idle", item |-> 0]
    /\ UNCHANGED <<queue, turn, step, hand, unfinished, offered, taken, done, shed, lost, restarts>>

WatcherGoesOn == WatcherPuts \/ WatcherCounts \/ WatcherWakes

-----------------------------------------------------------------------------
(* Workers *)

(* The loop resumes a worker. *)
RunReady ==
    /\ turn = NoWorker
    /\ ready # <<>>
    /\ turn' = Head(ready)
    /\ ready' = Tail(ready)
    /\ step' = [step EXCEPT ![Head(ready)] = "get"]
    /\ UNCHANGED <<queue, getters, hand, unfinished, watcher, offered, taken, done, shed, lost, restarts>>

(* queue.get(): an item that is there is taken without giving up the loop; *)
(* an empty queue is noted, and the worker parks in the next step.         *)
Get(w) ==
    /\ turn = w
    /\ step[w] = "get"
    /\ IF queue = <<>>
       THEN step' = [step EXCEPT ![w] = "park"] /\ UNCHANGED <<queue, hand, taken>>
       ELSE /\ queue' = Tail(queue)
            /\ hand' = [hand EXCEPT ![w] = Head(queue)]
            /\ taken' = Append(taken, Head(queue))
            /\ step' = [step EXCEPT ![w] = "process"]
    /\ UNCHANGED <<getters, ready, turn, unfinished, watcher, offered, done, shed, lost, restarts>>

Park(w) ==
    /\ turn = w
    /\ step[w] = "park"
    /\ getters' = Append(getters, w)
    /\ step' = [step EXCEPT ![w] = "parked"]
    /\ turn' = NoWorker
    /\ UNCHANGED <<queue, ready, hand, unfinished, watcher, offered, taken, done, shed, lost, restarts>>

(* queue.task_done() raises when nothing is unfinished; no handler is      *)
(* around it, and nobody starts the worker's task again.                   *)
task_done(w) ==
    IF unfinished = 0
    THEN /\ step' = [step EXCEPT ![w] = "ended"]
         /\ turn' = NoWorker
         /\ UNCHANGED unfinished
    ELSE /\ unfinished' = unfinished - 1
         /\ step' = [step EXCEPT ![w] = "get"]
         /\ UNCHANGED turn

(* Mutant: an exception of the engine ends the coroutine. *)
DieOnError(w) ==
    /\ turn = w
    /\ step[w] = "process"
    /\ done' = done \cup {hand[w]}
    /\ hand' = [hand EXCEPT ![w] = 0]
    /\ \/ task_done(w)
       \/ /\ step' = [step EXCEPT ![w] = "ended"]
          /\ turn' = NoWorker
          /\ unfinished' = IF unfinished = 0 THEN 0 ELSE unfinished - 1
    /\ UNCHANGED <<queue, getters, ready, watcher, offered, taken, shed, lost, restarts>>

(* Mutant: the handler of an exception calls task_done too. *)
DoneTwice(w) ==
    /\ turn = w
    /\ step[w] = "process"
    /\ done' = done \cup {hand[w]}
    /\ hand' = [hand EXCEPT ![w] = 0]
    /\ \/ task_done(w)
       \/ IF unfinished < 2
          THEN /\ step' = [step EXCEPT ![w] = "ended"]
               /\ turn' = NoWorker
               /\ unfinished' = 0
          ELSE /\ unfinished' = unfinished - 2
               /\ step' = [step EXCEPT ![w] = "get"]
               /\ UNCHANGED turn
    /\ UNCHANGED <<queue, getters, ready, watcher, offered, taken, shed, lost, restarts>>

(* _process: the engine runs on the loop, its exceptions are logged, and   *)
(* the worker goes on with the next item unless task_done raises.          *)
Process(w) ==
    /\ turn = w
    /\ step[w] = "process"
    /\ done' = done \cup {hand[w]}
    /\ hand' = [hand EXCEPT ![w] = 0]
    /\ task_done(w)
    /\ UNCHANGED <<queue, getters, ready, watcher, offered, taken, shed, lost, restarts>>

worker_loop(w) == Get(w) \/ Park(w) \/ Process(w)

InHand == ({hand[w] : w \in Workers} \cup {watcher.item}) \ {0}

(* The process restarts: what waited or was at work is forgotten. *)
Restart ==
    /\ restarts < MaxRestarts
    /\ restarts' = restarts + 1
    /\ lost' = lost \cup Range(queue) \cup InHand
    /\ queue' = <<>>
    /\ getters' = <<>>
    /\ ready' = WorkerOrder
    /\ turn' = NoWorker
    /\ step' = [w \in Workers |-> "get"]
    /\ hand' = [w \in Workers |-> 0]
    /\ unfinished' = 0
    /\ watcher' = [pc |-> "idle", item |-> 0]
    /\ UNCHANGED <<offered, taken, done, shed>>

Loop == RunReady \/ \E w \in Workers : worker_loop(w)

Next == enqueue \/ WatcherChecksFull \/ WatcherGoesOn \/ Loop \/ Restart

Spec == Init /\ [][Next]_vars

(* The loop resumes what is ready, and the watcher's thread is scheduled. *)
FairSpec == Spec /\ WF_vars(Loop) /\ WF_vars(WatcherGoesOn)

-----------------------------------------------------------------------------
(* Properties *)

(* Every variable keeps its type. *)
TypeOK ==
    /\ queue \in Seq(Items) /\ taken \in Seq(Items)
    /\ getters \in Seq(Workers) /\ ready \in Seq(Workers)
    /\ turn \in Workers \cup {NoWorker}
    /\ step \in [Workers -> {"get", "park", "parked", "process", "ended"}]
    /\ hand \in [Workers -> 0 .. MaxItems]
    /\ unfinished \in Nat
    /\ watcher \in [pc : {"idle", "put", "count", "wake"}, item : 0 .. MaxItems]
    /\ offered \in 0 .. MaxItems
    /\ done \cup shed \cup lost \subseteq 1 .. offered
    /\ restarts \in 0 .. MaxRestarts

(* A worker whose task_done comes before the watcher's thread has counted  *)
(* the item ends for good, but no second one does in the life of the       *)
(* process: from then on the count is one too high for that.               *)
AtMostOneEnds ==
    \A v, w \in Workers : step[v] = "ended" /\ step[w] = "ended" => v = w

(* The watcher is the one producer that looks for room in one step and     *)
(* puts in another, so that a listener may take the place in between.      *)
LateProducers == IF Watching THEN 1 ELSE 0

(* No more items wait than the queue is configured for (pipeline.queue,    *)
(* the bound on memory), give or take the one the watcher's thread puts    *)
(* after a listener took the place it had seen.                            *)
WithinBound == Len(queue) <= MaxQueue + LateProducers

(* Every item offered waits, is being put or worked on, is done, or is on  *)
(* the drop counter; only a restart loses any.                             *)
Accounted == 1 .. offered = Range(queue) \cup InHand \cup done \cup shed \cup lost

(* While items wait, some worker is running or about to: nobody sleeps     *)
(* next to work (worker_loop drains the queue continuously).  It takes     *)
(* three workers: one may have ended in task_done, and of the others one   *)
(* may park just after the watcher's thread put an item and found nobody   *)
(* to wake.                                                                *)
WorkGoesOn ==
    queue # <<>> => turn # NoWorker \/ ready # <<>> \/ watcher.pc \in {"count", "wake"}

(* The queue behaves as a bounded first-in first-out channel. *)
Channel == INSTANCE BoundedChannel WITH pending <- queue, Late <- LateProducers
ChannelSpec == Channel!Spec

(* Every item that was accepted goes through the engine, or a restart      *)
(* forgets it.                                                             *)
AcceptedIsProcessed ==
    \A i \in Items : (i \in Range(queue)) ~> (i \in done \cup lost)
=============================================================================
