---------------------------- MODULE EventIngest ----------------------------
(***************************************************************************)
(* How payloads become event rows: single ingestion (process_payload), the *)
(* batch fast path (process_lines) with its prefetched identities and its  *)
(* segmented commits, and the purges that remove rows and raw files.       *)
(*                                                                         *)
(* The event table, the raw store and what was handed to the sinks are     *)
(* three places written one after the other; handlers interleave between   *)
(* the writes and may die there.                                           *)
(***************************************************************************)
EXTENDS Integers, Sequences, FiniteSetsExt, SequencesExt

CONSTANTS
    Threads,        \* requests in flight
    Items,          \* distinct payloads, each of one source
    Source,         \* Source[i]: the source item i is sent for, or NoSource
    Outcome,        \* Outcome[i]: what the engine makes of item i
    Batches,        \* the batches a client may send: sequences of items
    Purging,        \* TRUE: events are also deleted and aged out
    Segment,        \* rows a batch commits at once (1000 in the code)
    MaxRefs,        \* bound on event ids
    MaxFailures,    \* bound on requests that die half-way
    NoSource

ASSUME SourceAssumption == DOMAIN Source = Items
ASSUME OutcomeAssumption == Outcome \in [Items -> {"output", "held", "broken"}]
ASSUME BatchAssumption ==
    \A b \in Batches : /\ b \in Seq(Items) /\ b # <<>>
                       /\ \A i, j \in DOMAIN b : Source[b[i]] = Source[b[j]]
ASSUME BoundAssumption ==
    /\ Purging \in BOOLEAN
    /\ Segment \in Nat \ {0}
    /\ MaxRefs \in Nat
    /\ MaxFailures \in Nat

VARIABLES
    rows,       \* the Event rows in id order; a deleted one stays with live = FALSE
    files,      \* the raw files, by event id
    nextRef,    \* event ids handed out so far
    sent,       \* event ids handed to the sinks, in order
    replies,    \* what clients were told: an item and the event id that stands for it
    th,         \* what each thread holds
    failures

vars == <<rows, files, nextRef, sent, replies, th, failures>>

-----------------------------------------------------------------------------
(* Rows, identities, sequence numbers *)

EventRow == [item : Items, seq : Nat, ref : Nat, raw : BOOLEAN, live : BOOLEAN]

RowIds == 1 .. Len(rows)
Live == {d \in RowIds : rows[d].live}

_find_duplicate(i) == {d \in Live : rows[d].item = i}

(* Mutant: the next number is how many rows there are. *)
RowsOfSource(src) ==
    IF src = NoSource THEN 0 ELSE Cardinality({d \in Live : Source[rows[d].item] = src})

_max_source_seq(src) ==
    IF src = NoSource THEN 0
    ELSE Max({0} \cup {rows[d].seq : d \in {c \in Live : Source[rows[c].item] = src}})

Numbered(src, n) == IF src = NoSource THEN 0 ELSE n + 1

NewRow(i, seq, ref) == [item |-> i, seq |-> seq, ref |-> ref, raw |-> TRUE, live |-> TRUE]

Reply == [item : Items, ref : Nat]

(* A thread: its next step; the lines it has still to process; the number  *)
(* and the event id it works with; the identities it prefetched; the rows  *)
(* it has not inserted yet; the outcome of every identity of this batch    *)
(* (an event id, 0 for none); what it will answer; the batch and the log   *)
(* when it began (to state BatchIsLines only); and the rows it purges.     *)
Idle == [pc |-> "idle", op |-> "none", lines |-> <<>>, seq |-> 0, ref |-> 0,
         known |-> {}, pending |-> <<>>, first |-> [i \in Items |-> 0],
         answers |-> {}, before |-> <<>>, batch |-> <<>>, todo |-> {}, purged |-> {}]

(* A slot that serves no request: a server with one slot that does takes   *)
(* requests one after the other.                                           *)
Absent == [Idle EXCEPT !.pc = "absent"]

Become(t, r) == th' = [th EXCEPT ![t] = r]

Init ==
    /\ rows = <<>>
    /\ files = {}
    /\ nextRef = 0
    /\ sent = <<>>
    /\ replies = {}
    /\ \E S \in SUBSET Threads : th = [t \in Threads |-> IF t \in S THEN Idle ELSE Absent]
    /\ failures = 0

-----------------------------------------------------------------------------
(* One payload *)

process_payload(t, i) ==
    /\ th[t].pc = "idle"
    /\ Become(t, [Idle EXCEPT !.pc = "find", !.op = "single", !.lines = <<i>>])
    /\ UNCHANGED <<rows, files, nextRef, sent, replies, failures>>

(* The replay of a stored payload answers with the stored event. *)
FindDuplicate(t) ==
    LET i == Head(th[t].lines)
        same == _find_duplicate(i)
    IN  /\ th[t].pc = "find"
        /\ \/ /\ same = {}
              /\ Become(t, [th[t] EXCEPT !.pc = "save"])
              /\ UNCHANGED replies
           \/ \E d \in same : /\ replies' = replies \cup {[item |-> i, ref |-> rows[d].ref]}
                              /\ Become(t, Idle)
        /\ UNCHANGED <<rows, files, nextRef, sent, failures>>

(* The raw file is written, then the next sequence number is read. *)
SaveRaw(t) ==
    LET i == Head(th[t].lines)
        n == nextRef + 1
    IN  /\ th[t].pc = "save"
        /\ nextRef < MaxRefs
        /\ files' = files \cup {n}
        /\ nextRef' = n
        /\ Become(t, [th[t] EXCEPT !.pc = "insert", !.ref = n,
                        !.seq = Numbered(Source[i], _max_source_seq(Source[i]))])
        /\ UNCHANGED <<rows, sent, replies, failures>>

(* _compute and the commit of the row.  An engine that raises takes the    *)
(* request with it: the raw file stays, no row is written.                 *)
StoreRow(t) ==
    LET i == Head(th[t].lines)
    IN  /\ th[t].pc = "insert"
        /\ IF Outcome[i] = "broken"
           THEN Become(t, Idle) /\ UNCHANGED rows
           ELSE /\ rows' = Append(rows, NewRow(i, th[t].seq, th[t].ref))
                /\ Become(t, [th[t] EXCEPT !.pc = "deliver"])
        /\ UNCHANGED <<files, nextRef, sent, replies, failures>>

(* Sinks get the output after the commit; then the client its answer. *)
_deliver(t) ==
    LET i == Head(th[t].lines)
    IN  /\ th[t].pc = "deliver"
        /\ sent' = IF Outcome[i] = "output" THEN Append(sent, th[t].ref) ELSE sent
        /\ replies' = replies \cup {[item |-> i, ref |-> th[t].ref]}
        /\ Become(t, Idle)
        /\ UNCHANGED <<rows, files, nextRef, failures>>

-----------------------------------------------------------------------------
(* A batch *)

(* The live rows in their order, and what a client can tell of them. *)
Entry(r) == [item |-> r.item, seq |-> r.seq]

LogOf(R) ==
    LET log[n \in 0 .. Len(R)] ==
            IF n = 0 THEN <<>>
            ELSE IF R[n].live THEN Append(log[n - 1], Entry(R[n])) ELSE log[n - 1]
    IN  log[Len(R)]

process_lines(t, b) ==
    /\ th[t].pc = "idle"
    /\ Become(t, [Idle EXCEPT !.pc = "prefetch", !.op = "batch", !.lines = b,
                              !.batch = b, !.before = LogOf(rows)])
    /\ UNCHANGED <<rows, files, nextRef, sent, replies, failures>>

prefetch_hashes(t) ==
    /\ th[t].pc = "prefetch"
    /\ Become(t, [th[t] EXCEPT !.pc = "maxSeq",
                    !.known = {i \in Range(th[t].lines) : _find_duplicate(i) # {}}])
    /\ UNCHANGED <<rows, files, nextRef, sent, replies, failures>>

(* Mutant: a batch numbers its lines from one. *)
StartFromZero(t) ==
    /\ th[t].pc = "maxSeq"
    /\ Become(t, [th[t] EXCEPT !.pc = "lines", !.seq = 0])
    /\ UNCHANGED <<rows, files, nextRef, sent, replies, failures>>

ReadMaxSeq(t) ==
    /\ th[t].pc = "maxSeq"
    /\ Become(t, [th[t] EXCEPT !.pc = "lines",
                    !.seq = _max_source_seq(Source[Head(th[t].lines)])])
    /\ UNCHANGED <<rows, files, nextRef, sent, replies, failures>>

(* The events a line may be answered with as a replay: the first line of   *)
(* its identity in this batch; else a stored row, looked up only when the  *)
(* prefetch knew the identity.                                             *)
ReplayOf(t, i) ==
    IF th[t].first[i] # 0 THEN {th[t].first[i]}
    ELSE IF i \in th[t].known THEN {rows[d].ref : d \in _find_duplicate(i)} ELSE {}

(* The record after line i, with what the line adds; full segments are     *)
(* committed before the next line.                                         *)
AfterLine(r) ==
    [r EXCEPT !.lines = Tail(@),
              !.pc = IF Len(r.pending) >= Segment THEN "checkpoint" ELSE "lines"]

(* Mutant: a replay within the batch is delivered again. *)
SendReplay(t) ==
    /\ th[t].pc = "lines"
    /\ th[t].lines # <<>>
    /\ LET i == Head(th[t].lines)
       IN  \E ref \in ReplayOf(t, i) :
             /\ sent' = IF Outcome[i] = "output" THEN Append(sent, ref) ELSE sent
             /\ Become(t, AfterLine([th[t] EXCEPT
                           !.answers = @ \cup {[item |-> i, ref |-> ref]}]))
    /\ UNCHANGED <<rows, files, nextRef, replies, failures>>

ReplayLine(t) ==
    /\ th[t].pc = "lines"
    /\ th[t].lines # <<>>
    /\ LET i == Head(th[t].lines)
       IN  \E ref \in ReplayOf(t, i) :
             Become(t, AfterLine([th[t] EXCEPT !.answers = @ \cup {[item |-> i, ref |-> ref]}]))
    /\ UNCHANGED <<rows, files, nextRef, sent, replies, failures>>

(* A new line: raw file, number, _compute, delivery; its row waits for the *)
(* checkpoint.  A line the engine fails on is answered as failed and has   *)
(* used up its number.                                                     *)
StoreLine(t) ==
    /\ th[t].pc = "lines"
    /\ th[t].lines # <<>>
    /\ nextRef < MaxRefs
    /\ LET i == Head(th[t].lines)
           n == nextRef + 1
           seq == Numbered(Source[i], th[t].seq)
       IN  /\ ReplayOf(t, i) = {}
           /\ files' = files \cup {n}
           /\ nextRef' = n
           /\ IF Outcome[i] = "broken"
              THEN /\ Become(t, AfterLine([th[t] EXCEPT !.seq = seq]))
                   /\ UNCHANGED sent
              ELSE /\ Become(t, AfterLine([th[t] EXCEPT
                          !.seq = seq, !.first[i] = n,
                          !.pending = Append(@, NewRow(i, seq, n)),
                          !.answers = @ \cup {[item |-> i, ref |-> n]}]))
                   /\ sent' = IF Outcome[i] = "output" THEN Append(sent, n) ELSE sent
    /\ UNCHANGED <<rows, replies, failures>>

checkpoint(t) ==
    /\ th[t].pc = "checkpoint"
    /\ rows' = rows \o th[t].pending
    /\ Become(t, [th[t] EXCEPT !.pc = "lines", !.pending = <<>>])
    /\ UNCHANGED <<files, nextRef, sent, replies, failures>>

(* Mutant: the last segment, if not full, is not committed. *)
ReturnAtOnce(t) ==
    /\ th[t].pc = "lines"
    /\ th[t].lines = <<>>
    /\ replies' = replies \cup th[t].answers
    /\ Become(t, Idle)
    /\ UNCHANGED <<rows, files, nextRef, sent, failures>>

(* The last checkpoint, then the batch is answered. *)
FinishBatch(t) ==
    /\ th[t].pc = "lines"
    /\ th[t].lines = <<>>
    /\ rows' = rows \o th[t].pending
    /\ replies' = replies \cup th[t].answers
    /\ Become(t, Idle)
    /\ UNCHANGED <<files, nextRef, sent, failures>>

-----------------------------------------------------------------------------
(* Purges: raw files go one by one, then one commit drops the rows         *)
(* (delete_event, batch_delete_events, the events tier of retention) or    *)
(* only their raw_ref (the raw tier).                                      *)

SelectRows(t, D, op) ==
    /\ Purging
    /\ th[t].pc = "idle"
    /\ LET withFile == {d \in D : rows[d].raw}
       IN  Become(t, [Idle EXCEPT !.pc = IF withFile = {} THEN "purge" ELSE "unlink",
                                  !.op = op, !.todo = withFile, !.purged = D])
    /\ UNCHANGED <<rows, files, nextRef, sent, replies, failures>>

delete_events(t) == \E D \in (SUBSET Live) \ {{}} : SelectRows(t, D, "delete")

strip_raw(t) ==
    LET aged == {D \in SUBSET Live : \A d \in D : rows[d].raw}
    IN  \E D \in aged \ {{}} : SelectRows(t, D, "strip")

(* A file that cannot be removed is passed over. *)
UnlinkRaw(t) ==
    /\ th[t].pc = "unlink"
    /\ \E d \in th[t].todo :
         /\ \/ files' = files \ {rows[d].ref} /\ UNCHANGED failures
            \/ UNCHANGED files /\ failures < MaxFailures /\ failures' = failures + 1
         /\ Become(t, [th[t] EXCEPT !.todo = @ \ {d},
                         !.pc = IF th[t].todo = {d} THEN "purge" ELSE "unlink"])
    /\ UNCHANGED <<rows, nextRef, sent, replies>>

(* Mutant: the raw tier leaves the reference on the row. *)
PurgeKeepsRef(t) ==
    /\ th[t].pc = "purge"
    /\ rows' = [d \in RowIds |-> IF d \in th[t].purged /\ th[t].op = "delete"
                                 THEN [rows[d] EXCEPT !.live = FALSE] ELSE rows[d]]
    /\ Become(t, Idle)
    /\ UNCHANGED <<files, nextRef, sent, replies, failures>>

(* An UPDATE of a row that another purge has deleted fails the commit as a *)
(* whole; a DELETE of one does not.                                        *)
PurgeRows(t) ==
    /\ th[t].pc = "purge"
    /\ rows' = IF th[t].op = "delete" \/ th[t].purged \subseteq Live
               THEN [d \in RowIds |->
                       IF d \notin th[t].purged THEN rows[d]
                       ELSE IF th[t].op = "delete"
                       THEN [rows[d] EXCEPT !.live = FALSE, !.raw = FALSE]
                       ELSE [rows[d] EXCEPT !.raw = FALSE]]
               ELSE rows
    /\ Become(t, Idle)
    /\ UNCHANGED <<files, nextRef, sent, replies, failures>>

-----------------------------------------------------------------------------
(* A request dies: what it committed, saved and delivered stays. *)
Fail(t) ==
    /\ th[t].pc \notin {"idle", "absent"}
    /\ failures < MaxFailures
    /\ failures' = failures + 1
    /\ Become(t, Idle)
    /\ UNCHANGED <<rows, files, nextRef, sent, replies>>

Work(t) ==
    \/ FindDuplicate(t) \/ SaveRaw(t) \/ StoreRow(t) \/ _deliver(t)
    \/ prefetch_hashes(t) \/ ReadMaxSeq(t) \/ ReplayLine(t) \/ StoreLine(t)
    \/ checkpoint(t) \/ FinishBatch(t)
    \/ UnlinkRaw(t) \/ PurgeRows(t)

Begin(t) ==
    \/ \E i \in Items : process_payload(t, i)
    \/ \E b \in Batches : process_lines(t, b)
    \/ delete_events(t) \/ strip_raw(t)

Next == \E t \in Threads : Begin(t) \/ Work(t) \/ Fail(t)

Spec == Init /\ [][Next]_vars

-----------------------------------------------------------------------------
(* Properties *)

Steps == {"idle", "absent", "find", "save", "insert", "deliver", "prefetch", "maxSeq", "lines",
          "checkpoint", "unlink", "purge"}

(* Every variable keeps its type; no id is used before it is handed out. *)
TypeOK ==
    /\ rows \in Seq(EventRow)
    /\ nextRef \in 0 .. MaxRefs
    /\ files \subseteq 1 .. nextRef
    /\ sent \in Seq(1 .. nextRef)
    /\ replies \subseteq Reply
    /\ \A t \in Threads : /\ th[t].pc \in Steps
                          /\ th[t].lines \in Seq(Items)
                          /\ th[t].ref \in 0 .. nextRef /\ th[t].seq \in Nat
                          /\ th[t].pending \in Seq(EventRow)
                          /\ th[t].todo \subseteq th[t].purged
                          /\ th[t].purged \subseteq RowIds
    /\ failures \in 0 .. MaxFailures

Quiet == \A t \in Threads : th[t].pc \in {"idle", "absent"}

Alone == \A t, u \in Threads : t = u \/ "absent" \in {th[t].pc, th[u].pc}

(* Requests that come one after the other number the events of a source in *)
(* the order they are stored, also across batches, failed lines, deletions *)
(* and deaths (_max_source_seq).                                           *)
SequenceFollowsArrival ==
    Alone => \A c, d \in Live :
        /\ c < d
        /\ Source[rows[c].item] = Source[rows[d].item]
        /\ Source[rows[c].item] # NoSource
        => rows[c].seq < rows[d].seq

(* What a client was told stands for its payload is a row of that payload: *)
(* replays within a batch name a row that did get stored (checkpoint).     *)
ReplyNamesItsRow ==
    \A r \in replies : \E d \in RowIds : rows[d].item = r.item /\ rows[d].ref = r.ref

(* When requests come one after the other and none dies, a row that refers *)
(* to a raw file has it, but while a purge is at it (_delete_raw_file).    *)
RowsHaveRawFiles ==
    Alone /\ failures = 0 =>
        \A d \in Live : rows[d].raw => \/ rows[d].ref \in files
                                       \/ \E t \in Threads : d \in th[t].purged

(* When nobody is half-way and nobody died there, the sinks have seen      *)
(* exactly the stored outputs and none of them twice, replays included.    *)
SentAreStored ==
    Quiet /\ failures = 0 =>
          /\ Range(sent) = {rows[d].ref : d \in {c \in RowIds : Outcome[rows[c].item] = "output"}}
          /\ IsInjective(sent)

(* The log after a payload is sent alone ... *)
OneAtATime(log, i) ==
    LET number == Max({0} \cup {log[k].seq : k \in {j \in DOMAIN log : Source[log[j].item] = Source[i]}})
    IN  IF Outcome[i] = "broken" \/ \E k \in DOMAIN log : log[k].item = i THEN log
        ELSE Append(log, [item |-> i, seq |-> Numbered(Source[i], number)])

(* ... and after the first k lines of b, one after the other. *)
OneByOne(log, b, k) ==
    LET after[n \in 0 .. Len(b)] == IF n = 0 THEN log ELSE OneAtATime(after[n - 1], b[n])
    IN  after[k]

SameItems(log, other) ==
    Len(log) = Len(other) /\ \A k \in DOMAIN log : log[k].item = other[k].item

Taken(b) == \A k \in DOMAIN b : Outcome[b[k]] # "broken"

(* The step that answers a batch, when requests come one after the other.  *)
BatchStep ==
    \A t \in Threads :
        Alone /\ FinishBatch(t) =>
            LET lines == OneByOne(th[t].before, th[t].batch, Len(th[t].batch))
            IN  /\ SameItems(LogOf(rows'), lines)
                /\ Taken(th[t].batch) => LogOf(rows') = lines

(* A batch leaves the log as its lines would have, sent one at a time      *)
(* (process_lines: the same semantics as N calls), also between purges and *)
(* after deaths; the numbers are the same if the engine fails on no line.  *)
BatchIsLines == [][BatchStep]_vars
=============================================================================
