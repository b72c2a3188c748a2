------------------------- MODULE EventIngestProofs -------------------------
(***************************************************************************)
(* For any number of requests, payloads, batches and segments, also with   *)
(* requests that die and events that are purged: what clients are told     *)
(* stands for their payload, and what the sinks get is what is stored.     *)
(* For requests that come one after the other: numbers follow arrival,     *)
(* rows have their raw files, and a batch stores what its lines would.     *)
(***************************************************************************)
EXTENDS EventIngest, SequenceTheorems, FiniteNumbers, TLAPS

-----------------------------------------------------------------------------
LEMMA MaxSeqType ==
    ASSUME TypeOK, NEW src
    PROVE  /\ _max_source_seq(src) \in Nat
           /\ src # NoSource =>
                 \A d \in Live : Source[rows[d].item] = src => rows[d].seq <= _max_source_seq(src)
  <1> DEFINE D == {c \in Live : Source[rows[c].item] = src}
             seq == [d \in RowIds |-> rows[d].seq]
             S == {seq[d] : d \in D}
  <1>1. Len(rows) \in Nat /\ \A d \in RowIds : rows[d].seq \in Nat
    <2>1. rows \in Seq(EventRow)
      BY DEF TypeOK
    <2>2. Len(rows) \in Nat /\ \A d \in RowIds : rows[d] \in EventRow
      BY <2>1 DEF RowIds
    <2>3. QED
      BY <2>2 DEF EventRow
  <1>2. D \in SUBSET (1 .. Len(rows)) /\ D \subseteq RowIds
    BY DEF Live, RowIds
  <1>3. _max_source_seq(src) = IF src = NoSource THEN 0 ELSE Max({0} \cup S)
    <2>1. S = {rows[d].seq : d \in D}
      BY <1>2
    <2>2. QED
      BY <2>1 DEF _max_source_seq, D
  <1>4. /\ \A d \in D : seq[d] = rows[d].seq /\ rows[d].seq \in Nat
        /\ \A d \in Live : Source[rows[d].item] = src => d \in D
    BY <1>1, <1>2
  <1> HIDE DEF D, seq
  <1>5. IsFiniteSet(S)
    BY <1>1, <1>2, ValuesOfRows
  <1>6. S \subseteq Nat /\ \A d \in D : seq[d] \in S
    BY <1>4
  <1> HIDE DEF S
  <1>7. IsFiniteSet({0} \cup S) /\ {0} \cup S \in SUBSET Nat /\ {0} \cup S # {}
    <2>1. IsFiniteSet({0} \cup S)
      BY <1>5, FS_Singleton, FS_Union
    <2>2. QED
      BY <1>6, <2>1
  <1>8. Max({0} \cup S) \in Nat /\ \A n \in {0} \cup S : n <= Max({0} \cup S)
    BY <1>7, FiniteSetHasMax
  <1> HIDE DEF Max
  <1>9. QED
    BY <1>3, <1>4, <1>6, <1>8

-----------------------------------------------------------------------------
(* What a thread holds; `before` is only there to state BatchStep. *)

Requests == {"none", "single", "batch", "delete", "strip"}

Thread(log) ==
    [pc : Steps, op : Requests, lines : Seq(Items), seq : Nat, ref : Nat, known : SUBSET Items,
     pending : Seq(EventRow), first : [Items -> Nat], answers : SUBSET Reply, before : {log},
     batch : Seq(Items), todo : SUBSET Nat, purged : SUBSET Nat]

(* A request has its payload until it is answered, and an id once it saved *)
(* it; only a batch has rows that wait for a checkpoint.                   *)
StepShape(r) ==
    /\ r.pc \in {"find", "save", "insert", "deliver", "prefetch", "maxSeq"} => r.lines # <<>>
    /\ r.pc \notin {"lines", "checkpoint"} => r.pending = <<>>
    /\ r.pc \in {"insert", "deliver"} => r.ref # 0

TypeInv ==
    /\ TypeOK
    /\ th = [t \in Threads |-> th[t]]
    /\ \A t \in Threads : th[t] \in Thread(th[t].before) /\ StepShape(th[t])

(* Rows are only appended, and keep their payload and their event id. *)
Extends(R, Q) ==
    /\ Q \in Seq(EventRow) /\ Len(R) <= Len(Q)
    /\ \A d \in 1 .. Len(R) : Q[d].item = R[d].item /\ Q[d].ref = R[d].ref

LEMMA TypeFacts ==
    ASSUME TypeInv
    PROVE  /\ rows \in Seq(EventRow) /\ Len(rows) \in Nat /\ RowIds = 1 .. Len(rows)
           /\ \A d \in RowIds : rows[d] \in EventRow
           /\ nextRef \in 0 .. MaxRefs /\ nextRef \in Nat /\ MaxRefs \in Nat
           /\ files \subseteq 1 .. nextRef /\ sent \in Seq(1 .. nextRef)
           /\ replies \subseteq Reply
           /\ failures \in 0 .. MaxFailures
           /\ Extends(rows, rows)
  <1>1. TypeOK /\ BoundAssumption
    BY BoundAssumption DEF TypeInv
  <1>2. /\ rows \in Seq(EventRow) /\ nextRef \in 0 .. MaxRefs
        /\ files \subseteq 1 .. nextRef /\ sent \in Seq(1 .. nextRef)
        /\ replies \subseteq Reply /\ failures \in 0 .. MaxFailures
    BY <1>1 DEF TypeOK
  <1>3. Len(rows) \in Nat /\ \A d \in 1 .. Len(rows) : rows[d] \in EventRow
    BY <1>2
  <1>4. QED
    BY <1>1, <1>2, <1>3 DEF RowIds, Extends, BoundAssumption

LEMMA ThreadFacts ==
    ASSUME TypeInv, NEW t \in Threads
    PROVE  /\ th[t] \in Thread(th[t].before) /\ StepShape(th[t])
           /\ th[t].lines \in Seq(Items) /\ th[t].seq \in Nat /\ th[t].ref \in 0 .. nextRef
           /\ th[t].pending \in Seq(EventRow) /\ th[t].first \in [Items -> Nat]
           /\ th[t].answers \subseteq Reply
           /\ th[t].todo \subseteq th[t].purged /\ th[t].purged \subseteq RowIds
           /\ th[t].lines # <<>> => /\ Head(th[t].lines) \in Items
                                    /\ Tail(th[t].lines) \in Seq(Items)
  <1>1. /\ th[t] \in Thread(th[t].before) /\ StepShape(th[t])
        /\ th[t].ref \in 0 .. nextRef
        /\ th[t].todo \subseteq th[t].purged /\ th[t].purged \subseteq RowIds
    BY DEF TypeInv, TypeOK
  <1>2. /\ th[t].lines \in Seq(Items) /\ th[t].seq \in Nat
        /\ th[t].pending \in Seq(EventRow) /\ th[t].first \in [Items -> Nat]
        /\ th[t].answers \subseteq Reply
    BY <1>1 DEF Thread
  <1>3. th[t].lines # <<>> => Head(th[t].lines) \in Items /\ Tail(th[t].lines) \in Seq(Items)
    BY <1>2
  <1>4. QED
    BY <1>1, <1>2, <1>3

LEMMA IdleFacts ==
    /\ Idle \in Thread(Idle.before) /\ StepShape(Idle) /\ Idle.pc = "idle" /\ Idle.before = <<>>
    /\ Idle.ref = 0 /\ Idle.todo = {} /\ Idle.purged = {} /\ Idle.pending = <<>>
    /\ Idle.answers = {} /\ Idle.first = [i \in Items |-> 0] /\ Idle.lines = <<>>
  BY DEF Idle, Thread, StepShape, Steps, Requests

(* What every slot holds in the beginning. *)
LEMMA SlotFacts ==
    ASSUME NEW r \in {Idle, Absent}
    PROVE  /\ r \in Thread(r.before) /\ StepShape(r) /\ r.pc \in {"idle", "absent"}
           /\ r.ref = 0 /\ r.todo = {} /\ r.purged = {} /\ r.pending = <<>>
           /\ r.answers = {} /\ r.first = [i \in Items |-> 0] /\ r.lines = <<>>
  <1>1. CASE r = Idle
    BY <1>1, IdleFacts
  <1>2. CASE r = Absent
    <2>1. /\ Absent.pc = "absent" /\ Absent.op = "none" /\ Absent.lines = <<>> /\ Absent.seq = 0
          /\ Absent.ref = 0 /\ Absent.known = {} /\ Absent.pending = <<>>
          /\ Absent.first = [i \in Items |-> 0] /\ Absent.answers = {} /\ Absent.batch = <<>>
          /\ Absent.todo = {} /\ Absent.purged = {} /\ Absent.before = <<>>
      BY DEF Absent, Idle
    <2>2. Absent \in Thread(<<>>)
      <3>1. Idle \in Thread(<<>>) /\ "absent" \in Steps
        BY IdleFacts DEF Steps
      <3>2. QED
        BY <3>1 DEF Absent, Thread
    <2>3. QED
      BY <1>2, <2>1, <2>2 DEF StepShape
  <1>3. QED
    BY <1>1, <1>2

LEMMA InitSlots == Init => \A t \in Threads : th[t] \in {Idle, Absent}
  BY DEF Init

LEMMA BecomeFacts ==
    ASSUME TypeInv, NEW t \in Threads, NEW r, Become(t, r)
    PROVE  /\ th' = [u \in Threads |-> th'[u]] /\ th'[t] = r
           /\ \A u \in Threads : u # t => th'[u] = th[u]
  <1>1. th = [u \in Threads |-> th[u]] /\ th' = [th EXCEPT ![t] = r]
    BY DEF TypeInv, Become
  <1>2. DOMAIN th = Threads
    BY <1>1
  <1>3. QED
    BY <1>1, <1>2

(* One thread goes on; ids are handed out, rows appended. *)
LEMMA MoveKeepsTypes ==
    ASSUME TypeInv, NEW t \in Threads, NEW r, Become(t, r),
           r \in Thread(r.before), StepShape(r),
           r.ref \in 0 .. nextRef', r.todo \subseteq r.purged, r.purged \subseteq 1 .. Len(rows),
           Extends(rows, rows'),
           nextRef' \in 0 .. MaxRefs, nextRef <= nextRef',
           files' \subseteq 1 .. nextRef', sent' \in Seq(1 .. nextRef'),
           replies' \subseteq Reply, failures' \in 0 .. MaxFailures
    PROVE  TypeInv'
  <1>1. /\ th' = [u \in Threads |-> th'[u]] /\ th'[t] = r
        /\ \A u \in Threads : u # t => th'[u] = th[u]
    BY BecomeFacts
  <1>2. \A u \in Threads : th'[u] \in Thread(th'[u].before) /\ StepShape(th'[u])
    BY <1>1 DEF TypeInv
  <1>3. rows' \in Seq(EventRow) /\ RowIds \subseteq RowIds' /\ RowIds = 1 .. Len(rows)
    <2>1. Len(rows) \in Nat /\ Len(rows') \in Nat /\ Len(rows) <= Len(rows')
      BY TypeFacts DEF Extends
    <2>2. QED
      BY <2>1 DEF Extends, RowIds
  <1>4. ASSUME NEW u \in Threads
        PROVE  /\ th'[u].pc \in Steps /\ th'[u].lines \in Seq(Items)
               /\ th'[u].ref \in 0 .. nextRef' /\ th'[u].seq \in Nat
               /\ th'[u].pending \in Seq(EventRow)
               /\ th'[u].todo \subseteq th'[u].purged /\ th'[u].purged \subseteq RowIds'
    <2>1. /\ th'[u].pc \in Steps /\ th'[u].lines \in Seq(Items) /\ th'[u].seq \in Nat
          /\ th'[u].pending \in Seq(EventRow)
      BY <1>2 DEF Thread
    <2>2. CASE u = t
      BY <1>1, <1>3, <2>1, <2>2
    <2>3. CASE u # t
      <3>1. th'[u] = th[u]
        BY <1>1, <2>3
      <3>2. /\ th[u].ref \in 0 .. nextRef /\ th[u].todo \subseteq th[u].purged
            /\ th[u].purged \subseteq RowIds
        BY ThreadFacts
      <3>3. th[u].ref \in 0 .. nextRef'
        BY <3>2, TypeFacts
      <3>4. QED
        BY <1>3, <2>1, <3>1, <3>2, <3>3
    <2>4. QED
      BY <2>2, <2>3
  <1>5. TypeOK'
    BY <1>3, <1>4 DEF TypeOK
  <1>6. QED
    BY <1>1, <1>2, <1>5 DEF TypeInv

(* The same for a step that leaves the tables alone. *)
LEMMA ThinkKeepsTypes ==
    ASSUME TypeInv, NEW t \in Threads, NEW r, Become(t, r),
           r \in Thread(r.before), StepShape(r),
           r.ref \in 0 .. nextRef, r.todo \subseteq r.purged, r.purged \subseteq 1 .. Len(rows),
           UNCHANGED <<rows, nextRef, sent>>,
           files' \subseteq files, replies' \subseteq Reply, failures' \in 0 .. MaxFailures
    PROVE  TypeInv'
  <1>1. /\ Extends(rows, rows') /\ nextRef' \in 0 .. MaxRefs /\ nextRef <= nextRef'
        /\ files' \subseteq 1 .. nextRef' /\ sent' \in Seq(1 .. nextRef')
    BY TypeFacts
  <1>2. r.ref \in 0 .. nextRef'
    OBVIOUS
  <1>3. QED
    BY <1>1, <1>2, MoveKeepsTypes

-----------------------------------------------------------------------------
(* Types: one lemma per action *)

LEMMA InitTypes == Init => TypeInv
  <1> SUFFICES ASSUME Init PROVE TypeInv
    OBVIOUS
  <1>1. \A t \in Threads : th[t] \in {Idle, Absent}
    BY InitSlots
  <1>2. /\ rows \in Seq(EventRow) /\ nextRef \in 0 .. MaxRefs /\ files \subseteq 1 .. nextRef
        /\ sent \in Seq(1 .. nextRef) /\ replies \subseteq Reply /\ failures \in 0 .. MaxFailures
    BY BoundAssumption DEF Init
  <1>3. ASSUME NEW t \in Threads
        PROVE  /\ th[t].pc \in Steps /\ th[t].lines \in Seq(Items)
               /\ th[t].ref \in 0 .. nextRef /\ th[t].seq \in Nat
               /\ th[t].pending \in Seq(EventRow)
               /\ th[t].todo \subseteq th[t].purged /\ th[t].purged \subseteq RowIds
    <2>1. th[t] \in {Idle, Absent}
      BY <1>1
    <2>2. /\ th[t] \in Thread(th[t].before) /\ th[t].ref = 0 /\ th[t].todo = {}
          /\ th[t].purged = {} /\ th[t].pending = <<>> /\ th[t].lines = <<>>
      BY <2>1, SlotFacts
    <2>3. th[t].pc \in Steps /\ th[t].seq \in Nat
      BY <2>2 DEF Thread
    <2>4. 0 \in 0 .. nextRef
      BY <1>2
    <2>5. QED
      BY <2>2, <2>3, <2>4
  <1>4. TypeOK
    BY <1>1, <1>2, <1>3 DEF TypeOK
  <1>5. th = [t \in Threads |-> th[t]]
    BY DEF Init
  <1>6. QED
    BY <1>1, <1>4, <1>5, SlotFacts DEF TypeInv

LEMMA IdleTypes ==
    ASSUME TypeInv, NEW t \in Threads, Become(t, Idle),
           UNCHANGED <<rows, nextRef, sent>>,
           files' \subseteq files, replies' \subseteq Reply, failures' \in 0 .. MaxFailures
    PROVE  TypeInv'
  BY IdleFacts, TypeFacts, ThinkKeepsTypes

LEMMA SingleTypes ==
    ASSUME TypeInv, NEW t \in Threads, NEW i \in Items, process_payload(t, i) PROVE TypeInv'
  <1> DEFINE r == [Idle EXCEPT !.pc = "find", !.op = "single", !.lines = <<i>>]
  <1>1. Become(t, r) /\ UNCHANGED <<rows, files, nextRef, sent, replies, failures>>
    BY DEF process_payload
  <1>2. r \in Thread(r.before) /\ StepShape(r) /\ r.ref = 0 /\ r.todo = {} /\ r.purged = {}
    <2>1. <<i>> \in Seq(Items) /\ <<i>> # <<>>
      OBVIOUS
    <2>2. QED
      BY <2>1, IdleFacts DEF Thread, StepShape, Steps, Requests
  <1> HIDE DEF r
  <1>3. QED
    BY <1>1, <1>2, TypeFacts, ThinkKeepsTypes

LEMMA FindTypes == ASSUME TypeInv, NEW t \in Threads, FindDuplicate(t) PROVE TypeInv'
  <1> DEFINE i == Head(th[t].lines)
             r == [th[t] EXCEPT !.pc = "save"]
  <1>1. th[t].pc = "find" /\ UNCHANGED <<rows, files, nextRef, sent, failures>>
    BY DEF FindDuplicate
  <1>2. CASE Become(t, r) /\ UNCHANGED replies
    <2>1. /\ r \in Thread(r.before) /\ StepShape(r) /\ r.ref = th[t].ref
          /\ r.todo = th[t].todo /\ r.purged = th[t].purged
      BY <1>1, ThreadFacts DEF Thread, StepShape, Steps
    <2> HIDE DEF r
    <2>2. QED
      BY <1>1, <1>2, <2>1, TypeFacts, ThreadFacts, ThinkKeepsTypes
  <1>3. ASSUME NEW d \in _find_duplicate(i),
               replies' = replies \cup {[item |-> i, ref |-> rows[d].ref]}, Become(t, Idle)
        PROVE  TypeInv'
    <2>1. i \in Items
      BY <1>1, ThreadFacts DEF StepShape
    <2>2. rows[d].ref \in Nat
      BY TypeFacts DEF _find_duplicate, Live, EventRow
    <2>3. replies' \subseteq Reply
      BY <1>3, <2>1, <2>2, TypeFacts DEF Reply
    <2>4. QED
      BY <1>1, <1>3, <2>3, TypeFacts, IdleTypes
  <1>4. QED
    BY <1>2, <1>3 DEF FindDuplicate

(* The record a number and an id are put into. *)
LEMMA NumberedType ==
    ASSUME NEW src, NEW n \in Nat PROVE Numbered(src, n) \in Nat
  BY DEF Numbered

LEMMA SaveTypes == ASSUME TypeInv, NEW t \in Threads, SaveRaw(t) PROVE TypeInv'
  <1> DEFINE n == nextRef + 1
             seq == Numbered(Source[Head(th[t].lines)], _max_source_seq(Source[Head(th[t].lines)]))
             r == [th[t] EXCEPT !.pc = "insert", !.ref = n, !.seq = seq]
  <1>1. /\ th[t].pc = "save" /\ nextRef < MaxRefs /\ files' = files \cup {n} /\ nextRef' = n
        /\ Become(t, r) /\ UNCHANGED <<rows, sent, replies, failures>>
    BY DEF SaveRaw
  <1>2. seq \in Nat
    BY MaxSeqType, NumberedType DEF TypeInv
  <1> HIDE DEF seq
  <1>3. n \in Nat /\ n # 0 /\ n \in 0 .. MaxRefs
    BY <1>1, TypeFacts
  <1>4. /\ r \in Thread(r.before) /\ StepShape(r) /\ r.ref = n
        /\ r.todo = th[t].todo /\ r.purged = th[t].purged
    <2> HIDE DEF n
    <2>1. QED
      BY <1>1, <1>2, <1>3, ThreadFacts DEF Thread, StepShape, Steps
  <1> HIDE DEF r
  <1>5. files' \subseteq 1 .. nextRef' /\ sent' \in Seq(1 .. nextRef')
    <2>1. 1 .. nextRef \subseteq 1 .. n
      BY TypeFacts
    <2>2. sent \in Seq(1 .. n)
      BY <2>1, TypeFacts, SeqMonotonic
    <2>3. QED
      BY <1>1, <1>3, <2>1, <2>2, TypeFacts
  <1>6. /\ Extends(rows, rows') /\ nextRef' \in 0 .. MaxRefs /\ nextRef <= nextRef'
        /\ replies' \subseteq Reply /\ failures' \in 0 .. MaxFailures
        /\ r.ref \in 0 .. nextRef' /\ r.todo \subseteq r.purged /\ r.purged \subseteq 1 .. Len(rows)
    BY <1>1, <1>3, <1>4, TypeFacts, ThreadFacts
  <1>7. QED
    BY <1>1, <1>4, <1>5, <1>6, MoveKeepsTypes

LEMMA RowType ==
    ASSUME NEW i \in Items, NEW seq \in Nat, NEW ref \in Nat
    PROVE  /\ NewRow(i, seq, ref) \in EventRow
           /\ NewRow(i, seq, ref).item = i /\ NewRow(i, seq, ref).ref = ref
  BY DEF NewRow, EventRow

LEMMA ExtendsAppend ==
    ASSUME NEW R \in Seq(EventRow), NEW row \in EventRow
    PROVE  /\ Extends(R, Append(R, row)) /\ Len(Append(R, row)) = Len(R) + 1
           /\ \A d \in 1 .. Len(R) : Append(R, row)[d] = R[d]
           /\ Append(R, row)[Len(R) + 1] = row
  BY AppendProperties DEF Extends

LEMMA ExtendsConcat ==
    ASSUME NEW R \in Seq(EventRow), NEW Q \in Seq(EventRow)
    PROVE  /\ Extends(R, R \o Q) /\ Len(R \o Q) = Len(R) + Len(Q)
           /\ \A d \in 1 .. Len(R) : (R \o Q)[d] = R[d]
           /\ \A k \in 1 .. Len(Q) : (R \o Q)[Len(R) + k] = Q[k]
  <1>1. Len(R) \in Nat /\ Len(Q) \in Nat
    OBVIOUS
  <1>2. R \o Q \in Seq(EventRow) /\ Len(R \o Q) = Len(R) + Len(Q)
    BY ConcatProperties
  <1>3. \A d \in 1 .. Len(R) + Len(Q) :
          (R \o Q)[d] = IF d <= Len(R) THEN R[d] ELSE Q[d - Len(R)]
    BY ConcatProperties
  <1>4. \A d \in 1 .. Len(R) : (R \o Q)[d] = R[d]
    BY <1>1, <1>3
  <1>5. \A k \in 1 .. Len(Q) : (R \o Q)[Len(R) + k] = Q[k]
    BY <1>1, <1>3
  <1>6. QED
    BY <1>1, <1>2, <1>4, <1>5 DEF Extends

LEMMA StoreTypes == ASSUME TypeInv, NEW t \in Threads, StoreRow(t) PROVE TypeInv'
  <1> DEFINE i == Head(th[t].lines)
             row == NewRow(i, th[t].seq, th[t].ref)
             r == [th[t] EXCEPT !.pc = "deliver"]
  <1>1. th[t].pc = "insert" /\ UNCHANGED <<files, nextRef, sent, replies, failures>>
    BY DEF StoreRow
  <1>2. CASE Become(t, Idle) /\ UNCHANGED rows
    BY <1>1, <1>2, TypeFacts, IdleTypes
  <1>3. CASE rows' = Append(rows, row) /\ Become(t, r)
    <2>1. i \in Items /\ th[t].ref \in Nat
      BY <1>1, ThreadFacts, TypeFacts DEF StepShape
    <2>2. row \in EventRow
      BY <2>1, ThreadFacts, RowType
    <2>3. Extends(rows, rows')
      BY <1>3, <2>2, TypeFacts, ExtendsAppend
    <2>4. /\ r \in Thread(r.before) /\ StepShape(r) /\ r.ref = th[t].ref
          /\ r.todo = th[t].todo /\ r.purged = th[t].purged
      BY <1>1, ThreadFacts DEF Thread, StepShape, Steps
    <2> HIDE DEF r, row
    <2>5. /\ nextRef' \in 0 .. MaxRefs /\ nextRef <= nextRef' /\ files' \subseteq 1 .. nextRef'
          /\ sent' \in Seq(1 .. nextRef') /\ replies' \subseteq Reply
          /\ failures' \in 0 .. MaxFailures
          /\ r.ref \in 0 .. nextRef' /\ r.todo \subseteq r.purged
          /\ r.purged \subseteq 1 .. Len(rows)
      BY <1>1, <2>4, TypeFacts, ThreadFacts
    <2>6. QED
      BY <1>3, <2>3, <2>4, <2>5, MoveKeepsTypes
  <1>4. QED
    BY <1>2, <1>3 DEF StoreRow

(* What the sinks get is an id that has been handed out. *)
LEMMA SentType ==
    ASSUME TypeInv, NEW n \in 1 .. nextRef', nextRef' \in Nat, nextRef <= nextRef', NEW out
    PROVE  (IF out THEN Append(sent, n) ELSE sent) \in Seq(1 .. nextRef')
  <1>1. sent \in Seq(1 .. nextRef')
    <2>1. 1 .. nextRef \subseteq 1 .. nextRef'
      BY TypeFacts
    <2>2. QED
      BY <2>1, TypeFacts, SeqMonotonic
  <1>2. Append(sent, n) \in Seq(1 .. nextRef')
    BY <1>1, AppendProperties
  <1>3. QED
    BY <1>1, <1>2

LEMMA DeliverTypes == ASSUME TypeInv, NEW t \in Threads, _deliver(t) PROVE TypeInv'
  <1> DEFINE i == Head(th[t].lines)
             out == Outcome[i] = "output"
  <1>1. /\ th[t].pc = "deliver" /\ UNCHANGED <<rows, files, nextRef, failures>>
        /\ sent' = IF out THEN Append(sent, th[t].ref) ELSE sent
        /\ replies' = replies \cup {[item |-> i, ref |-> th[t].ref]}
        /\ Become(t, Idle)
    BY DEF _deliver
  <1>2. i \in Items /\ th[t].ref \in 1 .. nextRef /\ th[t].ref \in Nat /\ nextRef \in Nat
    BY <1>1, ThreadFacts, TypeFacts DEF StepShape
  <1>3. replies' \subseteq Reply
    BY <1>1, <1>2, TypeFacts DEF Reply
  <1> HIDE DEF out
  <1>4. sent' \in Seq(1 .. nextRef')
    <2>1. th[t].ref \in 1 .. nextRef' /\ nextRef' \in Nat /\ nextRef <= nextRef'
      BY <1>1, <1>2
    <2>2. QED
      BY <1>1, <2>1, SentType
  <1>5. /\ Extends(rows, rows') /\ nextRef' \in 0 .. MaxRefs /\ nextRef <= nextRef'
        /\ files' \subseteq 1 .. nextRef' /\ failures' \in 0 .. MaxFailures
        /\ Idle.ref \in 0 .. nextRef' /\ Idle.purged \subseteq 1 .. Len(rows)
    BY <1>1, <1>2, IdleFacts, TypeFacts
  <1>6. QED
    BY <1>1, <1>3, <1>4, <1>5, IdleFacts, MoveKeepsTypes

LEMMA BatchTypes ==
    ASSUME TypeInv, NEW t \in Threads, NEW b \in Batches, process_lines(t, b) PROVE TypeInv'
  <1> DEFINE r == [Idle EXCEPT !.pc = "prefetch", !.op = "batch", !.lines = b,
                               !.batch = b, !.before = LogOf(rows)]
  <1>1. Become(t, r) /\ UNCHANGED <<rows, files, nextRef, sent, replies, failures>>
    BY DEF process_lines
  <1>2. r \in Thread(r.before) /\ StepShape(r) /\ r.ref = 0 /\ r.todo = {} /\ r.purged = {}
    <2>1. b \in Seq(Items) /\ b # <<>>
      BY BatchAssumption
    <2>2. QED
      BY <2>1, IdleFacts DEF Thread, StepShape, Steps, Requests
  <1> HIDE DEF r
  <1>3. QED
    BY <1>1, <1>2, TypeFacts, ThinkKeepsTypes

LEMMA PrefetchTypes == ASSUME TypeInv, NEW t \in Threads, prefetch_hashes(t) PROVE TypeInv'
  <1> DEFINE K == {i \in Range(th[t].lines) : _find_duplicate(i) # {}}
             r == [th[t] EXCEPT !.pc = "maxSeq", !.known = K]
  <1>1. /\ th[t].pc = "prefetch" /\ Become(t, r)
        /\ UNCHANGED <<rows, files, nextRef, sent, replies, failures>>
    BY DEF prefetch_hashes
  <1>2. K \subseteq Items
    <2>1. th[t].lines \in Seq(Items)
      BY ThreadFacts
    <2>2. Range(th[t].lines) \subseteq Items
      BY <2>1, RangeOfSeq
    <2>3. QED
      BY <2>2
  <1> HIDE DEF K
  <1>3. /\ r \in Thread(r.before) /\ StepShape(r) /\ r.ref = th[t].ref
        /\ r.todo = th[t].todo /\ r.purged = th[t].purged
    BY <1>1, <1>2, ThreadFacts DEF Thread, StepShape, Steps
  <1> HIDE DEF r
  <1>4. QED
    BY <1>1, <1>3, TypeFacts, ThreadFacts, ThinkKeepsTypes

LEMMA ReadTypes == ASSUME TypeInv, NEW t \in Threads, ReadMaxSeq(t) PROVE TypeInv'
  <1> DEFINE n == _max_source_seq(Source[Head(th[t].lines)])
             r == [th[t] EXCEPT !.pc = "lines", !.seq = n]
  <1>1. /\ th[t].pc = "maxSeq" /\ Become(t, r)
        /\ UNCHANGED <<rows, files, nextRef, sent, replies, failures>>
    BY DEF ReadMaxSeq
  <1>2. n \in Nat
    BY MaxSeqType DEF TypeInv
  <1> HIDE DEF n
  <1>3. /\ r \in Thread(r.before) /\ StepShape(r) /\ r.ref = th[t].ref
        /\ r.todo = th[t].todo /\ r.purged = th[t].purged
    BY <1>1, <1>2, ThreadFacts DEF Thread, StepShape, Steps
  <1> HIDE DEF r
  <1>4. QED
    BY <1>1, <1>3, TypeFacts, ThreadFacts, ThinkKeepsTypes

(* The next line of a batch, or its checkpoint. *)
LEMMA AfterLineFacts ==
    ASSUME NEW r, r \in Thread(r.before), r.lines # <<>>
    PROVE  /\ AfterLine(r) \in Thread(AfterLine(r).before) /\ StepShape(AfterLine(r))
           /\ AfterLine(r).pc \in {"lines", "checkpoint"}
           /\ AfterLine(r).pending = r.pending /\ AfterLine(r).answers = r.answers
           /\ AfterLine(r).first = r.first /\ AfterLine(r).ref = r.ref
           /\ AfterLine(r).todo = r.todo /\ AfterLine(r).purged = r.purged
  <1> DEFINE pc == IF Len(r.pending) >= Segment THEN "checkpoint" ELSE "lines"
  <1>1. pc \in {"lines", "checkpoint"} /\ pc \in Steps
    BY DEF Steps
  <1>2. AfterLine(r) = [r EXCEPT !.lines = Tail(r.lines), !.pc = pc]
    BY DEF AfterLine
  <1>3. Tail(r.lines) \in Seq(Items)
    <2>1. r.lines \in Seq(Items)
      BY DEF Thread
    <2>2. QED
      BY <2>1
  <1> HIDE DEF pc
  <1>4. QED
    BY <1>1, <1>2, <1>3 DEF Thread, StepShape

LEMMA ReplayType ==
    ASSUME TypeInv, NEW t \in Threads, NEW i \in Items, NEW ref \in ReplayOf(t, i)
    PROVE  [item |-> i, ref |-> ref] \in Reply
  <1>1. \A d \in _find_duplicate(i) : rows[d].ref \in Nat
    BY TypeFacts DEF _find_duplicate, Live, EventRow
  <1>2. th[t].first[i] \in Nat
    BY ThreadFacts
  <1>3. ref \in Nat
    BY <1>1, <1>2 DEF ReplayOf
  <1>4. QED
    BY <1>3 DEF Reply

LEMMA ReplayTypes == ASSUME TypeInv, NEW t \in Threads, ReplayLine(t) PROVE TypeInv'
  <1> DEFINE i == Head(th[t].lines)
  <1>1. /\ th[t].pc = "lines" /\ th[t].lines # <<>>
        /\ UNCHANGED <<rows, files, nextRef, sent, replies, failures>>
    BY DEF ReplayLine
  <1>2. PICK ref \in ReplayOf(t, i) :
          Become(t, AfterLine([th[t] EXCEPT !.answers = @ \cup {[item |-> i, ref |-> ref]}]))
    BY DEF ReplayLine
  <1> DEFINE q == [th[t] EXCEPT !.answers = @ \cup {[item |-> i, ref |-> ref]}]
  <1>3. i \in Items
    BY <1>1, ThreadFacts
  <1>4. [item |-> i, ref |-> ref] \in Reply
    BY <1>3, ReplayType
  <1>5. /\ q \in Thread(q.before) /\ q.lines # <<>> /\ q.ref = th[t].ref
        /\ q.todo = th[t].todo /\ q.purged = th[t].purged
    BY <1>1, <1>4, ThreadFacts DEF Thread
  <1> HIDE DEF q
  <1>6. Become(t, AfterLine(q))
    BY <1>2 DEF q
  <1>7. QED
    BY <1>1, <1>5, <1>6, AfterLineFacts, TypeFacts, ThreadFacts, ThinkKeepsTypes

LEMMA LineTypes == ASSUME TypeInv, NEW t \in Threads, StoreLine(t) PROVE TypeInv'
  <1> DEFINE i == Head(th[t].lines)
             n == nextRef + 1
             seq == Numbered(Source[i], th[t].seq)
             row == NewRow(i, seq, n)
             a == [item |-> i, ref |-> n]
             q == [th[t] EXCEPT !.seq = seq]
             r == [th[t] EXCEPT !.seq = seq, !.first[i] = n, !.pending = Append(@, row),
                                !.answers = @ \cup {a}]
             out == Outcome[i] = "output"
  <1>1. /\ th[t].pc = "lines" /\ th[t].lines # <<>> /\ nextRef < MaxRefs
        /\ files' = files \cup {n} /\ nextRef' = n
        /\ UNCHANGED <<rows, replies, failures>>
    BY DEF StoreLine
  <1>2. \/ Become(t, AfterLine(q)) /\ UNCHANGED sent
        \/ Become(t, AfterLine(r)) /\ sent' = IF out THEN Append(sent, n) ELSE sent
    BY DEF StoreLine
  <1>3. i \in Items /\ seq \in Nat /\ n \in Nat /\ n \in 0 .. MaxRefs /\ n \in 1 .. n
        /\ nextRef \in Nat
    BY <1>1, ThreadFacts, TypeFacts, NumberedType
  <1>4. row \in EventRow /\ a \in Reply
    BY <1>3, RowType DEF Reply
  <1>5. th[t].first \in [Items -> Nat] /\ [th[t].first EXCEPT ![i] = n] \in [Items -> Nat]
    BY <1>3, ThreadFacts
  <1>6. Append(th[t].pending, row) \in Seq(EventRow)
    BY <1>4, ThreadFacts, AppendProperties
  <1> HIDE DEF i, seq, row, a, out
  <1>7. /\ q \in Thread(q.before) /\ q.lines # <<>> /\ q.ref = th[t].ref
        /\ q.todo = th[t].todo /\ q.purged = th[t].purged
    BY <1>1, <1>3, ThreadFacts DEF Thread
  <1>8. /\ r \in Thread(r.before) /\ r.lines # <<>> /\ r.ref = th[t].ref
        /\ r.todo = th[t].todo /\ r.purged = th[t].purged
    BY <1>1, <1>3, <1>4, <1>5, <1>6, ThreadFacts DEF Thread
  <1> HIDE DEF q, r
  <1>9. /\ Extends(rows, rows') /\ nextRef' \in 0 .. MaxRefs /\ nextRef <= nextRef'
        /\ replies' \subseteq Reply /\ failures' \in 0 .. MaxFailures
        /\ files' \subseteq 1 .. nextRef'
        /\ th[t].ref \in 0 .. nextRef' /\ th[t].todo \subseteq th[t].purged
        /\ th[t].purged \subseteq 1 .. Len(rows)
    BY <1>1, <1>3, TypeFacts, ThreadFacts
  <1>10. sent' \in Seq(1 .. nextRef')
    <2>1. n \in 1 .. nextRef' /\ nextRef' \in Nat /\ nextRef <= nextRef'
      BY <1>1, <1>3
    <2>2. (IF FALSE THEN Append(sent, n) ELSE sent) \in Seq(1 .. nextRef')
      BY <2>1, SentType
    <2>3. (IF out THEN Append(sent, n) ELSE sent) \in Seq(1 .. nextRef')
      BY <2>1, SentType
    <2>4. QED
      BY <1>2, <2>2, <2>3
  <1>11. CASE Become(t, AfterLine(q))
    BY <1>7, <1>9, <1>10, <1>11, AfterLineFacts, MoveKeepsTypes
  <1>12. CASE Become(t, AfterLine(r))
    BY <1>8, <1>9, <1>10, <1>12, AfterLineFacts, MoveKeepsTypes
  <1>13. QED
    BY <1>2, <1>11, <1>12

LEMMA CheckpointTypes == ASSUME TypeInv, NEW t \in Threads, checkpoint(t) PROVE TypeInv'
  <1> DEFINE r == [th[t] EXCEPT !.pc = "lines", !.pending = <<>>]
  <1>1. /\ th[t].pc = "checkpoint" /\ rows' = rows \o th[t].pending /\ Become(t, r)
        /\ UNCHANGED <<files, nextRef, sent, replies, failures>>
    BY DEF checkpoint
  <1>2. Extends(rows, rows')
    BY <1>1, TypeFacts, ThreadFacts, ExtendsConcat
  <1>3. <<>> \in Seq(EventRow)
    OBVIOUS
  <1>4. /\ r \in Thread(r.before) /\ StepShape(r) /\ r.ref = th[t].ref
        /\ r.todo = th[t].todo /\ r.purged = th[t].purged
    BY <1>1, <1>3, ThreadFacts DEF Thread, StepShape, Steps
  <1> HIDE DEF r
  <1>5. /\ nextRef' \in 0 .. MaxRefs /\ nextRef <= nextRef' /\ files' \subseteq 1 .. nextRef'
        /\ sent' \in Seq(1 .. nextRef') /\ replies' \subseteq Reply
        /\ failures' \in 0 .. MaxFailures
        /\ r.ref \in 0 .. nextRef' /\ r.todo \subseteq r.purged
        /\ r.purged \subseteq 1 .. Len(rows)
    BY <1>1, <1>4, TypeFacts, ThreadFacts
  <1>6. QED
    BY <1>1, <1>2, <1>4, <1>5, MoveKeepsTypes

LEMMA FinishTypes == ASSUME TypeInv, NEW t \in Threads, FinishBatch(t) PROVE TypeInv'
  <1>1. /\ th[t].pc = "lines" /\ rows' = rows \o th[t].pending /\ Become(t, Idle)
        /\ replies' = replies \cup th[t].answers
        /\ UNCHANGED <<files, nextRef, sent, failures>>
    BY DEF FinishBatch
  <1>2. Extends(rows, rows')
    BY <1>1, TypeFacts, ThreadFacts, ExtendsConcat
  <1>3. /\ nextRef' \in 0 .. MaxRefs /\ nextRef <= nextRef' /\ files' \subseteq 1 .. nextRef'
        /\ sent' \in Seq(1 .. nextRef') /\ replies' \subseteq Reply
        /\ failures' \in 0 .. MaxFailures
        /\ Idle.ref \in 0 .. nextRef' /\ Idle.purged \subseteq 1 .. Len(rows)
    BY <1>1, TypeFacts, ThreadFacts, IdleFacts
  <1>4. QED
    BY <1>1, <1>2, <1>3, IdleFacts, MoveKeepsTypes

LEMMA SelectTypes ==
    ASSUME TypeInv, NEW t \in Threads, NEW D \in SUBSET Live, NEW op \in Requests,
           SelectRows(t, D, op)
    PROVE  TypeInv'
  <1> DEFINE W == {d \in D : rows[d].raw}
             pc == IF W = {} THEN "purge" ELSE "unlink"
             r == [Idle EXCEPT !.pc = pc, !.op = op, !.todo = W, !.purged = D]
  <1>1. Become(t, r) /\ UNCHANGED <<rows, files, nextRef, sent, replies, failures>>
    BY DEF SelectRows
  <1>2. W \subseteq D /\ D \subseteq 1 .. Len(rows) /\ D \subseteq Nat /\ pc \in {"purge", "unlink"}
    BY TypeFacts DEF Live, RowIds
  <1> HIDE DEF W, pc
  <1>3. /\ r \in Thread(r.before) /\ StepShape(r) /\ r.ref = 0 /\ r.todo = W /\ r.purged = D
    BY <1>2, IdleFacts DEF Thread, StepShape, Steps
  <1> HIDE DEF r
  <1>4. /\ r.ref \in 0 .. nextRef /\ r.todo \subseteq r.purged /\ r.purged \subseteq 1 .. Len(rows)
        /\ files' \subseteq files /\ replies' \subseteq Reply /\ failures' \in 0 .. MaxFailures
    BY <1>1, <1>2, <1>3, TypeFacts
  <1>5. QED
    BY <1>1, <1>3, <1>4, ThinkKeepsTypes

LEMMA UnlinkTypes == ASSUME TypeInv, NEW t \in Threads, UnlinkRaw(t) PROVE TypeInv'
  <1>1. PICK d \in th[t].todo :
          /\ \/ files' = files \ {rows[d].ref} /\ UNCHANGED failures
             \/ UNCHANGED files /\ failures < MaxFailures /\ failures' = failures + 1
          /\ Become(t, [th[t] EXCEPT !.todo = @ \ {d},
                          !.pc = IF th[t].todo = {d} THEN "purge" ELSE "unlink"])
    BY DEF UnlinkRaw
  <1> DEFINE pc == IF th[t].todo = {d} THEN "purge" ELSE "unlink"
             r == [th[t] EXCEPT !.todo = th[t].todo \ {d}, !.pc = pc]
  <1>2. th[t].pc = "unlink" /\ UNCHANGED <<rows, nextRef, sent, replies>>
    BY DEF UnlinkRaw
  <1>3. Become(t, r)
    BY <1>1
  <1>4. pc \in {"purge", "unlink"}
    OBVIOUS
  <1> HIDE DEF pc
  <1>5. /\ r \in Thread(r.before) /\ StepShape(r) /\ r.ref = th[t].ref
        /\ r.todo \subseteq th[t].todo /\ r.purged = th[t].purged
    BY <1>2, <1>4, ThreadFacts DEF Thread, StepShape, Steps
  <1> HIDE DEF r
  <1>6. files' \subseteq files /\ failures' \in 0 .. MaxFailures
    BY <1>1, TypeFacts, BoundAssumption
  <1>7. QED
    BY <1>2, <1>3, <1>5, <1>6, TypeFacts, ThreadFacts, ThinkKeepsTypes

(* Purging marks rows; none goes from its place. *)
LEMMA PurgeFacts ==
    ASSUME TypeInv, NEW t \in Threads, PurgeRows(t)
    PROVE  /\ Extends(rows, rows') /\ Len(rows') = Len(rows)
           /\ Become(t, Idle) /\ UNCHANGED <<files, nextRef, sent, replies, failures>>
  <1> DEFINE P(d) == IF d \notin th[t].purged THEN rows[d]
                     ELSE IF th[t].op = "delete"
                     THEN [rows[d] EXCEPT !.live = FALSE, !.raw = FALSE]
                     ELSE [rows[d] EXCEPT !.raw = FALSE]
  <1>1. /\ rows' = [d \in RowIds |-> P(d)] \/ rows' = rows
        /\ Become(t, Idle) /\ UNCHANGED <<files, nextRef, sent, replies, failures>>
    BY DEF PurgeRows
  <1>2. \A d \in RowIds : P(d) \in EventRow /\ P(d).item = rows[d].item /\ P(d).ref = rows[d].ref
    BY TypeFacts DEF EventRow
  <1> HIDE DEF P
  <1>3. CASE rows' = [d \in RowIds |-> P(d)]
    <2>1. rows' \in [1 .. Len(rows) -> EventRow]
      BY <1>2, <1>3, TypeFacts
    <2>2. rows' \in Seq(EventRow) /\ Len(rows') = Len(rows)
      BY <2>1, TypeFacts
    <2>3. QED
      BY <1>1, <1>2, <1>3, <2>2, TypeFacts DEF Extends
  <1>4. CASE rows' = rows
    BY <1>1, <1>4, TypeFacts
  <1>5. QED
    BY <1>1, <1>3, <1>4

LEMMA PurgeTypes == ASSUME TypeInv, NEW t \in Threads, PurgeRows(t) PROVE TypeInv'
  <1>1. /\ nextRef' \in 0 .. MaxRefs /\ nextRef <= nextRef' /\ files' \subseteq 1 .. nextRef'
        /\ sent' \in Seq(1 .. nextRef') /\ replies' \subseteq Reply
        /\ failures' \in 0 .. MaxFailures
        /\ Idle.ref \in 0 .. nextRef' /\ Idle.purged \subseteq 1 .. Len(rows)
    BY PurgeFacts, TypeFacts, IdleFacts
  <1>2. QED
    BY <1>1, PurgeFacts, IdleFacts, MoveKeepsTypes

LEMMA FailTypes == ASSUME TypeInv, NEW t \in Threads, Fail(t) PROVE TypeInv'
  <1>1. failures' \in 0 .. MaxFailures
    BY TypeFacts, BoundAssumption DEF Fail
  <1>2. QED
    BY <1>1, TypeFacts, IdleTypes DEF Fail

LEMMA BeginTypes == ASSUME TypeInv, NEW t \in Threads, Begin(t) PROVE TypeInv'
  <1>1. CASE delete_events(t)
    <2>1. PICK D \in SUBSET Live : SelectRows(t, D, "delete")
      BY <1>1 DEF delete_events
    <2>2. QED
      BY <2>1, SelectTypes DEF Requests
  <1>2. CASE strip_raw(t)
    <2>1. PICK D \in SUBSET Live : SelectRows(t, D, "strip")
      BY <1>2 DEF strip_raw
    <2>2. QED
      BY <2>1, SelectTypes DEF Requests
  <1>3. QED
    BY <1>1, <1>2, SingleTypes, BatchTypes DEF Begin

LEMMA NextTypes == TypeInv /\ [Next]_vars => TypeInv'
  <1> SUFFICES ASSUME TypeInv, [Next]_vars PROVE TypeInv'
    OBVIOUS
  <1>1. ASSUME NEW t \in Threads, Begin(t) \/ Work(t) \/ Fail(t) PROVE TypeInv'
    <2>1. CASE Begin(t)
      BY <2>1, BeginTypes
    <2>2. CASE Work(t)
      BY <2>2, FindTypes, SaveTypes, StoreTypes, DeliverTypes, PrefetchTypes, ReadTypes,
         ReplayTypes, LineTypes, CheckpointTypes, FinishTypes, UnlinkTypes, PurgeTypes DEF Work
    <2>3. CASE Fail(t)
      BY <2>3, FailTypes
    <2>4. QED
      BY <1>1, <2>1, <2>2, <2>3
  <1>2. CASE UNCHANGED vars
    BY <1>2 DEF vars, TypeInv, TypeOK, RowIds
  <1>3. QED
    BY <1>1, <1>2 DEF Next

LEMMA SpecTypes == Spec => []TypeInv
  BY InitTypes, NextTypes, PTL DEF Spec

(* What the tables and the requests of ingestion hold has its type. *)
THEOREM IngestTypeCorrect == Spec => []TypeOK
  <1>1. TypeInv => TypeOK
    BY DEF TypeInv
  <1>2. QED
    BY <1>1, SpecTypes, PTL

-----------------------------------------------------------------------------
(* Whose event an id is *)

InRows(R, i, n) == \E d \in 1 .. Len(R) : R[d].item = i /\ R[d].ref = n
InPending(r, i, n) == \E k \in 1 .. Len(r.pending) : r.pending[k].item = i /\ r.pending[k].ref = n
Kept(R, r, i, n) == InRows(R, i, n) \/ InPending(r, i, n)

(* What a request will answer is stored, or waits for a checkpoint that    *)
(* comes before the answer.                                                *)
NamesOf(R, r) ==
    /\ r.pc = "deliver" => InRows(R, Head(r.lines), r.ref)
    /\ \A a \in r.answers : Kept(R, r, a.item, a.ref)
    /\ \A i \in Items : r.first[i] # 0 => Kept(R, r, i, r.first[i])

NameInv == ReplyNamesItsRow /\ \A t \in Threads : NamesOf(rows, th[t])

LEMMA RowsStay ==
    ASSUME TypeInv, Extends(rows, rows'), NEW i, NEW n, InRows(rows, i, n)
    PROVE  InRows(rows', i, n)
  <1>1. PICK d \in 1 .. Len(rows) : rows[d].item = i /\ rows[d].ref = n
    BY DEF InRows
  <1>2. d \in 1 .. Len(rows') /\ rows'[d].item = i /\ rows'[d].ref = n
    BY <1>1, TypeFacts DEF Extends
  <1>3. QED
    BY <1>2 DEF InRows

LEMMA RepliesAreRows ==
    ASSUME TypeInv
    PROVE  ReplyNamesItsRow <=> \A a \in replies : InRows(rows, a.item, a.ref)
  BY TypeFacts DEF ReplyNamesItsRow, InRows

(* One request goes on, rows are appended, what is answered is stored.     *)
LEMMA MoveKeepsNames ==
    ASSUME TypeInv, TypeInv', NameInv, NEW t \in Threads, NEW r, Become(t, r),
           Extends(rows, rows'), NamesOf(rows', r),
           \A a \in replies' : a \in replies \/ InRows(rows', a.item, a.ref)
    PROVE  NameInv'
  <1>1. /\ th'[t] = r /\ \A u \in Threads : u # t => th'[u] = th[u]
    BY BecomeFacts
  <1>2. \A a \in replies : InRows(rows', a.item, a.ref)
    BY RepliesAreRows, RowsStay DEF NameInv
  <1>3. \A a \in replies' : InRows(rows', a.item, a.ref)
    BY <1>2
  <1>4. ReplyNamesItsRow'
    BY <1>3 DEF ReplyNamesItsRow, InRows, RowIds
  <1>5. ASSUME NEW u \in Threads PROVE NamesOf(rows', th'[u])
    <2>1. CASE u = t
      BY <1>1, <2>1
    <2>2. CASE u # t
      <3>1. NamesOf(rows, th[u])
        BY DEF NameInv
      <3>2. NamesOf(rows', th[u])
        BY <3>1, RowsStay DEF NamesOf, Kept
      <3>3. QED
        BY <1>1, <2>2, <3>2
    <2>3. QED
      BY <2>1, <2>2
  <1>6. QED
    BY <1>4, <1>5 DEF NameInv

(* A request that neither answers nor remembers more than before. *)
LEMMA QuietNames ==
    ASSUME TypeInv, TypeInv', NameInv, NEW t \in Threads, NEW r, Become(t, r),
           r.pc # "deliver", r.answers \subseteq th[t].answers, r.first = th[t].first,
           r.pending = th[t].pending, Extends(rows, rows'), UNCHANGED replies
    PROVE  NameInv'
  <1>1. NamesOf(rows, th[t])
    BY DEF NameInv
  <1>2. NamesOf(rows', r)
    BY <1>1, RowsStay DEF NamesOf, Kept, InPending
  <1>3. QED
    BY <1>2, MoveKeepsNames

LEMMA IdleNames == ASSUME NEW R PROVE NamesOf(R, Idle)
  BY IdleFacts DEF NamesOf

(* A request that ends. *)
LEMMA EndNames ==
    ASSUME TypeInv, TypeInv', NameInv, NEW t \in Threads, Become(t, Idle),
           Extends(rows, rows'),
           \A a \in replies' : a \in replies \/ InRows(rows', a.item, a.ref)
    PROVE  NameInv'
  BY IdleNames, MoveKeepsNames

LEMMA InitNames == Init => NameInv
  <1> SUFFICES ASSUME Init PROVE NameInv
    OBVIOUS
  <1>1. ReplyNamesItsRow
    BY DEF Init, ReplyNamesItsRow
  <1>2. QED
    BY <1>1, InitSlots, SlotFacts DEF NameInv, NamesOf

LEMMA FindNames ==
    ASSUME TypeInv, TypeInv', NameInv, NEW t \in Threads, FindDuplicate(t) PROVE NameInv'
  <1> DEFINE i == Head(th[t].lines)
             r == [th[t] EXCEPT !.pc = "save"]
  <1>1. Extends(rows, rows') /\ rows' = rows
    BY TypeFacts DEF FindDuplicate
  <1>2. CASE Become(t, r) /\ UNCHANGED replies
    <2>1. /\ r.pc = "save" /\ r.answers = th[t].answers /\ r.first = th[t].first
          /\ r.pending = th[t].pending
      BY ThreadFacts DEF Thread
    <2> HIDE DEF r
    <2>2. QED
      BY <1>1, <1>2, <2>1, QuietNames
  <1>3. ASSUME NEW d \in _find_duplicate(i),
               replies' = replies \cup {[item |-> i, ref |-> rows[d].ref]}, Become(t, Idle)
        PROVE  NameInv'
    <2>1. InRows(rows', i, rows[d].ref)
      BY <1>1, TypeFacts DEF _find_duplicate, Live, InRows
    <2>2. \A a \in replies' : a \in replies \/ InRows(rows', a.item, a.ref)
      BY <1>3, <2>1
    <2>3. QED
      BY <1>1, <1>3, <2>2, EndNames
  <1>4. QED
    BY <1>2, <1>3 DEF FindDuplicate

LEMMA StoreNames ==
    ASSUME TypeInv, TypeInv', NameInv, NEW t \in Threads, StoreRow(t) PROVE NameInv'
  <1> DEFINE i == Head(th[t].lines)
             row == NewRow(i, th[t].seq, th[t].ref)
             r == [th[t] EXCEPT !.pc = "deliver"]
  <1>1. th[t].pc = "insert" /\ UNCHANGED replies
    BY DEF StoreRow
  <1>2. CASE Become(t, Idle) /\ UNCHANGED rows
    BY <1>1, <1>2, TypeFacts, EndNames
  <1>3. CASE rows' = Append(rows, row) /\ Become(t, r)
    <2>1. i \in Items /\ th[t].ref \in Nat /\ th[t].seq \in Nat
      BY <1>1, ThreadFacts, TypeFacts DEF StepShape
    <2>2. row \in EventRow /\ row.item = i /\ row.ref = th[t].ref
      BY <2>1, RowType
    <2>3. /\ Extends(rows, rows') /\ Len(rows') = Len(rows) + 1
          /\ rows'[Len(rows) + 1] = row
      BY <1>3, <2>2, TypeFacts, ExtendsAppend
    <2>4. InRows(rows', i, th[t].ref)
      BY <2>2, <2>3, TypeFacts DEF InRows
    <2>5. /\ r.lines = th[t].lines /\ r.ref = th[t].ref /\ r.answers = th[t].answers
          /\ r.first = th[t].first /\ r.pending = th[t].pending
      BY ThreadFacts DEF Thread
    <2> HIDE DEF r, row
    <2>6. NamesOf(rows', r)
      <3>1. NamesOf(rows, th[t])
        BY DEF NameInv
      <3>2. QED
        BY <2>3, <2>4, <2>5, <3>1, RowsStay DEF NamesOf, Kept, InPending
    <2>7. QED
      BY <1>1, <1>3, <2>3, <2>6, MoveKeepsNames
  <1>4. QED
    BY <1>2, <1>3 DEF StoreRow

LEMMA DeliverNames ==
    ASSUME TypeInv, TypeInv', NameInv, NEW t \in Threads, _deliver(t) PROVE NameInv'
  <1> DEFINE a == [item |-> Head(th[t].lines), ref |-> th[t].ref]
  <1>1. /\ th[t].pc = "deliver" /\ rows' = rows /\ replies' = replies \cup {a} /\ Become(t, Idle)
    BY DEF _deliver
  <1>2. InRows(rows, a.item, a.ref)
    BY <1>1 DEF NameInv, NamesOf
  <1> HIDE DEF a
  <1>3. Extends(rows, rows') /\ \A b \in replies' : b \in replies \/ InRows(rows', b.item, b.ref)
    BY <1>1, <1>2, TypeFacts
  <1>4. QED
    BY <1>1, <1>3, EndNames

LEMMA BatchNames ==
    ASSUME TypeInv, TypeInv', NameInv, NEW t \in Threads, NEW b \in Batches, process_lines(t, b)
    PROVE  NameInv'
  <1> DEFINE r == [Idle EXCEPT !.pc = "prefetch", !.op = "batch", !.lines = b,
                               !.batch = b, !.before = LogOf(rows)]
  <1>1. Become(t, r) /\ UNCHANGED <<rows, replies>>
    BY DEF process_lines
  <1>2. /\ r.pc = "prefetch" /\ r.answers = {} /\ r.first = [i \in Items |-> 0]
    BY DEF Idle
  <1> HIDE DEF r
  <1>3. NamesOf(rows', r) /\ Extends(rows, rows')
    BY <1>1, <1>2, TypeFacts DEF NamesOf
  <1>4. QED
    BY <1>1, <1>3, MoveKeepsNames

LEMMA SingleNames ==
    ASSUME TypeInv, TypeInv', NameInv, NEW t \in Threads, NEW i \in Items, process_payload(t, i)
    PROVE  NameInv'
  <1> DEFINE r == [Idle EXCEPT !.pc = "find", !.op = "single", !.lines = <<i>>]
  <1>1. Become(t, r) /\ UNCHANGED <<rows, replies>>
    BY DEF process_payload
  <1>2. /\ r.pc = "find" /\ r.answers = {} /\ r.first = [k \in Items |-> 0]
    BY DEF Idle
  <1> HIDE DEF r
  <1>3. NamesOf(rows', r) /\ Extends(rows, rows')
    BY <1>1, <1>2, TypeFacts DEF NamesOf
  <1>4. QED
    BY <1>1, <1>3, MoveKeepsNames

LEMMA SelectNames ==
    ASSUME TypeInv, TypeInv', NameInv, NEW t \in Threads, NEW D, NEW op, SelectRows(t, D, op)
    PROVE  NameInv'
  <1> DEFINE W == {d \in D : rows[d].raw}
             pc == IF W = {} THEN "purge" ELSE "unlink"
             r == [Idle EXCEPT !.pc = pc, !.op = op, !.todo = W, !.purged = D]
  <1>1. Become(t, r) /\ UNCHANGED <<rows, replies>>
    BY DEF SelectRows
  <1>2. pc # "deliver"
    OBVIOUS
  <1> HIDE DEF W, pc
  <1>3. /\ r.pc = pc /\ r.answers = {} /\ r.first = [i \in Items |-> 0]
    BY DEF Idle
  <1> HIDE DEF r
  <1>4. NamesOf(rows', r) /\ Extends(rows, rows')
    BY <1>1, <1>2, <1>3, TypeFacts DEF NamesOf
  <1>5. QED
    BY <1>1, <1>4, MoveKeepsNames

(* A replay is answered with a row, or with the line of this batch that    *)
(* will be one.                                                            *)
LEMMA ReplayNames ==
    ASSUME TypeInv, TypeInv', NameInv, NEW t \in Threads, ReplayLine(t) PROVE NameInv'
  <1> DEFINE i == Head(th[t].lines)
  <1>1. /\ th[t].pc = "lines" /\ th[t].lines # <<>> /\ UNCHANGED <<rows, replies>>
    BY DEF ReplayLine
  <1>2. PICK ref \in ReplayOf(t, i) :
          Become(t, AfterLine([th[t] EXCEPT !.answers = @ \cup {[item |-> i, ref |-> ref]}]))
    BY DEF ReplayLine
  <1> DEFINE a == [item |-> i, ref |-> ref]
             q == [th[t] EXCEPT !.answers = @ \cup {a}]
  <1>3. i \in Items
    BY <1>1, ThreadFacts
  <1>4. NamesOf(rows, th[t])
    BY DEF NameInv
  <1>5. Kept(rows, th[t], i, ref)
    <2>1. CASE th[t].first[i] # 0
      BY <1>2, <1>3, <1>4, <2>1 DEF ReplayOf, NamesOf
    <2>2. CASE th[t].first[i] = 0
      <3>1. PICK d \in _find_duplicate(i) : ref = rows[d].ref
        BY <1>2, <2>2 DEF ReplayOf
      <3>2. QED
        BY <3>1, TypeFacts DEF _find_duplicate, Live, Kept, InRows
    <2>3. QED
      BY <2>1, <2>2
  <1>6. a \in Reply
    BY <1>3, ReplayType
  <1>7. /\ q \in Thread(q.before) /\ q.lines # <<>> /\ q.answers = th[t].answers \cup {a}
        /\ q.first = th[t].first /\ q.pending = th[t].pending
    BY <1>1, <1>6, ThreadFacts DEF Thread
  <1>8. a.item = i /\ a.ref = ref
    OBVIOUS
  <1> HIDE DEF q, a
  <1>9. Become(t, AfterLine(q))
    BY <1>2 DEF q, a
  <1>10. NamesOf(rows', AfterLine(q))
    BY <1>1, <1>4, <1>5, <1>7, <1>8, AfterLineFacts DEF NamesOf, Kept, InPending
  <1>11. QED
    BY <1>1, <1>9, <1>10, TypeFacts, MoveKeepsNames

LEMMA LineNames ==
    ASSUME TypeInv, TypeInv', NameInv, NEW t \in Threads, StoreLine(t) PROVE NameInv'
  <1> DEFINE i == Head(th[t].lines)
             n == nextRef + 1
             seq == Numbered(Source[i], th[t].seq)
             row == NewRow(i, seq, n)
             a == [item |-> i, ref |-> n]
             q == [th[t] EXCEPT !.seq = seq]
             r == [th[t] EXCEPT !.seq = seq, !.first[i] = n, !.pending = Append(@, row),
                                !.answers = @ \cup {a}]
  <1>1. th[t].pc = "lines" /\ th[t].lines # <<>> /\ UNCHANGED <<rows, replies>>
    BY DEF StoreLine
  <1>2. Become(t, AfterLine(q)) \/ Become(t, AfterLine(r))
    BY DEF StoreLine
  <1>3. i \in Items /\ seq \in Nat /\ n \in Nat
    BY <1>1, ThreadFacts, TypeFacts, NumberedType
  <1>4. row \in EventRow /\ row.item = i /\ row.ref = n /\ a \in Reply /\ a.item = i /\ a.ref = n
    BY <1>3, RowType DEF Reply
  <1>5. /\ [th[t].first EXCEPT ![i] = n] \in [Items -> Nat]
        /\ [th[t].first EXCEPT ![i] = n][i] = n
        /\ \A k \in Items : k # i => [th[t].first EXCEPT ![i] = n][k] = th[t].first[k]
    BY <1>3, ThreadFacts
  <1>6. /\ Append(th[t].pending, row) \in Seq(EventRow)
        /\ Len(Append(th[t].pending, row)) = Len(th[t].pending) + 1
        /\ \A k \in 1 .. Len(th[t].pending) : Append(th[t].pending, row)[k] = th[t].pending[k]
        /\ Append(th[t].pending, row)[Len(th[t].pending) + 1] = row
        /\ Len(th[t].pending) \in Nat
    BY <1>4, ThreadFacts, AppendProperties
  <1> HIDE DEF i, n, seq, row, a
  <1>7. NamesOf(rows, th[t])
    BY DEF NameInv
  <1>8. CASE Become(t, AfterLine(q))
    <2>1. /\ q \in Thread(q.before) /\ q.lines # <<>> /\ q.answers = th[t].answers
          /\ q.first = th[t].first /\ q.pending = th[t].pending
      BY <1>1, <1>3, ThreadFacts DEF Thread
    <2> HIDE DEF q
    <2>2. NamesOf(rows', AfterLine(q))
      BY <1>1, <1>7, <2>1, AfterLineFacts DEF NamesOf, Kept, InPending
    <2>3. QED
      BY <1>1, <1>8, <2>2, TypeFacts, MoveKeepsNames
  <1>9. CASE Become(t, AfterLine(r))
    <2> DEFINE f == [th[t].first EXCEPT ![i] = n]
               pend == Append(th[t].pending, row)
               e == [th[t] EXCEPT !.seq = seq, !.first = f, !.pending = pend,
                                  !.answers = th[t].answers \cup {a}]
    <2>0. r = e /\ f \in [Items -> Nat] /\ pend \in Seq(EventRow)
      BY <1>5, <1>6
    <2> HIDE DEF f, pend
    <2>1. /\ e \in Thread(e.before) /\ e.lines # <<>> /\ e.answers = th[t].answers \cup {a}
          /\ e.first = f /\ e.pending = pend
      BY <1>1, <1>3, <1>4, <2>0, ThreadFacts DEF Thread
    <2> USE DEF f, pend
    <2> HIDE DEF e
    <2>2. InPending(e, i, n)
      BY <1>4, <1>6, <2>1 DEF InPending
    <2>3. \A k, m : Kept(rows, th[t], k, m) => Kept(rows, e, k, m)
      BY <1>6, <2>1 DEF Kept, InPending
    <2>4. \A b \in e.answers : Kept(rows, e, b.item, b.ref)
      BY <1>4, <1>7, <2>1, <2>2, <2>3 DEF NamesOf, Kept
    <2>5. \A k \in Items : e.first[k] # 0 => Kept(rows, e, k, e.first[k])
      BY <1>5, <1>7, <2>1, <2>2, <2>3 DEF NamesOf, Kept
    <2>6. \A k, m : Kept(rows, e, k, m) => Kept(rows, AfterLine(e), k, m)
      BY <2>1, AfterLineFacts DEF Kept, InPending
    <2>7. NamesOf(rows, AfterLine(e))
      BY <2>1, <2>4, <2>5, <2>6, AfterLineFacts DEF NamesOf
    <2>8. Become(t, AfterLine(e)) /\ rows' = rows
      BY <1>1, <1>9, <2>0
    <2>9. QED
      BY <1>1, <2>7, <2>8, TypeFacts, MoveKeepsNames
  <1>10. QED
    BY <1>2, <1>8, <1>9

(* What waited is stored: the checkpoint, and the last one. *)
LEMMA PendingStored ==
    ASSUME TypeInv, NEW t \in Threads, rows' = rows \o th[t].pending
    PROVE  /\ Extends(rows, rows')
           /\ \A i, n : Kept(rows, th[t], i, n) => InRows(rows', i, n)
  <1>1. /\ Extends(rows, rows') /\ Len(rows') = Len(rows) + Len(th[t].pending)
        /\ \A k \in 1 .. Len(th[t].pending) : rows'[Len(rows) + k] = th[t].pending[k]
        /\ Len(rows) \in Nat /\ Len(th[t].pending) \in Nat
    BY TypeFacts, ThreadFacts, ExtendsConcat
  <1>2. ASSUME NEW i, NEW n, InPending(th[t], i, n) PROVE InRows(rows', i, n)
    <2>1. PICK k \in 1 .. Len(th[t].pending) :
            th[t].pending[k].item = i /\ th[t].pending[k].ref = n
      BY <1>2 DEF InPending
    <2>2. Len(rows) + k \in 1 .. Len(rows')
      BY <1>1
    <2>3. QED
      BY <1>1, <2>1, <2>2 DEF InRows
  <1>3. QED
    BY <1>1, <1>2, RowsStay DEF Kept

LEMMA CheckpointNames ==
    ASSUME TypeInv, TypeInv', NameInv, NEW t \in Threads, checkpoint(t) PROVE NameInv'
  <1> DEFINE r == [th[t] EXCEPT !.pc = "lines", !.pending = <<>>]
  <1>1. rows' = rows \o th[t].pending /\ Become(t, r) /\ UNCHANGED replies
    BY DEF checkpoint
  <1>2. r.pc = "lines" /\ r.answers = th[t].answers /\ r.first = th[t].first
    BY ThreadFacts DEF Thread
  <1> HIDE DEF r
  <1>3. NamesOf(rows', r)
    BY <1>1, <1>2, PendingStored DEF NameInv, NamesOf, Kept
  <1>4. QED
    BY <1>1, <1>3, PendingStored, MoveKeepsNames

LEMMA FinishNames ==
    ASSUME TypeInv, TypeInv', NameInv, NEW t \in Threads, FinishBatch(t) PROVE NameInv'
  <1>1. /\ rows' = rows \o th[t].pending /\ Become(t, Idle)
        /\ replies' = replies \cup th[t].answers
    BY DEF FinishBatch
  <1>2. \A a \in replies' : a \in replies \/ InRows(rows', a.item, a.ref)
    BY <1>1, PendingStored DEF NameInv, NamesOf
  <1>3. QED
    BY <1>1, <1>2, PendingStored, EndNames

(* The steps that neither answer nor remember. *)
LEMMA OtherNames ==
    ASSUME TypeInv, TypeInv', NameInv, NEW t \in Threads,
           SaveRaw(t) \/ prefetch_hashes(t) \/ ReadMaxSeq(t) \/ UnlinkRaw(t)
    PROVE  NameInv'
  <1>1. Extends(rows, rows') /\ UNCHANGED replies
    BY TypeFacts DEF SaveRaw, prefetch_hashes, ReadMaxSeq, UnlinkRaw
  <1> DEFINE Quiets(r) == /\ Become(t, r) /\ r.pc # "deliver" /\ r.answers = th[t].answers
                          /\ r.first = th[t].first /\ r.pending = th[t].pending
  <1>2. \E r : Quiets(r)
    <2>1. th[t] \in Thread(th[t].before)
      BY ThreadFacts
    <2>2. ASSUME NEW n, NEW seq, Become(t, [th[t] EXCEPT !.pc = "insert", !.ref = n, !.seq = seq])
          PROVE  \E r : Quiets(r)
      <3>1. Quiets([th[t] EXCEPT !.pc = "insert", !.ref = n, !.seq = seq])
        BY <2>1, <2>2 DEF Thread
      <3>2. QED
        BY <3>1
    <2>3. ASSUME NEW K, Become(t, [th[t] EXCEPT !.pc = "maxSeq", !.known = K])
          PROVE  \E r : Quiets(r)
      <3>1. Quiets([th[t] EXCEPT !.pc = "maxSeq", !.known = K])
        BY <2>1, <2>3 DEF Thread
      <3>2. QED
        BY <3>1
    <2>4. ASSUME NEW n, Become(t, [th[t] EXCEPT !.pc = "lines", !.seq = n])
          PROVE  \E r : Quiets(r)
      <3>1. Quiets([th[t] EXCEPT !.pc = "lines", !.seq = n])
        BY <2>1, <2>4 DEF Thread
      <3>2. QED
        BY <3>1
    <2>5. ASSUME NEW D, NEW pc \in {"purge", "unlink"},
                 Become(t, [th[t] EXCEPT !.todo = D, !.pc = pc])
          PROVE  \E r : Quiets(r)
      <3>1. Quiets([th[t] EXCEPT !.todo = D, !.pc = pc])
        BY <2>1, <2>5 DEF Thread
      <3>2. QED
        BY <3>1
    <2> HIDE DEF Quiets
    <2>6. CASE SaveRaw(t)
      BY <2>2, <2>6 DEF SaveRaw
    <2>7. CASE prefetch_hashes(t)
      BY <2>3, <2>7 DEF prefetch_hashes
    <2>8. CASE ReadMaxSeq(t)
      BY <2>4, <2>8 DEF ReadMaxSeq
    <2>9. CASE UnlinkRaw(t)
      <3>1. PICK d \in th[t].todo :
              Become(t, [th[t] EXCEPT !.todo = @ \ {d},
                           !.pc = IF th[t].todo = {d} THEN "purge" ELSE "unlink"])
        BY <2>9 DEF UnlinkRaw
      <3> DEFINE pc == IF th[t].todo = {d} THEN "purge" ELSE "unlink"
      <3>2. pc \in {"purge", "unlink"} /\ Become(t, [th[t] EXCEPT !.todo = th[t].todo \ {d}, !.pc = pc])
        BY <3>1
      <3> HIDE DEF pc
      <3>3. QED
        BY <2>5, <3>2
    <2>10. QED
      BY <2>6, <2>7, <2>8, <2>9
  <1>3. QED
    BY <1>1, <1>2, QuietNames

LEMMA NextNames == TypeInv /\ TypeInv' /\ NameInv /\ [Next]_vars => NameInv'
  <1> SUFFICES ASSUME TypeInv, TypeInv', NameInv, [Next]_vars PROVE NameInv'
    OBVIOUS
  <1>1. ASSUME NEW t \in Threads, Begin(t) PROVE NameInv'
    BY <1>1, SingleNames, BatchNames, SelectNames DEF Begin, delete_events, strip_raw
  <1>2. ASSUME NEW t \in Threads, Work(t) PROVE NameInv'
    <2>1. CASE PurgeRows(t)
      BY <2>1, PurgeFacts, EndNames
    <2>2. CASE SaveRaw(t) \/ prefetch_hashes(t) \/ ReadMaxSeq(t) \/ UnlinkRaw(t)
      BY <2>2, OtherNames
    <2>3. QED
      BY <1>2, <2>1, <2>2, FindNames, StoreNames, DeliverNames, ReplayNames, LineNames,
         CheckpointNames, FinishNames DEF Work
  <1>3. ASSUME NEW t \in Threads, Fail(t) PROVE NameInv'
    BY <1>3, TypeFacts, EndNames DEF Fail
  <1>4. CASE UNCHANGED vars
    BY <1>4 DEF vars, NameInv, ReplyNamesItsRow, RowIds
  <1>5. QED
    BY <1>1, <1>2, <1>3, <1>4 DEF Next

(* Whatever else is stored, purged or dies: the event a client was told    *)
(* stands for its payload is a row of that payload.                        *)
THEOREM ReplyTheorem == Spec => []ReplyNamesItsRow
  <1>1. Init => NameInv
    BY InitNames
  <1>2. TypeInv /\ TypeInv' /\ NameInv /\ [Next]_vars => NameInv'
    BY NextNames
  <1>3. NameInv => ReplyNamesItsRow
    BY DEF NameInv
  <1>4. QED
    BY <1>1, <1>2, <1>3, SpecTypes, PTL DEF Spec

-----------------------------------------------------------------------------
(* Who has an id, and what the sinks got *)

HasRow(R, n) == \E d \in 1 .. Len(R) : R[d].ref = n
OutRow(R, n) == \E d \in 1 .. Len(R) : R[d].ref = n /\ Outcome[R[d].item] = "output"

(* An id a request has not put into a row, or not sent on. *)
Holds(r, n) ==
    \/ r.pc \in {"insert", "deliver"} /\ r.ref = n
    \/ \E k \in 1 .. Len(r.pending) : r.pending[k].ref = n

(* Stored and not sent yet; sent and not stored yet. *)
Due(r, n) == r.pc = "deliver" /\ r.ref = n /\ Outcome[Head(r.lines)] = "output"
Early(r, n) ==
    \E k \in 1 .. Len(r.pending) : r.pending[k].ref = n /\ Outcome[r.pending[k].item] = "output"

(* An id belongs to one request. *)
OwnInv ==
    /\ \A t \in Threads : \A n : Holds(th[t], n) => n \in 1 .. nextRef
    /\ \A t, u \in Threads : \A n : Holds(th[t], n) /\ Holds(th[u], n) => t = u
    /\ \A n : HasRow(rows, n) => n \in 1 .. nextRef
    /\ \A t \in Threads : th[t].pc = "insert" => ~HasRow(rows, th[t].ref)

WasSent(n) == n \in Range(sent)
ToBeSent(n) ==
    \/ OutRow(rows, n) /\ \A t \in Threads : ~Due(th[t], n)
    \/ \E t \in Threads : Early(th[t], n)

SentInv == failures = 0 => IsInjective(sent) /\ \A n : WasSent(n) <=> ToBeSent(n)

LEMMA HoldsWhat == ASSUME NEW r, NEW n PROVE (Due(r, n) => Holds(r, n)) /\ (Early(r, n) => Holds(r, n))
  BY DEF Due, Early, Holds

LEMMA IdleHolds == ASSUME NEW n PROVE ~Holds(Idle, n) /\ ~Due(Idle, n) /\ ~Early(Idle, n)
  <1>1. Idle.pc = "idle" /\ Idle.pending = <<>> /\ Len(<<>>) = 0
    BY IdleFacts
  <1>2. QED
    BY <1>1 DEF Holds, Due, Early

(* One request goes on; it keeps what it had, or takes the next id. *)
LEMMA MoveKeepsOwn ==
    ASSUME TypeInv, OwnInv, NEW t \in Threads, NEW r, Become(t, r),
           nextRef' \in Nat, nextRef <= nextRef',
           \A n : Holds(r, n) => Holds(th[t], n) \/ (n = nextRef + 1 /\ nextRef' = nextRef + 1),
           \A n : HasRow(rows', n) => HasRow(rows, n) \/ Holds(th[t], n),
           r.pc = "insert" => ~HasRow(rows', r.ref)
    PROVE  OwnInv'
  <1>1. /\ th'[t] = r /\ \A u \in Threads : u # t => th'[u] = th[u]
    BY BecomeFacts
  <1>2. nextRef \in Nat
    BY TypeFacts
  <1>3. \A u \in Threads : \A n : Holds(th'[u], n) => n \in 1 .. nextRef'
    BY <1>1, <1>2 DEF OwnInv
  <1>4. \A u \in Threads : \A n : u # t => ~(Holds(r, n) /\ Holds(th[u], n))
    BY <1>2 DEF OwnInv
  <1>5. \A u, w \in Threads : \A n : Holds(th'[u], n) /\ Holds(th'[w], n) => u = w
    BY <1>1, <1>4 DEF OwnInv
  <1>6. \A n : HasRow(rows', n) => n \in 1 .. nextRef'
    BY <1>2 DEF OwnInv
  <1>7. \A u \in Threads : th'[u].pc = "insert" => ~HasRow(rows', th'[u].ref)
    <2> SUFFICES ASSUME NEW u \in Threads, th'[u].pc = "insert", HasRow(rows', th'[u].ref) PROVE FALSE
      OBVIOUS
    <2>1. u # t /\ th'[u] = th[u]
      BY <1>1
    <2>2. Holds(th[u], th[u].ref)
      BY <2>1 DEF Holds
    <2>3. QED
      BY <2>1, <2>2 DEF OwnInv
  <1>8. QED
    BY <1>3, <1>5, <1>6, <1>7 DEF OwnInv

(* Nothing is sent, and what is stored, due or early stays so. *)
LEMMA SilentSent ==
    ASSUME TypeInv, SentInv, NEW t \in Threads, NEW r, Become(t, r),
           sent' = sent, failures' = 0 => failures = 0,
           \A n : OutRow(rows', n) <=> OutRow(rows, n),
           \A n : Due(r, n) <=> Due(th[t], n),
           \A n : Early(r, n) <=> Early(th[t], n)
    PROVE  SentInv'
  <1>1. /\ th'[t] = r /\ \A u \in Threads : u # t => th'[u] = th[u]
    BY BecomeFacts
  <1>2. ASSUME NEW n PROVE ToBeSent(n)' <=> ToBeSent(n)
    <2>1. \A u \in Threads : (Due(th'[u], n) <=> Due(th[u], n)) /\ (Early(th'[u], n) <=> Early(th[u], n))
      BY <1>1
    <2>2. QED
      BY <2>1 DEF ToBeSent
  <1>3. \A n : WasSent(n)' <=> WasSent(n)
    BY DEF WasSent
  <1>4. QED
    BY <1>2, <1>3 DEF SentInv

(* A row that only changes its marks. *)
LEMMA SameRows ==
    ASSUME TypeInv, Extends(rows, rows'), Len(rows') = Len(rows)
    PROVE  \A n : (HasRow(rows', n) <=> HasRow(rows, n)) /\ (OutRow(rows', n) <=> OutRow(rows, n))
  BY DEF Extends, HasRow, OutRow

LEMMA SentGrows ==
    ASSUME NEW S, sent \in Seq(S), NEW n \in S, sent' = Append(sent, n)
    PROVE  /\ Range(sent') = Range(sent) \cup {n}
           /\ n \notin Range(sent) /\ IsInjective(sent) => IsInjective(sent')
  <1>1. /\ Len(sent) \in Nat /\ DOMAIN sent = 1 .. Len(sent) /\ DOMAIN sent' = 1 .. Len(sent) + 1
        /\ \A k \in 1 .. Len(sent) : sent'[k] = sent[k]
        /\ sent'[Len(sent) + 1] = n
    BY AppendProperties
  <1>2. 1 .. Len(sent) + 1 = (1 .. Len(sent)) \cup {Len(sent) + 1}
    BY <1>1
  <1>3. Range(sent') = Range(sent) \cup {n}
    BY <1>1, <1>2 DEF Range
  <1>4. n \notin Range(sent) /\ IsInjective(sent) => IsInjective(sent')
    BY <1>1, <1>2 DEF Range, IsInjective
  <1>5. QED
    BY <1>3, <1>4

(* A request without an id or rows of its own ends or goes on. *)
LEMMA EmptyHanded ==
    ASSUME TypeInv, OwnInv, SentInv, NEW t \in Threads, NEW r, Become(t, r),
           \A n : ~Holds(r, n) /\ ~Due(th[t], n) /\ ~Early(th[t], n),
           sent' = sent, failures' = 0 => failures = 0, nextRef' = nextRef,
           Extends(rows, rows'), Len(rows') = Len(rows)
    PROVE  OwnInv' /\ SentInv'
  <1>1. \A n : ~Due(r, n) /\ ~Early(r, n)
    BY HoldsWhat
  <1>2. r.pc # "insert"
    BY DEF Holds
  <1>3. nextRef' \in Nat /\ nextRef <= nextRef'
    BY TypeFacts
  <1>4. OwnInv'
    BY <1>2, <1>3, SameRows, MoveKeepsOwn
  <1>5. SentInv'
    BY <1>1, SameRows, SilentSent
  <1>6. QED
    BY <1>4, <1>5

(* A request that goes on with the rows it has, or without any. *)
LEMMA SameHand ==
    ASSUME TypeInv, OwnInv, SentInv, NEW t \in Threads, NEW r, Become(t, r),
           th[t].pc \notin {"insert", "deliver"}, r.pc \notin {"insert", "deliver"},
           r.pending = th[t].pending,
           sent' = sent, failures' = 0 => failures = 0,
           nextRef' \in Nat, nextRef <= nextRef',
           Extends(rows, rows'), Len(rows') = Len(rows)
    PROVE  OwnInv' /\ SentInv'
  <1>1. \A n : /\ Holds(r, n) <=> Holds(th[t], n)
               /\ Due(r, n) <=> Due(th[t], n)
               /\ Early(r, n) <=> Early(th[t], n)
    BY DEF Holds, Due, Early
  <1>2. OwnInv'
    BY <1>1, SameRows, MoveKeepsOwn
  <1>3. SentInv'
    BY <1>1, SameRows, SilentSent
  <1>4. QED
    BY <1>2, <1>3

LEMMA InitSent == Init => OwnInv /\ SentInv
  <1> SUFFICES ASSUME Init PROVE OwnInv /\ SentInv
    OBVIOUS
  <1>1. rows = <<>> /\ sent = <<>> /\ Len(<<>>) = 0 /\ \A t \in Threads : th[t] \in {Idle, Absent}
    BY InitSlots DEF Init
  <1>2. \A n : ~HasRow(rows, n) /\ ~OutRow(rows, n)
    BY <1>1 DEF HasRow, OutRow
  <1>3. \A t \in Threads : \A n : ~Holds(th[t], n) /\ ~Due(th[t], n) /\ ~Early(th[t], n)
    BY <1>1, SlotFacts DEF Holds, Due, Early
  <1>4. \A t \in Threads : th[t].pc # "insert"
    BY <1>1, SlotFacts
  <1>5. OwnInv
    BY <1>2, <1>3, <1>4 DEF OwnInv
  <1>6. IsInjective(sent) /\ \A n : ~WasSent(n)
    BY <1>1 DEF IsInjective, WasSent, Range
  <1>7. \A n : ~ToBeSent(n)
    BY <1>2, <1>3 DEF ToBeSent
  <1>8. QED
    BY <1>5, <1>6, <1>7 DEF SentInv

SafeInv == TypeInv /\ NameInv /\ OwnInv /\ SentInv

(* The rows of a request that is not in a batch. *)
LEMMA NoPending ==
    ASSUME TypeInv, NEW t \in Threads, th[t].pc \notin {"lines", "checkpoint"}
    PROVE  th[t].pending = <<>> /\ Len(th[t].pending) = 0 /\ \A n : ~Early(th[t], n)
  <1>1. th[t].pending = <<>>
    BY ThreadFacts DEF StepShape
  <1>2. Len(<<>>) = 0
    OBVIOUS
  <1>3. QED
    BY <1>1, <1>2 DEF Early

LEMMA BeginSent == ASSUME SafeInv, NEW t \in Threads, Begin(t) PROVE OwnInv' /\ SentInv'
  <1>1. TypeInv /\ OwnInv /\ SentInv
    BY DEF SafeInv
  <1>2. /\ th[t].pc = "idle" /\ UNCHANGED <<rows, nextRef, sent, failures>>
    BY DEF Begin, process_payload, process_lines, delete_events, strip_raw, SelectRows
  <1>3. \E r : Become(t, r) /\ r.pc \notin {"insert", "deliver"} /\ r.pending = <<>>
    <2>1. ASSUME NEW i \in Items, process_payload(t, i)
          PROVE  \E r : Become(t, r) /\ r.pc \notin {"insert", "deliver"} /\ r.pending = <<>>
      <3> DEFINE r == [Idle EXCEPT !.pc = "find", !.op = "single", !.lines = <<i>>]
      <3>1. Become(t, r) /\ r.pc = "find" /\ r.pending = <<>>
        BY <2>1 DEF process_payload, Idle
      <3> HIDE DEF r
      <3>2. QED
        BY <3>1
    <2>2. ASSUME NEW b \in Batches, process_lines(t, b)
          PROVE  \E r : Become(t, r) /\ r.pc \notin {"insert", "deliver"} /\ r.pending = <<>>
      <3> DEFINE r == [Idle EXCEPT !.pc = "prefetch", !.op = "batch", !.lines = b,
                                   !.batch = b, !.before = LogOf(rows)]
      <3>1. Become(t, r) /\ r.pc = "prefetch" /\ r.pending = <<>>
        BY <2>2 DEF process_lines, Idle
      <3> HIDE DEF r
      <3>2. QED
        BY <3>1
    <2>3. ASSUME NEW D, NEW op, SelectRows(t, D, op)
          PROVE  \E r : Become(t, r) /\ r.pc \notin {"insert", "deliver"} /\ r.pending = <<>>
      <3> DEFINE W == {d \in D : rows[d].raw}
                 pc == IF W = {} THEN "purge" ELSE "unlink"
                 r == [Idle EXCEPT !.pc = pc, !.op = op, !.todo = W, !.purged = D]
      <3>1. Become(t, r) /\ pc \in {"purge", "unlink"}
        BY <2>3 DEF SelectRows
      <3> HIDE DEF W, pc
      <3>2. r.pc = pc /\ r.pending = <<>>
        BY DEF Idle
      <3> HIDE DEF r
      <3>3. QED
        BY <3>1, <3>2
    <2>4. QED
      BY <2>1, <2>2, <2>3 DEF Begin, delete_events, strip_raw
  <1>4. QED
    BY <1>1, <1>2, <1>3, NoPending, TypeFacts, SameHand

LEMMA FindSent == ASSUME SafeInv, NEW t \in Threads, FindDuplicate(t) PROVE OwnInv' /\ SentInv'
  <1>1. TypeInv /\ OwnInv /\ SentInv
    BY DEF SafeInv
  <1>2. th[t].pc = "find" /\ UNCHANGED <<rows, nextRef, sent, failures>>
    BY DEF FindDuplicate
  <1> DEFINE r == [th[t] EXCEPT !.pc = "save"]
  <1>3. Become(t, r) \/ Become(t, Idle)
    BY DEF FindDuplicate
  <1>4. r.pc = "save" /\ r.pending = th[t].pending /\ th[t].pending = <<>>
    BY <1>1, <1>2, ThreadFacts, NoPending DEF Thread
  <1> HIDE DEF r
  <1>5. nextRef' \in Nat /\ nextRef <= nextRef' /\ Extends(rows, rows') /\ Len(rows') = Len(rows)
    BY <1>1, <1>2, TypeFacts
  <1>6. CASE Become(t, r)
    BY <1>1, <1>2, <1>4, <1>5, <1>6, SameHand
  <1>7. CASE Become(t, Idle)
    <2>1. Idle.pc = "idle" /\ Idle.pending = th[t].pending
      BY <1>4, IdleFacts
    <2>2. QED
      BY <1>1, <1>2, <1>5, <1>7, <2>1, SameHand
  <1>8. QED
    BY <1>3, <1>6, <1>7

LEMMA SaveSent == ASSUME SafeInv, NEW t \in Threads, SaveRaw(t) PROVE OwnInv' /\ SentInv'
  <1>1. TypeInv /\ OwnInv /\ SentInv
    BY DEF SafeInv
  <1> DEFINE n == nextRef + 1
             seq == Numbered(Source[Head(th[t].lines)], _max_source_seq(Source[Head(th[t].lines)]))
             r == [th[t] EXCEPT !.pc = "insert", !.ref = n, !.seq = seq]
  <1>2. /\ th[t].pc = "save" /\ nextRef' = n /\ Become(t, r)
        /\ UNCHANGED <<rows, sent, failures>>
    BY DEF SaveRaw
  <1>3. r.pc = "insert" /\ r.ref = n /\ r.pending = th[t].pending
    BY <1>1, ThreadFacts DEF Thread
  <1> HIDE DEF r, seq
  <1>4. th[t].pending = <<>> /\ Len(th[t].pending) = 0 /\ nextRef \in Nat
    BY <1>1, <1>2, NoPending, TypeFacts
  <1>5. \A m : /\ Holds(r, m) => m = nextRef + 1
               /\ ~Due(r, m) /\ ~Due(th[t], m) /\ ~Early(r, m) /\ ~Early(th[t], m)
    BY <1>2, <1>3, <1>4 DEF Holds, Due, Early
  <1>6. ~HasRow(rows', r.ref)
    <2>1. n \notin 1 .. nextRef
      BY <1>4
    <2>2. QED
      BY <1>1, <1>2, <1>3, <2>1 DEF OwnInv
  <1>7. OwnInv'
    BY <1>1, <1>2, <1>4, <1>5, <1>6, MoveKeepsOwn
  <1>8. SentInv'
    BY <1>1, <1>2, <1>5, SilentSent
  <1>9. QED
    BY <1>7, <1>8

(* The row is committed: its event is due. *)
LEMMA StoreSent == ASSUME SafeInv, NEW t \in Threads, StoreRow(t) PROVE OwnInv' /\ SentInv'
  <1>1. TypeInv /\ OwnInv /\ SentInv
    BY DEF SafeInv
  <1> DEFINE i == Head(th[t].lines)
             n == th[t].ref
             row == NewRow(i, th[t].seq, n)
             r == [th[t] EXCEPT !.pc = "deliver"]
  <1>2. th[t].pc = "insert" /\ UNCHANGED <<nextRef, sent, failures>>
    BY DEF StoreRow
  <1>3. th[t].pending = <<>> /\ Len(th[t].pending) = 0 /\ \A m : ~Early(th[t], m)
    BY <1>1, <1>2, NoPending
  <1>4. \A m : ~Due(th[t], m)
    BY <1>2 DEF Due
  <1>5. CASE Become(t, Idle) /\ UNCHANGED rows
    BY <1>1, <1>2, <1>3, <1>4, <1>5, IdleHolds, TypeFacts, EmptyHanded
  <1>6. CASE rows' = Append(rows, row) /\ Become(t, r)
    <2>1. i \in Items /\ n \in Nat /\ th[t].seq \in Nat
      BY <1>1, <1>2, ThreadFacts, TypeFacts DEF StepShape
    <2>2. row \in EventRow /\ row.item = i /\ row.ref = n
      BY <2>1, RowType
    <2>3. /\ r.pc = "deliver" /\ r.ref = n /\ r.lines = th[t].lines /\ r.pending = th[t].pending
      BY <1>1, ThreadFacts DEF Thread
    <2> HIDE DEF row, r, i, n
    <2>4. /\ Len(rows') = Len(rows) + 1 /\ rows'[Len(rows) + 1] = row /\ Len(rows) \in Nat
          /\ \A d \in 1 .. Len(rows) : rows'[d] = rows[d]
      BY <1>1, <1>6, <2>2, TypeFacts, ExtendsAppend
    <2>5. \A m : /\ HasRow(rows', m) <=> HasRow(rows, m) \/ m = n
                 /\ OutRow(rows', m) <=> OutRow(rows, m) \/ (m = n /\ Outcome[i] = "output")
      BY <2>2, <2>4 DEF HasRow, OutRow
    <2>6. \A m : /\ Holds(r, m) <=> m = n
                 /\ Due(r, m) <=> m = n /\ Outcome[i] = "output"
                 /\ ~Early(r, m)
      BY <1>3, <2>3 DEF Holds, Due, Early, i
    <2>7. Holds(th[t], n) /\ ~HasRow(rows, n) /\ ~OutRow(rows, n)
      BY <1>1, <1>2 DEF Holds, OwnInv, HasRow, OutRow, n
    <2>8. OwnInv'
      <3>1. nextRef \in Nat /\ nextRef' = nextRef
        BY <1>1, <1>2, TypeFacts
      <3>2. nextRef' \in Nat /\ nextRef <= nextRef'
        BY <3>1
      <3>3. \A m : Holds(r, m) => Holds(th[t], m)
        BY <2>6, <2>7
      <3>4. \A m : HasRow(rows', m) => HasRow(rows, m) \/ Holds(th[t], m)
        BY <2>5, <2>7
      <3>5. r.pc # "insert"
        BY <2>3
      <3>6. QED
        BY <1>1, <1>6, <3>2, <3>3, <3>4, <3>5, MoveKeepsOwn
    <2>9. /\ th'[t] = r /\ \A u \in Threads : u # t => th'[u] = th[u]
      BY <1>1, <1>6, BecomeFacts
    <2>10. ASSUME NEW m PROVE ToBeSent(m)' <=> ToBeSent(m)
      <3>1. ToBeSent(m)' <=> \/ OutRow(rows', m) /\ \A u \in Threads : ~Due(th'[u], m)
                             \/ \E u \in Threads : Early(th'[u], m)
        BY DEF ToBeSent
      <3>2. (\E u \in Threads : Early(th'[u], m)) <=> \E u \in Threads : Early(th[u], m)
        BY <1>3, <2>6, <2>9
      <3>3. OutRow(rows', m) /\ (\A u \in Threads : ~Due(th'[u], m))
              <=> OutRow(rows, m) /\ \A u \in Threads : ~Due(th[u], m)
        <4>1. CASE m = n /\ Outcome[i] = "output"
          BY <2>6, <2>7, <2>9, <4>1
        <4>2. CASE ~(m = n /\ Outcome[i] = "output")
          BY <1>4, <2>5, <2>6, <2>9, <4>2
        <4>3. QED
          BY <4>1, <4>2
      <3>4. QED
        BY <3>1, <3>2, <3>3 DEF ToBeSent
    <2>11. \A m : WasSent(m)' <=> WasSent(m)
      BY <1>2 DEF WasSent
    <2>12. SentInv'
      BY <1>1, <1>2, <2>10, <2>11 DEF SentInv
    <2>13. QED
      BY <2>8, <2>12
  <1>7. QED
    BY <1>5, <1>6 DEF StoreRow

(* One more id is sent: the one that had to be. *)
LEMMA SendSent ==
    ASSUME SentInv, NEW S, sent \in Seq(S), NEW n \in S, sent' = Append(sent, n),
           failures' = 0 => failures = 0, ~ToBeSent(n),
           \A m : ToBeSent(m)' <=> ToBeSent(m) \/ m = n
    PROVE  SentInv'
  <1> SUFFICES ASSUME failures' = 0 PROVE IsInjective(sent') /\ \A m : WasSent(m)' <=> ToBeSent(m)'
    BY DEF SentInv
  <1>1. IsInjective(sent) /\ \A m : WasSent(m) <=> ToBeSent(m)
    BY DEF SentInv
  <1>2. n \notin Range(sent)
    BY <1>1 DEF WasSent
  <1>3. IsInjective(sent') /\ Range(sent') = Range(sent) \cup {n}
    BY <1>1, <1>2, SentGrows
  <1>4. QED
    BY <1>1, <1>3 DEF WasSent

(* The sinks get the output: it is no longer due. *)
LEMMA DeliverSent == ASSUME SafeInv, NEW t \in Threads, _deliver(t) PROVE OwnInv' /\ SentInv'
  <1>1. TypeInv /\ OwnInv /\ SentInv /\ NameInv
    BY DEF SafeInv
  <1> DEFINE i == Head(th[t].lines)
             n == th[t].ref
  <1>2. /\ th[t].pc = "deliver" /\ Become(t, Idle)
        /\ UNCHANGED <<rows, nextRef, failures>>
        /\ sent' = IF Outcome[i] = "output" THEN Append(sent, n) ELSE sent
    BY DEF _deliver
  <1>3. \A m : ~Early(th[t], m)
    BY <1>1, <1>2, NoPending
  <1>4. CASE Outcome[i] # "output"
    <2>1. \A m : ~Due(th[t], m)
      BY <1>4 DEF Due
    <2>2. QED
      BY <1>1, <1>2, <1>3, <1>4, <2>1, IdleHolds, TypeFacts, EmptyHanded
  <1>5. CASE Outcome[i] = "output"
    <2>1. Holds(th[t], n) /\ n \in 1 .. nextRef
      BY <1>1, <1>2 DEF Holds, OwnInv
    <2>2. \A m : Due(th[t], m) <=> m = n
      BY <1>2, <1>5 DEF Due
    <2>3. OutRow(rows, n)
      <3>1. InRows(rows, i, n)
        BY <1>1, <1>2 DEF NameInv, NamesOf
      <3>2. QED
        BY <1>5, <3>1 DEF InRows, OutRow
    <2> HIDE DEF i, n
    <2>4. /\ th'[t] = Idle /\ \A u \in Threads : u # t => th'[u] = th[u]
      BY <1>1, <1>2, BecomeFacts
    <2>5. \A u \in Threads : u # t => ~Due(th[u], n) /\ ~Early(th[u], n)
      BY <1>1, <2>1, HoldsWhat DEF OwnInv
    <2>6. ~ToBeSent(n)
      BY <1>3, <2>2, <2>5 DEF ToBeSent
    <2>7. ASSUME NEW m PROVE ToBeSent(m)' <=> ToBeSent(m) \/ m = n
      <3>1. ToBeSent(m)' <=> \/ OutRow(rows, m) /\ \A u \in Threads : ~Due(th'[u], m)
                             \/ \E u \in Threads : Early(th'[u], m)
        BY <1>2 DEF ToBeSent
      <3>2. (\E u \in Threads : Early(th'[u], m)) <=> \E u \in Threads : Early(th[u], m)
        BY <1>3, <2>4, IdleHolds
      <3>3. CASE m = n
        <4>1. \A u \in Threads : ~Due(th'[u], m)
          BY <2>4, <2>5, <3>3, IdleHolds
        <4>2. QED
          BY <2>3, <3>1, <3>3, <4>1
      <3>4. CASE m # n
        <4>1. (\A u \in Threads : ~Due(th'[u], m)) <=> \A u \in Threads : ~Due(th[u], m)
          BY <2>2, <2>4, <3>4, IdleHolds
        <4>2. QED
          BY <3>1, <3>2, <3>4, <4>1 DEF ToBeSent
      <3>5. QED
        BY <3>3, <3>4
    <2>8. SentInv'
      BY <1>1, <1>2, <1>5, <2>1, <2>6, <2>7, TypeFacts, SendSent
    <2>9. nextRef' \in Nat /\ nextRef <= nextRef' /\ Idle.pc # "insert"
      BY <1>1, <1>2, TypeFacts, IdleFacts
    <2>10. OwnInv'
      BY <1>1, <1>2, <2>9, IdleHolds, MoveKeepsOwn
    <2>11. QED
      BY <2>8, <2>10
  <1>6. QED
    BY <1>4, <1>5

(* A new line: its output is sent before its row is stored. *)
LEMMA LineSent == ASSUME SafeInv, NEW t \in Threads, StoreLine(t) PROVE OwnInv' /\ SentInv'
  <1>1. TypeInv /\ OwnInv /\ SentInv
    BY DEF SafeInv
  <1> DEFINE i == Head(th[t].lines)
             n == nextRef + 1
             seq == Numbered(Source[i], th[t].seq)
             row == NewRow(i, seq, n)
             a == [item |-> i, ref |-> n]
             f == [th[t].first EXCEPT ![i] = n]
             pend == Append(th[t].pending, row)
             q == [th[t] EXCEPT !.seq = seq]
             r == [th[t] EXCEPT !.seq = seq, !.first[i] = n, !.pending = Append(@, row),
                                !.answers = @ \cup {a}]
             e == [th[t] EXCEPT !.seq = seq, !.first = f, !.pending = pend,
                                !.answers = th[t].answers \cup {a}]
  <1>2. /\ th[t].pc = "lines" /\ th[t].lines # <<>> /\ nextRef' = n
        /\ UNCHANGED <<rows, failures>>
    BY DEF StoreLine
  <1>3. \/ Become(t, AfterLine(q)) /\ UNCHANGED sent
        \/ /\ Become(t, AfterLine(r))
           /\ sent' = IF Outcome[i] = "output" THEN Append(sent, n) ELSE sent
    BY DEF StoreLine
  <1>4. i \in Items /\ seq \in Nat /\ n \in Nat /\ nextRef \in Nat
    BY <1>1, <1>2, ThreadFacts, TypeFacts, NumberedType
  <1>5. row \in EventRow /\ row.item = i /\ row.ref = n /\ a \in Reply
    BY <1>4, RowType DEF Reply
  <1>6. /\ pend \in Seq(EventRow) /\ Len(pend) = Len(th[t].pending) + 1
        /\ \A k \in 1 .. Len(th[t].pending) : pend[k] = th[t].pending[k]
        /\ pend[Len(th[t].pending) + 1] = row /\ Len(th[t].pending) \in Nat
    BY <1>1, <1>5, ThreadFacts, AppendProperties
  <1>7. r = e /\ f \in [Items -> Nat]
    BY <1>1, <1>4, ThreadFacts
  <1> HIDE DEF i, n, seq, row, a, f, pend, r
  <1>8. nextRef' \in Nat /\ nextRef <= nextRef' /\ n = nextRef + 1 /\ n \in 1 .. nextRef'
    BY <1>2, <1>4 DEF n
  <1>9. Extends(rows, rows') /\ Len(rows') = Len(rows)
    BY <1>1, <1>2, TypeFacts
  <1>10. CASE Become(t, AfterLine(q)) /\ UNCHANGED sent
    <2>1. q \in Thread(q.before) /\ q.lines # <<>> /\ q.pending = th[t].pending
      BY <1>1, <1>2, <1>4, ThreadFacts DEF Thread
    <2> HIDE DEF q
    <2>2. AfterLine(q).pc \notin {"insert", "deliver"} /\ AfterLine(q).pending = th[t].pending
      BY <2>1, AfterLineFacts
    <2>3. QED
      BY <1>1, <1>2, <1>8, <1>9, <1>10, <2>2, SameHand
  <1>11. CASE /\ Become(t, AfterLine(r))
              /\ sent' = IF Outcome[i] = "output" THEN Append(sent, n) ELSE sent
    <2>1. e \in Thread(e.before) /\ e.lines # <<>> /\ e.pending = pend
      BY <1>1, <1>2, <1>4, <1>5, <1>6, <1>7, ThreadFacts DEF Thread
    <2> DEFINE w == AfterLine(e)
    <2> HIDE DEF e
    <2>2. w.pc \in {"lines", "checkpoint"} /\ w.pending = pend
      BY <2>1, AfterLineFacts
    <2>3. Become(t, w)
      BY <1>7, <1>11
    <2> HIDE DEF w
    <2>4. \A m : /\ Holds(w, m) <=> Holds(th[t], m) \/ m = n
                 /\ ~Due(w, m) /\ ~Due(th[t], m)
                 /\ Early(w, m) <=> Early(th[t], m) \/ (m = n /\ Outcome[i] = "output")
      <3> DEFINE L == Len(th[t].pending)
      <3>1. \A k : k \in 1 .. Len(pend) <=> k \in 1 .. L \/ k = L + 1
        BY <1>6
      <3>2. \A m : (\E k \in 1 .. Len(pend) : pend[k].ref = m)
                    <=> (\E k \in 1 .. L : th[t].pending[k].ref = m) \/ m = n
        BY <1>5, <1>6, <3>1
      <3>3. \A m : Early(w, m) <=> Early(th[t], m) \/ (m = n /\ Outcome[i] = "output")
        BY <1>5, <1>6, <2>2, <3>1 DEF Early
      <3>4. \A m : Holds(w, m) <=> Holds(th[t], m) \/ m = n
        BY <1>2, <2>2, <3>2 DEF Holds
      <3>5. \A m : ~Due(w, m) /\ ~Due(th[t], m)
        BY <1>2, <2>2 DEF Due
      <3>6. QED
        BY <3>3, <3>4, <3>5
    <2>5. OwnInv'
      BY <1>1, <1>2, <1>8, <2>2, <2>3, <2>4, MoveKeepsOwn
    <2>6. CASE Outcome[i] # "output"
      <3>1. \A m : (Due(w, m) <=> Due(th[t], m)) /\ (Early(w, m) <=> Early(th[t], m))
        BY <2>4, <2>6
      <3>2. SentInv'
        BY <1>1, <1>2, <1>11, <2>3, <2>6, <3>1, SilentSent
      <3>3. QED
        BY <2>5, <3>2
    <2>7. CASE Outcome[i] = "output"
      <3>1. /\ th'[t] = w /\ \A u \in Threads : u # t => th'[u] = th[u]
        BY <1>1, <2>3, BecomeFacts
      <3>2. ~ToBeSent(n)
        <4>1. n \notin 1 .. nextRef
          BY <1>4, <1>8
        <4>2. ~HasRow(rows, n) /\ \A u \in Threads : ~Early(th[u], n)
          BY <1>1, <4>1, HoldsWhat DEF OwnInv
        <4>3. QED
          BY <4>2 DEF ToBeSent, HasRow, OutRow
      <3>3. ASSUME NEW m PROVE ToBeSent(m)' <=> ToBeSent(m) \/ m = n
        <4>1. ToBeSent(m)' <=> \/ OutRow(rows, m) /\ \A u \in Threads : ~Due(th'[u], m)
                               \/ \E u \in Threads : Early(th'[u], m)
          BY <1>2 DEF ToBeSent
        <4>2. (\A u \in Threads : ~Due(th'[u], m)) <=> \A u \in Threads : ~Due(th[u], m)
          BY <2>4, <3>1
        <4>3. (\E u \in Threads : Early(th'[u], m)) <=> (\E u \in Threads : Early(th[u], m)) \/ m = n
          BY <2>4, <2>7, <3>1
        <4>4. QED
          BY <4>1, <4>2, <4>3 DEF ToBeSent
      <3>4. sent \in Seq(1 .. nextRef')
        <4>1. sent \in Seq(1 .. nextRef) /\ 1 .. nextRef \subseteq 1 .. nextRef'
          BY <1>1, <1>4, <1>8, TypeFacts
        <4>2. QED
          BY <4>1, SeqMonotonic
      <3>5. SentInv'
        BY <1>1, <1>2, <1>8, <1>11, <2>7, <3>2, <3>3, <3>4, SendSent
      <3>6. QED
        BY <2>5, <3>5
    <2>8. QED
      BY <2>6, <2>7
  <1>12. QED
    BY <1>3, <1>10, <1>11

(* What waited is stored: what was early no longer is. *)
LEMMA CommitSent ==
    ASSUME SafeInv, NEW t \in Threads, NEW r, Become(t, r),
           th[t].pc \in {"lines", "checkpoint"},
           r.pc \in {"lines", "idle"}, r.pending = <<>>,
           rows' = rows \o th[t].pending, UNCHANGED <<nextRef, sent, failures>>
    PROVE  OwnInv' /\ SentInv'
  <1>1. TypeInv /\ OwnInv /\ SentInv
    BY DEF SafeInv
  <1>2. /\ Len(rows') = Len(rows) + Len(th[t].pending)
        /\ \A d \in 1 .. Len(rows) : rows'[d] = rows[d]
        /\ \A k \in 1 .. Len(th[t].pending) : rows'[Len(rows) + k] = th[t].pending[k]
        /\ Len(rows) \in Nat /\ Len(th[t].pending) \in Nat
    BY <1>1, TypeFacts, ThreadFacts, ExtendsConcat
  <1>3. \A d \in 1 .. Len(rows') :
          \/ d \in 1 .. Len(rows)
          \/ \E k \in 1 .. Len(th[t].pending) : d = Len(rows) + k
    <2> SUFFICES ASSUME NEW d \in 1 .. Len(rows'), d \notin 1 .. Len(rows)
                 PROVE  \E k \in 1 .. Len(th[t].pending) : d = Len(rows) + k
      OBVIOUS
    <2>1. d - Len(rows) \in 1 .. Len(th[t].pending) /\ d = Len(rows) + (d - Len(rows))
      BY <1>2
    <2>2. QED
      BY <2>1
  <1>4. \A k \in 1 .. Len(th[t].pending) : Len(rows) + k \in 1 .. Len(rows')
    BY <1>2
  <1>5. \A d \in 1 .. Len(rows) : d \in 1 .. Len(rows')
    BY <1>2
  <1>6. \A m : OutRow(rows', m) <=> OutRow(rows, m) \/ Early(th[t], m)
    <2> SUFFICES ASSUME NEW m PROVE OutRow(rows', m) <=> OutRow(rows, m) \/ Early(th[t], m)
      OBVIOUS
    <2>1. ASSUME OutRow(rows, m) PROVE OutRow(rows', m)
      <3>1. PICK d \in 1 .. Len(rows) : rows[d].ref = m /\ Outcome[rows[d].item] = "output"
        BY <2>1 DEF OutRow
      <3>2. d \in 1 .. Len(rows') /\ rows'[d] = rows[d]
        BY <1>2, <1>5
      <3>3. QED
        BY <3>1, <3>2 DEF OutRow
    <2>2. ASSUME Early(th[t], m) PROVE OutRow(rows', m)
      <3>1. PICK k \in 1 .. Len(th[t].pending) :
              th[t].pending[k].ref = m /\ Outcome[th[t].pending[k].item] = "output"
        BY <2>2 DEF Early
      <3>2. Len(rows) + k \in 1 .. Len(rows') /\ rows'[Len(rows) + k] = th[t].pending[k]
        BY <1>2, <1>4
      <3>3. QED
        BY <3>1, <3>2 DEF OutRow
    <2>3. ASSUME OutRow(rows', m) PROVE OutRow(rows, m) \/ Early(th[t], m)
      <3>1. PICK d \in 1 .. Len(rows') : rows'[d].ref = m /\ Outcome[rows'[d].item] = "output"
        BY <2>3 DEF OutRow
      <3>2. CASE d \in 1 .. Len(rows)
        BY <1>2, <3>1, <3>2 DEF OutRow
      <3>3. CASE \E k \in 1 .. Len(th[t].pending) : d = Len(rows) + k
        BY <1>2, <3>1, <3>3 DEF Early
      <3>4. QED
        BY <1>3, <3>2, <3>3
    <2>4. QED
      BY <2>1, <2>2, <2>3
  <1>7. \A m : HasRow(rows', m) => HasRow(rows, m) \/ Holds(th[t], m)
    <2> SUFFICES ASSUME NEW m, HasRow(rows', m) PROVE HasRow(rows, m) \/ Holds(th[t], m)
      OBVIOUS
    <2>1. PICK d \in 1 .. Len(rows') : rows'[d].ref = m
      BY DEF HasRow
    <2>2. CASE d \in 1 .. Len(rows)
      BY <1>2, <2>1, <2>2 DEF HasRow
    <2>3. CASE \E k \in 1 .. Len(th[t].pending) : d = Len(rows) + k
      BY <1>2, <2>1, <2>3 DEF Holds
    <2>4. QED
      BY <1>3, <2>2, <2>3
  <1>8. \A m : ~Holds(r, m) /\ ~Due(r, m) /\ ~Early(r, m) /\ ~Due(th[t], m)
    <2>1. Len(<<>>) = 0
      OBVIOUS
    <2>2. QED
      BY <2>1 DEF Holds, Due, Early
  <1>9. nextRef' \in Nat /\ nextRef <= nextRef'
    BY <1>1, TypeFacts
  <1>10. OwnInv'
    BY <1>1, <1>7, <1>8, <1>9, MoveKeepsOwn
  <1>11. /\ th'[t] = r /\ \A u \in Threads : u # t => th'[u] = th[u]
    BY <1>1, BecomeFacts
  <1>12. ASSUME NEW m PROVE ToBeSent(m)' <=> ToBeSent(m)
    <2>1. ToBeSent(m)' <=> \/ OutRow(rows', m) /\ \A u \in Threads : ~Due(th'[u], m)
                           \/ \E u \in Threads : Early(th'[u], m)
      BY DEF ToBeSent
    <2>2. (\A u \in Threads : ~Due(th'[u], m)) <=> \A u \in Threads : ~Due(th[u], m)
      BY <1>8, <1>11
    <2>3. CASE Early(th[t], m)
      <3>1. \A u \in Threads : ~Due(th[u], m)
        <4> SUFFICES ASSUME NEW u \in Threads, Due(th[u], m) PROVE FALSE
          OBVIOUS
        <4>1. u = t
          BY <1>1, <2>3, HoldsWhat DEF OwnInv
        <4>2. QED
          BY <1>8, <4>1
      <3>2. QED
        BY <1>6, <2>1, <2>2, <2>3, <3>1 DEF ToBeSent
    <2>4. CASE ~Early(th[t], m)
      <3>1. (\E u \in Threads : Early(th'[u], m)) <=> \E u \in Threads : Early(th[u], m)
        BY <1>8, <1>11, <2>4
      <3>2. QED
        BY <1>6, <2>1, <2>2, <2>4, <3>1 DEF ToBeSent
    <2>5. QED
      BY <2>3, <2>4
  <1>13. \A m : WasSent(m)' <=> WasSent(m)
    BY DEF WasSent
  <1>14. SentInv'
    BY <1>1, <1>12, <1>13 DEF SentInv
  <1>15. QED
    BY <1>10, <1>14

LEMMA CheckpointSent ==
    ASSUME SafeInv, NEW t \in Threads, checkpoint(t) \/ FinishBatch(t) PROVE OwnInv' /\ SentInv'
  <1> DEFINE r == [th[t] EXCEPT !.pc = "lines", !.pending = <<>>]
  <1>1. /\ th[t].pc \in {"lines", "checkpoint"} /\ rows' = rows \o th[t].pending
        /\ Become(t, r) \/ Become(t, Idle)
        /\ UNCHANGED <<nextRef, sent, failures>>
    BY DEF checkpoint, FinishBatch
  <1>2. r.pc = "lines" /\ r.pending = <<>>
    BY ThreadFacts DEF Thread, SafeInv
  <1> HIDE DEF r
  <1>3. Idle.pc = "idle" /\ Idle.pending = <<>>
    BY IdleFacts
  <1>4. CASE Become(t, r)
    BY <1>1, <1>2, <1>4, CommitSent
  <1>5. CASE Become(t, Idle)
    BY <1>1, <1>3, <1>5, CommitSent
  <1>6. QED
    BY <1>1, <1>4, <1>5

LEMMA ReplaySent == ASSUME SafeInv, NEW t \in Threads, ReplayLine(t) PROVE OwnInv' /\ SentInv'
  <1>1. TypeInv /\ OwnInv /\ SentInv
    BY DEF SafeInv
  <1> DEFINE i == Head(th[t].lines)
  <1>2. /\ th[t].pc = "lines" /\ th[t].lines # <<>> /\ i \in Items
        /\ UNCHANGED <<rows, nextRef, sent, failures>>
    BY <1>1, ThreadFacts DEF ReplayLine
  <1>3. PICK ref \in ReplayOf(t, i) :
          Become(t, AfterLine([th[t] EXCEPT !.answers = @ \cup {[item |-> i, ref |-> ref]}]))
    BY DEF ReplayLine
  <1> DEFINE a == [item |-> i, ref |-> ref]
             q == [th[t] EXCEPT !.answers = @ \cup {a}]
  <1>4. a \in Reply
    BY <1>1, <1>2, <1>3, ReplayType
  <1>5. q \in Thread(q.before) /\ q.lines # <<>> /\ q.pending = th[t].pending
    BY <1>1, <1>2, <1>4, ThreadFacts DEF Thread
  <1>6. Become(t, AfterLine(q))
    BY <1>3
  <1> HIDE DEF q
  <1>7. AfterLine(q).pc \notin {"insert", "deliver"} /\ AfterLine(q).pending = th[t].pending
    BY <1>5, AfterLineFacts
  <1>8. nextRef' \in Nat /\ nextRef <= nextRef' /\ Extends(rows, rows') /\ Len(rows') = Len(rows)
    BY <1>1, <1>2, TypeFacts
  <1>9. QED
    BY <1>1, <1>2, <1>6, <1>7, <1>8, SameHand

(* The steps that neither store nor send. *)
LEMMA OtherSent ==
    ASSUME SafeInv, NEW t \in Threads,
           prefetch_hashes(t) \/ ReadMaxSeq(t) \/ UnlinkRaw(t) \/ PurgeRows(t)
    PROVE  OwnInv' /\ SentInv'
  <1>1. TypeInv /\ OwnInv /\ SentInv
    BY DEF SafeInv
  <1> DEFINE Handless(r) == /\ Become(t, r) /\ r.pc \notin {"insert", "deliver"}
                            /\ r.pending = th[t].pending
  <1>2. \E r : Handless(r)
    <2>1. th[t] \in Thread(th[t].before)
      BY <1>1, ThreadFacts
    <2>2. ASSUME NEW K, Become(t, [th[t] EXCEPT !.pc = "maxSeq", !.known = K])
          PROVE  \E r : Handless(r)
      <3>1. Handless([th[t] EXCEPT !.pc = "maxSeq", !.known = K])
        BY <2>1, <2>2 DEF Thread
      <3>2. QED
        BY <3>1
    <2>3. ASSUME NEW n, Become(t, [th[t] EXCEPT !.pc = "lines", !.seq = n])
          PROVE  \E r : Handless(r)
      <3>1. Handless([th[t] EXCEPT !.pc = "lines", !.seq = n])
        BY <2>1, <2>3 DEF Thread
      <3>2. QED
        BY <3>1
    <2>4. ASSUME NEW D, NEW pc \in {"purge", "unlink"},
                 Become(t, [th[t] EXCEPT !.todo = D, !.pc = pc])
          PROVE  \E r : Handless(r)
      <3>1. Handless([th[t] EXCEPT !.todo = D, !.pc = pc])
        BY <2>1, <2>4 DEF Thread
      <3>2. QED
        BY <3>1
    <2>5. CASE PurgeRows(t)
      <3>1. Become(t, Idle) /\ th[t].pc = "purge"
        BY <2>5 DEF PurgeRows
      <3>2. th[t].pending = <<>>
        BY <1>1, <3>1, NoPending
      <3>3. Handless(Idle)
        BY <3>1, <3>2, IdleFacts
      <3>4. QED
        BY <3>3
    <2> HIDE DEF Handless
    <2>6. CASE prefetch_hashes(t)
      BY <2>2, <2>6 DEF prefetch_hashes
    <2>7. CASE ReadMaxSeq(t)
      BY <2>3, <2>7 DEF ReadMaxSeq
    <2>8. CASE UnlinkRaw(t)
      <3>1. PICK d \in th[t].todo :
              Become(t, [th[t] EXCEPT !.todo = @ \ {d},
                           !.pc = IF th[t].todo = {d} THEN "purge" ELSE "unlink"])
        BY <2>8 DEF UnlinkRaw
      <3> DEFINE pc == IF th[t].todo = {d} THEN "purge" ELSE "unlink"
      <3>2. pc \in {"purge", "unlink"} /\ Become(t, [th[t] EXCEPT !.todo = th[t].todo \ {d}, !.pc = pc])
        BY <3>1
      <3> HIDE DEF pc
      <3>3. QED
        BY <2>4, <3>2
    <2>9. QED
      BY <2>5, <2>6, <2>7, <2>8
  <1>3. Extends(rows, rows') /\ Len(rows') = Len(rows) /\ sent' = sent /\ nextRef' = nextRef
    <2>1. CASE PurgeRows(t)
      BY <1>1, <2>1, PurgeFacts
    <2>2. CASE ~PurgeRows(t)
      BY <1>1, <2>2, TypeFacts DEF prefetch_hashes, ReadMaxSeq, UnlinkRaw
    <2>3. QED
      BY <2>1, <2>2
  <1>4. failures' = 0 => failures = 0
    <2>1. failures' = failures \/ failures' = failures + 1
      BY <1>1 DEF prefetch_hashes, ReadMaxSeq, UnlinkRaw, PurgeRows
    <2>2. failures \in Nat
      BY <1>1, TypeFacts, BoundAssumption DEF BoundAssumption
    <2>3. QED
      BY <2>1, <2>2
  <1>5. th[t].pc \notin {"insert", "deliver"}
    BY DEF prefetch_hashes, ReadMaxSeq, UnlinkRaw, PurgeRows
  <1>6. nextRef' \in Nat /\ nextRef <= nextRef'
    BY <1>1, <1>3, TypeFacts
  <1>7. QED
    BY <1>1, <1>2, <1>3, <1>4, <1>5, <1>6, SameHand

(* A request that dies leaves its ids behind; what is sent is then open. *)
LEMMA FailSent == ASSUME SafeInv, NEW t \in Threads, Fail(t) PROVE OwnInv' /\ SentInv'
  <1>1. TypeInv /\ OwnInv /\ SentInv
    BY DEF SafeInv
  <1>2. Become(t, Idle) /\ rows' = rows /\ nextRef' = nextRef /\ failures' = failures + 1
    BY DEF Fail
  <1>3. nextRef' \in Nat /\ nextRef <= nextRef' /\ Idle.pc # "insert" /\ failures \in Nat
    BY <1>1, <1>2, TypeFacts, IdleFacts, BoundAssumption DEF BoundAssumption
  <1>4. OwnInv'
    BY <1>1, <1>2, <1>3, IdleHolds, MoveKeepsOwn
  <1>5. SentInv'
    BY <1>2, <1>3 DEF SentInv
  <1>6. QED
    BY <1>4, <1>5

LEMMA NextSent == SafeInv /\ [Next]_vars => OwnInv' /\ SentInv'
  <1> SUFFICES ASSUME SafeInv, [Next]_vars PROVE OwnInv' /\ SentInv'
    OBVIOUS
  <1>1. ASSUME NEW t \in Threads, Begin(t) PROVE OwnInv' /\ SentInv'
    BY <1>1, BeginSent
  <1>2. ASSUME NEW t \in Threads, Work(t) PROVE OwnInv' /\ SentInv'
    BY <1>2, FindSent, SaveSent, StoreSent, DeliverSent, ReplaySent, LineSent, CheckpointSent,
       OtherSent DEF Work
  <1>3. ASSUME NEW t \in Threads, Fail(t) PROVE OwnInv' /\ SentInv'
    BY <1>3, FailSent
  <1>4. CASE UNCHANGED vars
    <2>1. OwnInv /\ SentInv
      BY DEF SafeInv
    <2>2. OwnInv'
      BY <1>4, <2>1 DEF vars, OwnInv
    <2>3. SentInv'
      BY <1>4, <2>1 DEF vars, SentInv, WasSent, ToBeSent
    <2>4. QED
      BY <2>2, <2>3
  <1>5. QED
    BY <1>1, <1>2, <1>3, <1>4 DEF Next

LEMMA SentWhenQuiet == TypeInv /\ SentInv => SentAreStored
  <1> SUFFICES ASSUME TypeInv, SentInv, Quiet, failures = 0
               PROVE  /\ Range(sent) = {rows[d].ref : d \in {c \in RowIds : Outcome[rows[c].item] = "output"}}
                      /\ IsInjective(sent)
    BY DEF SentAreStored
  <1>1. ASSUME NEW t \in Threads, NEW n PROVE ~Due(th[t], n) /\ ~Early(th[t], n)
    <2>1. th[t].pc \in {"idle", "absent"}
      BY DEF Quiet
    <2>2. QED
      BY <2>1, NoPending DEF Due
  <1>2. \A n : n \in Range(sent) <=> OutRow(rows, n)
    BY <1>1 DEF SentInv, WasSent, ToBeSent
  <1>3. QED
    BY <1>2 DEF SentInv, OutRow, RowIds

(* When no request is half-way and none died there, the sinks have got the *)
(* stored outputs (_deliver, checkpoint): all of them, only them and none  *)
(* twice.                                                                  *)
THEOREM SentTheorem == Spec => []SentAreStored
  <1>1. Init => OwnInv /\ SentInv
    BY InitSent
  <1>2. TypeInv /\ NameInv /\ OwnInv /\ SentInv /\ [Next]_vars => OwnInv' /\ SentInv'
    BY NextSent DEF SafeInv
  <1>3. Init => NameInv
    BY InitNames
  <1>4. TypeInv /\ TypeInv' /\ NameInv /\ [Next]_vars => NameInv'
    BY NextNames
  <1>5. TypeInv /\ SentInv => SentAreStored
    BY SentWhenQuiet
  <1>6. QED
    BY <1>1, <1>2, <1>3, <1>4, <1>5, SpecTypes, PTL DEF Spec
-----------------------------------------------------------------------------
(* One request at a time *)

(* Two live rows of one source. *)
Compared(R, c, d) ==
    /\ R[c].live /\ R[d].live
    /\ Source[R[c].item] = Source[R[d].item] /\ Source[R[c].item] # NoSource

(* Event ids follow the order of storage, and so do the numbers of the     *)
(* live rows of a source.                                                  *)
Rising(R) ==
    \A c, d \in 1 .. Len(R) :
        c < d => /\ R[c].ref < R[d].ref
                 /\ Compared(R, c, d) => R[c].seq < R[d].seq

NumbersUpTo(R, src, n) ==
    \A d \in 1 .. Len(R) :
        R[d].live /\ Source[R[d].item] = src /\ src # NoSource => R[d].seq <= n

IdsUpTo(R, n) == \A d \in 1 .. Len(R) : R[d].ref <= n

BatchSteps == {"prefetch", "maxSeq", "lines", "checkpoint"}

(* What a request that works alone has read is still so when it stores its *)
(* row; the rows a batch keeps back continue the table.                    *)
Ordered(R, n, r) ==
    /\ r.pc = "insert" =>
          /\ IdsUpTo(R, r.ref - 1)
          /\ NumbersUpTo(R, Source[Head(r.lines)], r.seq - 1)
    /\ r.pc \in BatchSteps =>
          \A k \in 1 .. Len(r.lines) : Source[r.lines[k]] = Source[r.batch[1]]
    /\ r.pc \in {"lines", "checkpoint"} =>
          /\ Rising(R \o r.pending) /\ IdsUpTo(R \o r.pending, n)
          /\ NumbersUpTo(R \o r.pending, Source[r.batch[1]], r.seq)

(* The inductive invariant behind SequenceFollowsArrival. *)
OrderInv ==
    Alone => /\ Rising(rows) /\ IdsUpTo(rows, nextRef)
             /\ \A t \in Threads : Ordered(rows, nextRef, th[t])

(* The rows whose file this request has removed. *)
Unlinked(r) == r.purged \ r.todo

(* What a request has saved is there until it is stored; what it purges is *)
(* live until it commits.                                                  *)
Filed(R, F, r) ==
    /\ r.pc = "insert" => r.ref \in F
    /\ \A k \in 1 .. Len(r.pending) : r.pending[k].ref \in F
    /\ \A d \in r.purged : R[d].live
    /\ r.pc \notin {"unlink", "purge"} => r.purged = {}

HasFile(R, F, d) == R[d].live /\ R[d].raw => R[d].ref \in F

(* The inductive invariant behind RowsHaveRawFiles. *)
FileInv ==
    Alone /\ failures = 0 =>
        /\ \A d \in RowIds : HasFile(rows, files, d) \/ \E t \in Threads : d \in Unlinked(th[t])
        /\ \A t \in Threads : Filed(rows, files, th[t])

LEMMA AppendRises ==
    ASSUME NEW R \in Seq(EventRow), NEW row \in EventRow, NEW src, Source[row.item] = src,
           Rising(R), NumbersUpTo(R, src, row.seq - 1), IdsUpTo(R, row.ref - 1)
    PROVE  LET Q == Append(R, row)
           IN  Rising(Q) /\ NumbersUpTo(Q, src, row.seq) /\ IdsUpTo(Q, row.ref)
  <1> DEFINE Q == Append(R, row)
             n == Len(R)
  <1>1. /\ n \in Nat /\ Len(Q) = n + 1 /\ Q[n + 1] = row
        /\ \A d \in 1 .. n : Q[d] = R[d] /\ R[d].seq \in Nat /\ R[d].ref \in Nat
        /\ row.seq \in Nat /\ row.ref \in Nat
    <2>1. \A d \in 1 .. Len(R) : R[d] \in EventRow
      OBVIOUS
    <2>2. QED
      BY <2>1, ExtendsAppend DEF EventRow
  <1> HIDE DEF Q, n
  <1>2. 1 .. Len(Q) = (1 .. n) \cup {n + 1}
    BY <1>1
  <1>3. \A d \in 1 .. n : R[d].ref <= row.ref - 1
    BY DEF IdsUpTo, n
  <1>4. \A d \in 1 .. n :
          R[d].live /\ Source[R[d].item] = src /\ src # NoSource => R[d].seq <= row.seq - 1
    BY DEF NumbersUpTo, n
  <1>5. \A c, d \in 1 .. n :
          c < d => /\ R[c].ref < R[d].ref
                   /\ Compared(R, c, d) => R[c].seq < R[d].seq
    BY DEF Rising, n
  <1>6. IdsUpTo(Q, row.ref)
    BY <1>1, <1>2, <1>3 DEF IdsUpTo
  <1>7. NumbersUpTo(Q, src, row.seq)
    BY <1>1, <1>2, <1>4 DEF NumbersUpTo
  <1>8. Rising(Q)
    <2> SUFFICES ASSUME NEW c \in 1 .. Len(Q), NEW d \in 1 .. Len(Q), c < d
                 PROVE  /\ Q[c].ref < Q[d].ref
                        /\ Compared(Q, c, d) => Q[c].seq < Q[d].seq
      BY DEF Rising
    <2>1. c \in 1 .. n /\ Q[c] = R[c]
      BY <1>1, <1>2
    <2>2. CASE d = n + 1
      BY <1>1, <1>3, <1>4, <2>1, <2>2 DEF Compared
    <2>3. CASE d \in 1 .. n
      BY <1>1, <1>5, <2>1, <2>3 DEF Compared
    <2>4. QED
      BY <1>2, <2>2, <2>3
  <1>9. QED
    BY <1>6, <1>7, <1>8 DEF Q

LEMMA ConcatAppend ==
    ASSUME NEW R \in Seq(EventRow), NEW Q \in Seq(EventRow), NEW row \in EventRow
    PROVE  R \o Append(Q, row) = Append(R \o Q, row)
  <1> DEFINE P == Append(Q, row)
             A == R \o P
             C == R \o Q
             B == Append(C, row)
             m == Len(R)
             l == Len(Q)
  <1>1. /\ P \in Seq(EventRow) /\ Len(P) = l + 1
        /\ \A k \in 1 .. l : P[k] = Q[k]
        /\ P[l + 1] = row
    BY AppendProperties
  <1>2. /\ C \in Seq(EventRow) /\ Len(C) = m + l
        /\ \A k \in 1 .. m : C[k] = R[k]
        /\ \A k \in 1 .. l : C[m + k] = Q[k]
    BY ExtendsConcat DEF Extends
  <1> HIDE DEF P, C
  <1>3. /\ A \in Seq(EventRow) /\ Len(A) = m + Len(P)
        /\ \A k \in 1 .. m : A[k] = R[k]
        /\ \A k \in 1 .. Len(P) : A[m + k] = P[k]
    BY <1>1, ExtendsConcat DEF Extends
  <1>4. /\ B \in Seq(EventRow) /\ Len(B) = Len(C) + 1 /\ B[Len(C) + 1] = row
        /\ \A k \in 1 .. Len(C) : B[k] = C[k]
    BY <1>2, AppendProperties
  <1>5. m \in Nat /\ l \in Nat
    OBVIOUS
  <1> HIDE DEF A, B, m, l
  <1>6. Len(A) = m + l + 1 /\ Len(B) = m + l + 1
    BY <1>1, <1>2, <1>3, <1>4, <1>5
  <1>7. ASSUME NEW k \in 1 .. Len(A) PROVE A[k] = B[k]
    <2>1. CASE k \in 1 .. m
      <3>1. k \in 1 .. Len(C)
        BY <1>2, <1>5, <2>1
      <3>2. QED
        BY <1>2, <1>3, <1>4, <2>1, <3>1
    <2>2. CASE k \notin 1 .. m
      <3> DEFINE h == k - m
      <3>1. h \in 1 .. l + 1 /\ k = m + h
        BY <1>5, <1>6, <2>2
      <3> HIDE DEF h
      <3>2. A[k] = P[h]
        BY <1>1, <1>3, <3>1
      <3>3. CASE h \in 1 .. l
        <4>1. k \in 1 .. Len(C) /\ C[k] = Q[h] /\ P[h] = Q[h]
          BY <1>1, <1>2, <1>5, <3>1, <3>3
        <4>2. QED
          BY <1>4, <3>2, <4>1
      <3>4. CASE h = l + 1
        BY <1>1, <1>2, <1>4, <1>5, <3>1, <3>2, <3>4
      <3>5. QED
        BY <1>5, <3>1, <3>3, <3>4
    <2>3. QED
      BY <2>1, <2>2
  <1>8. A = B
    BY <1>3, <1>4, <1>6, <1>7, SeqEqual
  <1>9. QED
    BY <1>8 DEF A, B, P, C

LEMMA EmptyTail == ASSUME NEW R \in Seq(EventRow) PROVE R \o <<>> = R
  OBVIOUS

LEMMA SourceBound ==
    ASSUME TypeInv, NEW src PROVE NumbersUpTo(rows, src, _max_source_seq(src))
  BY MaxSeqType DEF TypeInv, NumbersUpTo, Live, RowIds

(* The other slots serve nobody. *)
LEMMA SoloFacts ==
    ASSUME TypeInv, Alone', NEW t \in Threads, NEW r, Become(t, r),
           th[t].pc # "absent", r.pc # "absent"
    PROVE  /\ Alone /\ th'[t] = r
           /\ \A u \in Threads : u # t => th[u].pc = "absent" /\ th'[u] = th[u]
  <1>1. /\ th'[t] = r /\ \A u \in Threads : u # t => th'[u] = th[u]
    BY BecomeFacts
  <1>2. \A u \in Threads : u # t => th'[u].pc = "absent"
    BY <1>1 DEF Alone
  <1>3. QED
    BY <1>1, <1>2 DEF Alone

LEMMA SimpleOrder ==
    ASSUME NEW R, NEW n, NEW r, r.pc \notin BatchSteps \cup {"insert"}
    PROVE  Ordered(R, n, r)
  BY DEF Ordered, BatchSteps

LEMMA MoveOrders ==
    ASSUME TypeInv, OrderInv, NEW t \in Threads, NEW r, Become(t, r),
           th[t].pc # "absent", r.pc # "absent",
           Alone => Rising(rows') /\ IdsUpTo(rows', nextRef') /\ Ordered(rows', nextRef', r)
    PROVE  OrderInv'
  <1> SUFFICES ASSUME Alone'
               PROVE  /\ Rising(rows') /\ IdsUpTo(rows', nextRef')
                      /\ \A u \in Threads : Ordered(rows', nextRef', th'[u])
    BY DEF OrderInv
  <1>1. /\ Alone /\ th'[t] = r
        /\ \A u \in Threads : u # t => th[u].pc = "absent" /\ th'[u] = th[u]
    BY SoloFacts
  <1>2. \A u \in Threads : u # t => Ordered(rows', nextRef', th'[u])
    BY <1>1, SimpleOrder DEF BatchSteps
  <1>3. QED
    BY <1>1, <1>2

(* A step that leaves the rows and reads nothing that must stay true. *)
LEMMA IdleOrders ==
    ASSUME TypeInv, OrderInv, NEW t \in Threads, NEW r, Become(t, r),
           th[t].pc # "absent", r.pc \notin BatchSteps \cup {"insert", "absent"},
           UNCHANGED <<rows, nextRef>>
    PROVE  OrderInv'
  <1>1. Ordered(rows', nextRef', r)
    BY SimpleOrder
  <1>2. Alone => Rising(rows') /\ IdsUpTo(rows', nextRef')
    BY DEF OrderInv
  <1>3. QED
    BY <1>1, <1>2, MoveOrders

LEMMA BeginOrders ==
    ASSUME TypeInv, OrderInv, NEW t \in Threads, Begin(t) PROVE OrderInv'
  <1>1. th[t].pc = "idle" /\ UNCHANGED <<rows, nextRef>>
    BY DEF Begin, process_payload, process_lines, delete_events, strip_raw, SelectRows
  <1>2. ASSUME NEW i \in Items, process_payload(t, i) PROVE OrderInv'
    <2> DEFINE r == [Idle EXCEPT !.pc = "find", !.op = "single", !.lines = <<i>>]
    <2>1. Become(t, r) /\ r.pc = "find"
      BY <1>2 DEF process_payload, Idle
    <2> HIDE DEF r
    <2>2. QED
      BY <1>1, <2>1, IdleOrders DEF BatchSteps
  <1>3. ASSUME NEW b \in Batches, process_lines(t, b) PROVE OrderInv'
    <2> DEFINE r == [Idle EXCEPT !.pc = "prefetch", !.op = "batch", !.lines = b,
                                 !.batch = b, !.before = LogOf(rows)]
    <2>1. Become(t, r) /\ r.pc = "prefetch" /\ r.lines = b /\ r.batch = b
      BY <1>3 DEF process_lines, Idle
    <2>2. \A k \in 1 .. Len(b) : Source[b[k]] = Source[b[1]]
      <3>1. b \in Seq(Items) /\ b # <<>> /\ \A i, j \in DOMAIN b : Source[b[i]] = Source[b[j]]
        BY BatchAssumption
      <3>2. DOMAIN b = 1 .. Len(b) /\ 1 \in DOMAIN b
        BY <3>1
      <3>3. QED
        BY <3>1, <3>2
    <2> HIDE DEF r
    <2>3. Ordered(rows', nextRef', r)
      BY <2>1, <2>2 DEF Ordered
    <2>4. QED
      BY <1>1, <2>1, <2>3, MoveOrders DEF OrderInv
  <1>4. ASSUME NEW D, NEW op, SelectRows(t, D, op) PROVE OrderInv'
    <2> DEFINE W == {d \in D : rows[d].raw}
               r == [Idle EXCEPT !.pc = IF W = {} THEN "purge" ELSE "unlink",
                                 !.op = op, !.todo = W, !.purged = D]
    <2>1. Become(t, r) /\ r.pc \in {"purge", "unlink"}
      BY <1>4 DEF SelectRows, Idle
    <2> HIDE DEF r
    <2>2. QED
      BY <1>1, <2>1, IdleOrders DEF BatchSteps
  <1>5. QED
    BY <1>2, <1>3, <1>4 DEF Begin, delete_events, strip_raw

LEMMA FindOrders ==
    ASSUME TypeInv, OrderInv, NEW t \in Threads, FindDuplicate(t) PROVE OrderInv'
  <1> DEFINE r == [th[t] EXCEPT !.pc = "save"]
  <1>1. th[t].pc = "find" /\ UNCHANGED <<rows, nextRef>> /\ (Become(t, r) \/ Become(t, Idle))
    BY DEF FindDuplicate
  <1>2. r.pc = "save" /\ Idle.pc = "idle"
    BY IdleFacts, ThreadFacts DEF Thread
  <1> HIDE DEF r
  <1>3. QED
    BY <1>1, <1>2, IdleOrders DEF BatchSteps

LEMMA SaveOrders ==
    ASSUME TypeInv, OrderInv, NEW t \in Threads, SaveRaw(t) PROVE OrderInv'
  <1> DEFINE n == nextRef + 1
             src == Source[Head(th[t].lines)]
             seq == Numbered(src, _max_source_seq(src))
             r == [th[t] EXCEPT !.pc = "insert", !.ref = n, !.seq = seq]
  <1>1. th[t].pc = "save" /\ nextRef' = n /\ rows' = rows /\ Become(t, r)
    BY DEF SaveRaw
  <1>2. r.pc = "insert" /\ r.ref = n /\ r.seq = seq /\ r.lines = th[t].lines
    BY ThreadFacts DEF Thread
  <1> HIDE DEF r
  <1>3. nextRef \in Nat /\ rows \in Seq(EventRow) /\ \A d \in 1 .. Len(rows) : rows[d].ref \in Nat
    BY TypeFacts DEF RowIds, EventRow
  <1>4. NumbersUpTo(rows, src, seq - 1)
    <2>1. src # NoSource => seq - 1 = _max_source_seq(src)
      BY MaxSeqType DEF TypeInv, Numbered
    <2>2. NumbersUpTo(rows, src, _max_source_seq(src))
      BY SourceBound
    <2> HIDE DEF seq, src
    <2>3. QED
      BY <2>1, <2>2 DEF NumbersUpTo
  <1>5. ASSUME Alone PROVE Rising(rows') /\ IdsUpTo(rows', nextRef') /\ Ordered(rows', nextRef', r)
    <2>1. Rising(rows) /\ IdsUpTo(rows, nextRef)
      BY <1>5 DEF OrderInv
    <2>2. IdsUpTo(rows, n) /\ IdsUpTo(rows, n - 1)
      BY <1>3, <2>1 DEF IdsUpTo
    <2>3. Ordered(rows, n, r)
      BY <1>2, <1>4, <2>2 DEF Ordered, BatchSteps
    <2>4. QED
      BY <1>1, <2>1, <2>2, <2>3
  <1>6. QED
    BY <1>1, <1>2, <1>5, MoveOrders

LEMMA StoreOrders ==
    ASSUME TypeInv, OrderInv, NEW t \in Threads, StoreRow(t) PROVE OrderInv'
  <1> DEFINE i == Head(th[t].lines)
             row == NewRow(i, th[t].seq, th[t].ref)
             r == [th[t] EXCEPT !.pc = "deliver"]
  <1>1. th[t].pc = "insert" /\ nextRef' = nextRef
    BY DEF StoreRow
  <1>2. CASE Become(t, Idle) /\ rows' = rows
    BY <1>1, <1>2, IdleFacts, IdleOrders DEF BatchSteps
  <1>3. CASE Become(t, r) /\ rows' = Append(rows, row)
    <2>1. r.pc = "deliver"
      BY ThreadFacts DEF Thread
    <2>2. /\ i \in Items /\ row \in EventRow /\ row.item = i /\ row.ref = th[t].ref
          /\ row.seq = th[t].seq /\ rows \in Seq(EventRow)
          /\ nextRef \in Nat /\ th[t].ref <= nextRef /\ th[t].ref \in Nat
      <3>1. th[t].lines # <<>>
        BY <1>1, ThreadFacts DEF StepShape
      <3>2. /\ i \in Items /\ th[t].seq \in Nat /\ th[t].ref \in 0 .. nextRef
            /\ rows \in Seq(EventRow) /\ nextRef \in Nat
        BY <3>1, ThreadFacts, TypeFacts
      <3>3. QED
        BY <3>2, RowType DEF NewRow
    <2> HIDE DEF r, row
    <2>3. ASSUME Alone
          PROVE  Rising(rows') /\ IdsUpTo(rows', nextRef') /\ Ordered(rows', nextRef', r)
      <3>1. Rising(rows) /\ Ordered(rows, nextRef, th[t])
        BY <2>3 DEF OrderInv
      <3>2. IdsUpTo(rows, row.ref - 1) /\ NumbersUpTo(rows, Source[i], row.seq - 1)
        BY <1>1, <2>2, <3>1 DEF Ordered
      <3> HIDE DEF i
      <3>3. Rising(rows') /\ IdsUpTo(rows', row.ref)
        BY <1>3, <2>2, <3>1, <3>2, AppendRises
      <3>4. rows' \in Seq(EventRow)
        BY <1>3, <2>2, ExtendsAppend DEF Extends
      <3>5. IdsUpTo(rows', nextRef')
        <4>1. \A d \in 1 .. Len(rows') : rows'[d].ref \in Nat
          <5>1. \A d \in 1 .. Len(rows') : rows'[d] \in EventRow
            BY <3>4
          <5>2. QED
            BY <5>1 DEF EventRow
        <4>2. QED
          BY <1>1, <2>2, <3>3, <4>1 DEF IdsUpTo
      <3>6. Ordered(rows', nextRef', r)
        BY <2>1, SimpleOrder DEF BatchSteps
      <3>7. QED
        BY <3>3, <3>5, <3>6
    <2>4. QED
      BY <1>1, <1>3, <2>1, <2>3, MoveOrders
  <1>4. QED
    BY <1>2, <1>3 DEF StoreRow

LEMMA DeliverOrders ==
    ASSUME TypeInv, OrderInv, NEW t \in Threads, _deliver(t) PROVE OrderInv'
  <1>1. th[t].pc = "deliver" /\ Become(t, Idle) /\ UNCHANGED <<rows, nextRef>>
    BY DEF _deliver
  <1>2. QED
    BY <1>1, IdleFacts, IdleOrders DEF BatchSteps

LEMMA PrefetchOrders ==
    ASSUME TypeInv, OrderInv, NEW t \in Threads, prefetch_hashes(t) PROVE OrderInv'
  <1> DEFINE r == [th[t] EXCEPT !.pc = "maxSeq",
                     !.known = {i \in Range(th[t].lines) : _find_duplicate(i) # {}}]
  <1>1. th[t].pc = "prefetch" /\ Become(t, r) /\ UNCHANGED <<rows, nextRef>>
    BY DEF prefetch_hashes
  <1>2. r.pc = "maxSeq" /\ r.lines = th[t].lines /\ r.batch = th[t].batch
    BY ThreadFacts DEF Thread
  <1> HIDE DEF r
  <1>3. ASSUME Alone PROVE Rising(rows') /\ IdsUpTo(rows', nextRef') /\ Ordered(rows', nextRef', r)
    <2>1. Rising(rows) /\ IdsUpTo(rows, nextRef) /\ Ordered(rows, nextRef, th[t])
      BY <1>3 DEF OrderInv
    <2>2. QED
      BY <1>1, <1>2, <2>1 DEF Ordered, BatchSteps
  <1>4. QED
    BY <1>1, <1>2, <1>3, MoveOrders

LEMMA ReadOrders ==
    ASSUME TypeInv, OrderInv, NEW t \in Threads, ReadMaxSeq(t) PROVE OrderInv'
  <1> DEFINE src == Source[Head(th[t].lines)]
             n == _max_source_seq(src)
             r == [th[t] EXCEPT !.pc = "lines", !.seq = n]
  <1>1. th[t].pc = "maxSeq" /\ Become(t, r) /\ UNCHANGED <<rows, nextRef>>
    BY DEF ReadMaxSeq
  <1>2. /\ r.pc = "lines" /\ r.seq = n /\ r.lines = th[t].lines /\ r.batch = th[t].batch
        /\ r.pending = <<>>
    BY <1>1, ThreadFacts DEF Thread, StepShape
  <1>3. Head(th[t].lines) = th[t].lines[1] /\ 1 \in 1 .. Len(th[t].lines)
    <2>1. th[t].lines \in Seq(Items) /\ th[t].lines # <<>>
      BY <1>1, ThreadFacts DEF StepShape
    <2>2. QED
      BY <2>1
  <1>4. NumbersUpTo(rows, src, n)
    BY SourceBound
  <1> HIDE DEF n, r
  <1>5. rows \o r.pending = rows
    BY <1>2, TypeFacts, EmptyTail
  <1>6. ASSUME Alone PROVE Rising(rows') /\ IdsUpTo(rows', nextRef') /\ Ordered(rows', nextRef', r)
    <2>1. Rising(rows) /\ IdsUpTo(rows, nextRef) /\ Ordered(rows, nextRef, th[t])
      BY <1>6 DEF OrderInv
    <2>2. \A k \in 1 .. Len(th[t].lines) : Source[th[t].lines[k]] = Source[th[t].batch[1]]
      BY <1>1, <2>1 DEF Ordered, BatchSteps
    <2>3. src = Source[th[t].batch[1]]
      BY <1>3, <2>2
    <2>4. QED
      BY <1>1, <1>2, <1>4, <1>5, <2>1, <2>2, <2>3 DEF Ordered, BatchSteps
  <1>7. QED
    BY <1>1, <1>2, <1>6, MoveOrders

LEMMA AfterLineKeeps ==
    ASSUME NEW r, r \in Thread(r.before), r.lines # <<>>
    PROVE  /\ AfterLine(r).seq = r.seq /\ AfterLine(r).batch = r.batch
           /\ AfterLine(r).lines = Tail(r.lines)
  BY DEF AfterLine, Thread

(* The line at hand is of the batch's source, and so are those after it. *)
LEMMA BatchLines ==
    ASSUME TypeInv, NEW t \in Threads, th[t].pc = "lines", th[t].lines # <<>>,
           Ordered(rows, nextRef, th[t])
    PROVE  /\ Source[Head(th[t].lines)] = Source[th[t].batch[1]]
           /\ \A k \in 1 .. Len(Tail(th[t].lines)) : Source[Tail(th[t].lines)[k]] = Source[th[t].batch[1]]
           /\ Rising(rows \o th[t].pending) /\ IdsUpTo(rows \o th[t].pending, nextRef)
           /\ NumbersUpTo(rows \o th[t].pending, Source[th[t].batch[1]], th[t].seq)
  <1>1. /\ \A k \in 1 .. Len(th[t].lines) : Source[th[t].lines[k]] = Source[th[t].batch[1]]
        /\ Rising(rows \o th[t].pending) /\ IdsUpTo(rows \o th[t].pending, nextRef)
        /\ NumbersUpTo(rows \o th[t].pending, Source[th[t].batch[1]], th[t].seq)
    BY DEF Ordered, BatchSteps
  <1>2. th[t].lines \in Seq(Items)
    BY ThreadFacts
  <1> DEFINE s == th[t].lines
  <1>3. Head(s) = s[1] /\ 1 \in 1 .. Len(s)
    BY <1>2
  <1>4. Len(Tail(s)) = Len(s) - 1 /\ \A k \in 1 .. Len(s) - 1 : Tail(s)[k] = s[k + 1]
    BY <1>2
  <1>5. Len(s) \in Nat
    BY <1>2
  <1> HIDE DEF s
  <1>6. \A k \in 1 .. Len(Tail(s)) : k + 1 \in 1 .. Len(s) /\ Tail(s)[k] = s[k + 1]
    BY <1>4, <1>5
  <1>7. QED
    BY <1>1, <1>3, <1>6 DEF s

(* After a line: what is stored and kept back, and the number reached. *)
LEMMA LineOrdered ==
    ASSUME TypeInv, NEW t \in Threads, th[t].pc = "lines", th[t].lines # <<>>,
           Ordered(rows, nextRef, th[t]),
           NEW r, r \in Thread(r.before), r.lines = th[t].lines, r.batch = th[t].batch, NEW n,
           Rising(rows \o r.pending), IdsUpTo(rows \o r.pending, n),
           NumbersUpTo(rows \o r.pending, Source[r.batch[1]], r.seq)
    PROVE  Ordered(rows, n, AfterLine(r)) /\ AfterLine(r).pc # "absent"
  <1> DEFINE q == AfterLine(r)
  <1>1. /\ q.pc \in {"lines", "checkpoint"} /\ q.pending = r.pending /\ q.seq = r.seq
        /\ q.batch = r.batch /\ q.lines = Tail(r.lines)
    BY AfterLineFacts, AfterLineKeeps
  <1> HIDE DEF q
  <1>2. \A k \in 1 .. Len(q.lines) : Source[q.lines[k]] = Source[q.batch[1]]
    BY <1>1, BatchLines
  <1>3. Ordered(rows, n, q) /\ q.pc # "absent"
    BY <1>1, <1>2 DEF Ordered
  <1>4. QED
    BY <1>3 DEF q

LEMMA ReplayOrders ==
    ASSUME TypeInv, OrderInv, NEW t \in Threads, ReplayLine(t) PROVE OrderInv'
  <1> DEFINE i == Head(th[t].lines)
  <1>1. th[t].pc = "lines" /\ th[t].lines # <<>> /\ UNCHANGED <<rows, nextRef>>
    BY DEF ReplayLine
  <1>2. PICK ref \in ReplayOf(t, i) :
          Become(t, AfterLine([th[t] EXCEPT !.answers = @ \cup {[item |-> i, ref |-> ref]}]))
    BY DEF ReplayLine
  <1> DEFINE r == [th[t] EXCEPT !.answers = @ \cup {[item |-> i, ref |-> ref]}]
  <1>3. i \in Items /\ [item |-> i, ref |-> ref] \in Reply
    BY <1>1, ThreadFacts, ReplayType
  <1>4. /\ r \in Thread(r.before) /\ r.lines = th[t].lines /\ r.batch = th[t].batch
        /\ r.pending = th[t].pending /\ r.seq = th[t].seq
    BY <1>3, ThreadFacts DEF Thread
  <1>5. Become(t, AfterLine(r))
    BY <1>2
  <1> HIDE DEF r
  <1>6. AfterLine(r).pc # "absent"
    BY <1>1, <1>4, AfterLineFacts
  <1>7. ASSUME Alone
        PROVE  Rising(rows') /\ IdsUpTo(rows', nextRef') /\ Ordered(rows', nextRef', AfterLine(r))
    <2>1. Rising(rows) /\ IdsUpTo(rows, nextRef) /\ Ordered(rows, nextRef, th[t])
      BY <1>7 DEF OrderInv
    <2>2. /\ Rising(rows \o r.pending) /\ IdsUpTo(rows \o r.pending, nextRef)
          /\ NumbersUpTo(rows \o r.pending, Source[r.batch[1]], r.seq)
      BY <1>1, <1>4, <2>1, BatchLines
    <2>3. Ordered(rows, nextRef, AfterLine(r))
      BY <1>1, <1>4, <2>1, <2>2, LineOrdered
    <2>4. QED
      BY <1>1, <2>1, <2>3
  <1>8. QED
    BY <1>1, <1>5, <1>6, <1>7, MoveOrders

LEMMA LineOrders ==
    ASSUME TypeInv, OrderInv, NEW t \in Threads, StoreLine(t) PROVE OrderInv'
  <1> DEFINE i == Head(th[t].lines)
             n == nextRef + 1
             seq == Numbered(Source[i], th[t].seq)
             row == NewRow(i, seq, n)
             a == [item |-> i, ref |-> n]
             q == [th[t] EXCEPT !.seq = seq]
             r == [th[t] EXCEPT !.seq = seq, !.first[i] = n, !.pending = Append(@, row),
                                !.answers = @ \cup {a}]
             R == rows \o th[t].pending
  <1>1. th[t].pc = "lines" /\ th[t].lines # <<>> /\ nextRef' = n /\ rows' = rows
    BY DEF StoreLine
  <1>2. Become(t, AfterLine(q)) \/ Become(t, AfterLine(r))
    BY DEF StoreLine
  <1>3. /\ i \in Items /\ seq \in Nat /\ n \in Nat /\ nextRef \in Nat /\ th[t].seq \in Nat
        /\ rows \in Seq(EventRow) /\ th[t].pending \in Seq(EventRow)
    BY <1>1, ThreadFacts, TypeFacts, NumberedType
  <1>4. row \in EventRow /\ row.item = i /\ row.seq = seq /\ row.ref = n /\ a \in Reply
    BY <1>3, RowType DEF Reply, NewRow
  <1>5. th[t].first \in [Items -> Nat] /\ [th[t].first EXCEPT ![i] = n] \in [Items -> Nat]
    BY <1>3, ThreadFacts
  <1>6. Append(th[t].pending, row) \in Seq(EventRow)
    BY <1>4, ThreadFacts, AppendProperties
  <1>7. seq = IF Source[i] = NoSource THEN 0 ELSE th[t].seq + 1
    BY DEF Numbered
  <1>8. R \in Seq(EventRow) /\ rows \o Append(th[t].pending, row) = Append(R, row)
    <2>1. R \in Seq(EventRow)
      BY <1>3, ConcatProperties
    <2> HIDE DEF row
    <2>2. QED
      BY <1>3, <1>4, <2>1, ConcatAppend
  <1> HIDE DEF i, seq, row, a, R
  <1>9. /\ q \in Thread(q.before) /\ q.lines = th[t].lines /\ q.batch = th[t].batch
        /\ q.pending = th[t].pending /\ q.seq = seq
    BY <1>1, <1>3, ThreadFacts DEF Thread
  <1>10. /\ r \in Thread(r.before) /\ r.lines = th[t].lines /\ r.batch = th[t].batch
         /\ r.pending = Append(th[t].pending, row) /\ r.seq = seq
    BY <1>1, <1>3, <1>4, <1>5, <1>6, ThreadFacts DEF Thread
  <1> HIDE DEF q, r
  <1>11. AfterLine(q).pc # "absent" /\ AfterLine(r).pc # "absent"
    BY <1>1, <1>9, <1>10, AfterLineFacts
  <1>12. ASSUME Alone
         PROVE  /\ Rising(rows') /\ IdsUpTo(rows', nextRef')
                /\ Ordered(rows', nextRef', AfterLine(q)) /\ Ordered(rows', nextRef', AfterLine(r))
    <2>1. Rising(rows) /\ IdsUpTo(rows, nextRef) /\ Ordered(rows, nextRef, th[t])
      BY <1>12 DEF OrderInv
    <2>2. /\ Source[i] = Source[th[t].batch[1]]
          /\ Rising(R) /\ IdsUpTo(R, nextRef) /\ NumbersUpTo(R, Source[i], th[t].seq)
      BY <1>1, <2>1, BatchLines DEF i, R
    <2>3. \A d \in 1 .. Len(R) : R[d].ref \in Nat /\ R[d].seq \in Nat
      <3>1. \A d \in 1 .. Len(R) : R[d] \in EventRow
        BY <1>8
      <3>2. QED
        BY <3>1 DEF EventRow
    <2>4. IdsUpTo(R, n) /\ IdsUpTo(R, n - 1)
      BY <1>3, <2>2, <2>3 DEF IdsUpTo
    <2>5. NumbersUpTo(R, Source[i], seq) /\ NumbersUpTo(R, Source[i], seq - 1)
      <3>1. CASE Source[i] = NoSource
        BY <3>1 DEF NumbersUpTo
      <3>2. CASE seq = th[t].seq + 1
        BY <1>3, <2>2, <2>3, <3>2 DEF NumbersUpTo
      <3>3. QED
        BY <1>7, <3>1, <3>2
    <2>6. Rising(Append(R, row)) /\ NumbersUpTo(Append(R, row), Source[i], seq) /\ IdsUpTo(Append(R, row), n)
      BY <1>4, <1>8, <2>2, <2>4, <2>5, AppendRises
    <2>7. IdsUpTo(rows, n)
      <3>1. \A d \in 1 .. Len(rows) : rows[d] \in EventRow
        BY <1>3
      <3>2. QED
        BY <1>3, <2>1, <3>1 DEF IdsUpTo, EventRow
    <2>8. Ordered(rows, n, AfterLine(q))
      BY <1>1, <1>9, <2>1, <2>2, <2>4, <2>5, LineOrdered DEF R
    <2>9. Ordered(rows, n, AfterLine(r))
      BY <1>1, <1>8, <1>10, <2>1, <2>2, <2>6, LineOrdered
    <2>10. QED
      BY <1>1, <2>1, <2>7, <2>8, <2>9
  <1>13. QED
    BY <1>1, <1>2, <1>11, <1>12, MoveOrders

LEMMA CheckpointOrders ==
    ASSUME TypeInv, OrderInv, NEW t \in Threads, checkpoint(t) \/ FinishBatch(t) PROVE OrderInv'
  <1> DEFINE r == [th[t] EXCEPT !.pc = "lines", !.pending = <<>>]
  <1>1. /\ th[t].pc \in {"lines", "checkpoint"} /\ rows' = rows \o th[t].pending
        /\ nextRef' = nextRef /\ (Become(t, r) \/ Become(t, Idle))
    BY DEF checkpoint, FinishBatch
  <1>2. /\ r.pc = "lines" /\ r.pending = <<>> /\ r.lines = th[t].lines
        /\ r.batch = th[t].batch /\ r.seq = th[t].seq
    BY ThreadFacts DEF Thread
  <1> HIDE DEF r
  <1>3. rows' \in Seq(EventRow) /\ rows' \o r.pending = rows'
    <2>1. rows \o th[t].pending \in Seq(EventRow)
      BY ThreadFacts, TypeFacts
    <2>2. QED
      BY <1>1, <1>2, <2>1, EmptyTail
  <1>4. Idle.pc = "idle"
    BY IdleFacts
  <1>5. ASSUME Alone
        PROVE  /\ Rising(rows') /\ IdsUpTo(rows', nextRef')
               /\ Ordered(rows', nextRef', r) /\ Ordered(rows', nextRef', Idle)
    <2>1. Ordered(rows, nextRef, th[t])
      BY <1>5 DEF OrderInv
    <2>2. Rising(rows') /\ IdsUpTo(rows', nextRef')
      BY <1>1, <2>1 DEF Ordered
    <2>3. Ordered(rows', nextRef', Idle)
      BY <1>4, SimpleOrder DEF BatchSteps
    <2>4. Ordered(rows', nextRef', r)
      <3>1. /\ \A k \in 1 .. Len(r.lines) : Source[r.lines[k]] = Source[r.batch[1]]
            /\ NumbersUpTo(rows', Source[r.batch[1]], r.seq)
        BY <1>1, <1>2, <2>1 DEF Ordered, BatchSteps
      <3>2. QED
        BY <1>2, <1>3, <2>2, <3>1 DEF Ordered
    <2>5. QED
      BY <2>2, <2>3, <2>4
  <1>6. QED
    BY <1>1, <1>2, <1>4, <1>5, MoveOrders

(* What a purge does to the rows. *)
LEMMA PurgeMarks ==
    ASSUME TypeInv, NEW t \in Threads, PurgeRows(t)
    PROVE  /\ Len(rows') = Len(rows)
           /\ \A d \in RowIds : /\ rows'[d].item = rows[d].item /\ rows'[d].seq = rows[d].seq
                                /\ rows'[d].ref = rows[d].ref
                                /\ rows'[d].live => rows[d].live
                                /\ rows'[d].raw => rows[d].raw
           /\ th[t].purged \subseteq Live => \A d \in th[t].purged : ~rows'[d].raw
  <1> DEFINE P(d) == IF d \notin th[t].purged THEN rows[d]
                     ELSE IF th[t].op = "delete"
                     THEN [rows[d] EXCEPT !.live = FALSE, !.raw = FALSE]
                     ELSE [rows[d] EXCEPT !.raw = FALSE]
  <1>1. /\ rows' = [d \in RowIds |-> P(d)] \/ rows' = rows
        /\ th[t].purged \subseteq Live => rows' = [d \in RowIds |-> P(d)]
    BY DEF PurgeRows
  <1>2. \A d \in RowIds : /\ P(d).item = rows[d].item /\ P(d).seq = rows[d].seq
                          /\ P(d).ref = rows[d].ref
                          /\ P(d).live => rows[d].live
                          /\ P(d).raw => rows[d].raw
                          /\ d \in th[t].purged => P(d).raw = FALSE
    BY TypeFacts DEF EventRow
  <1>3. th[t].purged \subseteq RowIds
    BY ThreadFacts
  <1> HIDE DEF P
  <1>4. QED
    BY <1>1, <1>2, <1>3, PurgeFacts

LEMMA PurgeOrders ==
    ASSUME TypeInv, OrderInv, NEW t \in Threads, UnlinkRaw(t) \/ PurgeRows(t) PROVE OrderInv'
  <1>1. ASSUME UnlinkRaw(t) PROVE OrderInv'
    <2>1. PICK d \in th[t].todo :
            Become(t, [th[t] EXCEPT !.todo = @ \ {d},
                         !.pc = IF th[t].todo = {d} THEN "purge" ELSE "unlink"])
      BY <1>1 DEF UnlinkRaw
    <2> DEFINE r == [th[t] EXCEPT !.todo = @ \ {d},
                         !.pc = IF th[t].todo = {d} THEN "purge" ELSE "unlink"]
    <2>2. r.pc \in {"purge", "unlink"}
      BY ThreadFacts DEF Thread
    <2>3. Become(t, r) /\ th[t].pc = "unlink" /\ UNCHANGED <<rows, nextRef>>
      BY <1>1, <2>1 DEF UnlinkRaw
    <2> HIDE DEF r
    <2>4. QED
      BY <2>2, <2>3, IdleOrders DEF BatchSteps
  <1>2. ASSUME PurgeRows(t) PROVE OrderInv'
    <2>1. th[t].pc = "purge" /\ Become(t, Idle) /\ nextRef' = nextRef
      BY <1>2 DEF PurgeRows
    <2>2. /\ Len(rows') = Len(rows)
          /\ \A d \in 1 .. Len(rows) : /\ rows'[d].item = rows[d].item
                                       /\ rows'[d].seq = rows[d].seq
                                       /\ rows'[d].ref = rows[d].ref
                                       /\ rows'[d].live => rows[d].live
      BY <1>2, PurgeMarks DEF RowIds
    <2>3. ASSUME Alone PROVE Rising(rows') /\ IdsUpTo(rows', nextRef')
      <3>1. Rising(rows) /\ IdsUpTo(rows, nextRef)
        BY <2>3 DEF OrderInv
      <3>2. IdsUpTo(rows', nextRef')
        BY <2>1, <2>2, <3>1 DEF IdsUpTo
      <3>3. \A c, d \in 1 .. Len(rows) : Compared(rows', c, d) => Compared(rows, c, d)
        BY <2>2 DEF Compared
      <3>4. Rising(rows')
        BY <2>2, <3>1, <3>3 DEF Rising
      <3>5. QED
        BY <3>2, <3>4
    <2>4. Idle.pc = "idle" /\ Ordered(rows', nextRef', Idle)
      BY IdleFacts, SimpleOrder DEF BatchSteps
    <2>5. QED
      BY <2>1, <2>3, <2>4, MoveOrders
  <1>3. QED
    BY <1>1, <1>2

LEMMA FailOrders ==
    ASSUME TypeInv, OrderInv, NEW t \in Threads, Fail(t) PROVE OrderInv'
  <1>1. th[t].pc # "absent" /\ Become(t, Idle) /\ UNCHANGED <<rows, nextRef>>
    BY DEF Fail
  <1>2. QED
    BY <1>1, IdleFacts, IdleOrders DEF BatchSteps

LEMMA InitOrders == Init => OrderInv
  <1> SUFFICES ASSUME Init PROVE OrderInv
    OBVIOUS
  <1>1. Len(rows) = 0
    BY DEF Init
  <1>2. \A t \in Threads : Ordered(rows, nextRef, th[t])
    BY InitSlots, SlotFacts, SimpleOrder DEF BatchSteps
  <1>3. QED
    BY <1>1, <1>2 DEF OrderInv, Rising, IdsUpTo

LEMMA NextOrders == TypeInv /\ OrderInv /\ [Next]_vars => OrderInv'
  <1> SUFFICES ASSUME TypeInv, OrderInv, [Next]_vars PROVE OrderInv'
    OBVIOUS
  <1>1. ASSUME NEW t \in Threads, Begin(t) PROVE OrderInv'
    BY <1>1, BeginOrders
  <1>2. ASSUME NEW t \in Threads, Work(t) PROVE OrderInv'
    BY <1>2, FindOrders, SaveOrders, StoreOrders, DeliverOrders, PrefetchOrders, ReadOrders,
       ReplayOrders, LineOrders, CheckpointOrders, PurgeOrders DEF Work
  <1>3. ASSUME NEW t \in Threads, Fail(t) PROVE OrderInv'
    BY <1>3, FailOrders
  <1>4. CASE UNCHANGED vars
    BY <1>4 DEF vars, OrderInv, Alone
  <1>5. QED
    BY <1>1, <1>2, <1>3, <1>4 DEF Next

(* Requests that come one after the other number the events of a source in *)
(* the order they are stored, across batches, lines that fail, purges and  *)
(* requests that die (_max_source_seq, process_lines).                     *)
THEOREM ArrivalTheorem == Spec => []SequenceFollowsArrival
  <1>1. OrderInv => SequenceFollowsArrival
    BY DEF OrderInv, SequenceFollowsArrival, Rising, Compared, Live, RowIds
  <1>2. QED
    BY <1>1, InitOrders, NextOrders, SpecTypes, PTL DEF Spec

(* What the one request at work finds. *)
LEMMA FiledFacts ==
    ASSUME TypeInv, FileInv, Alone, failures = 0, NEW t \in Threads, th[t].pc # "absent"
    PROVE  /\ Filed(rows, files, th[t])
           /\ \A d \in RowIds : HasFile(rows, files, d) \/ d \in Unlinked(th[t])
           /\ th[t].pc \notin {"unlink", "purge"} => \A d \in RowIds : HasFile(rows, files, d)
  <1>1. \A u \in Threads : Filed(rows, files, th[u]) /\ (u # t => th[u].pc = "absent")
    BY DEF FileInv, Alone
  <1>2. \A u \in Threads : u # t => Unlinked(th[u]) = {}
    BY <1>1 DEF Filed, Unlinked
  <1>3. \A d \in RowIds : HasFile(rows, files, d) \/ d \in Unlinked(th[t])
    BY <1>2 DEF FileInv
  <1>4. th[t].pc \notin {"unlink", "purge"} => Unlinked(th[t]) = {}
    BY <1>1 DEF Filed, Unlinked
  <1>5. QED
    BY <1>1, <1>3, <1>4

LEMMA MoveFiles ==
    ASSUME TypeInv, FileInv, NEW t \in Threads, NEW r, Become(t, r),
           th[t].pc # "absent", r.pc # "absent", failures \in Nat, failures' = 0 => failures = 0,
           Alone /\ failures = 0 /\ failures' = 0 =>
               /\ Filed(rows', files', r)
               /\ \A d \in 1 .. Len(rows') : HasFile(rows', files', d) \/ d \in Unlinked(r)
    PROVE  FileInv'
  <1> SUFFICES ASSUME Alone', failures' = 0
               PROVE  /\ \A d \in RowIds' : \/ HasFile(rows', files', d)
                                            \/ \E u \in Threads : d \in Unlinked(th'[u])
                      /\ \A u \in Threads : Filed(rows', files', th'[u])
    BY DEF FileInv
  <1>1. /\ Alone /\ th'[t] = r
        /\ \A u \in Threads : u # t => th[u].pc = "absent" /\ th'[u] = th[u]
    BY SoloFacts
  <1>2. /\ Filed(rows', files', r)
        /\ \A d \in 1 .. Len(rows') : HasFile(rows', files', d) \/ d \in Unlinked(r)
    BY <1>1
  <1>3. ASSUME NEW u \in Threads, u # t PROVE Filed(rows', files', th'[u])
    <2>1. th[u].purged = {}
      BY <1>1, <1>3 DEF FileInv, Filed
    <2>2. th[u].pending = <<>> /\ Len(<<>>) = 0
      BY <1>1, <1>3, ThreadFacts DEF StepShape
    <2>3. QED
      BY <1>1, <1>3, <2>1, <2>2 DEF Filed
  <1>4. QED
    BY <1>1, <1>2, <1>3 DEF RowIds

(* A step that stores nothing and removes nothing. *)
LEMMA KeepFiles ==
    ASSUME TypeInv, FileInv, NEW t \in Threads, NEW r, Become(t, r),
           th[t].pc \notin {"absent", "unlink", "purge"},
           r.pc \notin {"absent", "insert", "unlink", "purge"},
           r.purged = {}, r.pending \in {<<>>, th[t].pending},
           rows' = rows, files \subseteq files', failures' = failures
    PROVE  FileInv'
  <1>1. ASSUME Alone, failures = 0
        PROVE  /\ Filed(rows', files', r)
               /\ \A d \in 1 .. Len(rows') : HasFile(rows', files', d) \/ d \in Unlinked(r)
    <2>1. Filed(rows, files, th[t]) /\ \A d \in RowIds : HasFile(rows, files, d)
      BY <1>1, FiledFacts
    <2>2. Len(<<>>) = 0
      OBVIOUS
    <2>3. QED
      BY <2>1, <2>2 DEF Filed, HasFile, RowIds
  <1>2. failures \in Nat
    BY TypeFacts, BoundAssumption
  <1>3. QED
    BY <1>1, <1>2, MoveFiles

LEMMA BeginFiles ==
    ASSUME TypeInv, FileInv, NEW t \in Threads, Begin(t) PROVE FileInv'
  <1>1. th[t].pc = "idle" /\ UNCHANGED <<rows, files, failures>>
    BY DEF Begin, process_payload, process_lines, delete_events, strip_raw, SelectRows
  <1>2. ASSUME NEW i \in Items, process_payload(t, i) PROVE FileInv'
    <2> DEFINE r == [Idle EXCEPT !.pc = "find", !.op = "single", !.lines = <<i>>]
    <2>1. Become(t, r) /\ r.pc = "find" /\ r.purged = {} /\ r.pending = <<>>
      BY <1>2 DEF process_payload, Idle
    <2> HIDE DEF r
    <2>2. QED
      BY <1>1, <2>1, KeepFiles
  <1>3. ASSUME NEW b \in Batches, process_lines(t, b) PROVE FileInv'
    <2> DEFINE r == [Idle EXCEPT !.pc = "prefetch", !.op = "batch", !.lines = b,
                                 !.batch = b, !.before = LogOf(rows)]
    <2>1. Become(t, r) /\ r.pc = "prefetch" /\ r.purged = {} /\ r.pending = <<>>
      BY <1>3 DEF process_lines, Idle
    <2> HIDE DEF r
    <2>2. QED
      BY <1>1, <2>1, KeepFiles
  <1>4. ASSUME NEW D \in SUBSET Live, NEW op, SelectRows(t, D, op) PROVE FileInv'
    <2> DEFINE W == {d \in D : rows[d].raw}
               r == [Idle EXCEPT !.pc = IF W = {} THEN "purge" ELSE "unlink",
                                 !.op = op, !.todo = W, !.purged = D]
    <2>1. /\ Become(t, r) /\ r.pc \in {"purge", "unlink"} /\ r.purged = D /\ r.pending = <<>>
      BY <1>4 DEF SelectRows, Idle
    <2> HIDE DEF r, W
    <2>2. ASSUME Alone, failures = 0
          PROVE  /\ Filed(rows', files', r)
                 /\ \A d \in 1 .. Len(rows') : HasFile(rows', files', d) \/ d \in Unlinked(r)
      <3>1. \A d \in RowIds : HasFile(rows, files, d)
        BY <1>1, <2>2, FiledFacts
      <3>2. \A d \in D : rows[d].live
        BY <1>4 DEF Live
      <3>3. Len(<<>>) = 0
        OBVIOUS
      <3>4. QED
        BY <1>1, <2>1, <3>1, <3>2, <3>3 DEF Filed, RowIds
    <2>3. failures \in Nat
      BY TypeFacts, BoundAssumption
    <2>4. QED
      BY <1>1, <2>1, <2>2, <2>3, MoveFiles
  <1>5. CASE delete_events(t)
    <2>1. PICK D \in SUBSET Live : SelectRows(t, D, "delete")
      BY <1>5 DEF delete_events
    <2>2. QED
      BY <1>4, <2>1
  <1>6. CASE strip_raw(t)
    <2>1. PICK D \in SUBSET Live : SelectRows(t, D, "strip")
      BY <1>6 DEF strip_raw
    <2>2. QED
      BY <1>4, <2>1
  <1>7. QED
    BY <1>2, <1>3, <1>5, <1>6 DEF Begin

LEMMA NotPurging ==
    ASSUME TypeInv, FileInv, Alone, failures = 0, NEW t \in Threads,
           th[t].pc \notin {"unlink", "purge"}
    PROVE  th[t].purged = {}
  BY DEF FileInv, Filed

(* The steps that leave the table and the files, or end. *)
LEMMA QuietFiles ==
    ASSUME TypeInv, FileInv, NEW t \in Threads,
           \/ FindDuplicate(t) \/ _deliver(t) \/ prefetch_hashes(t)
           \/ ReadMaxSeq(t) \/ ReplayLine(t)
    PROVE  FileInv'
  <1> DEFINE Quietly(r) == /\ Become(t, r) /\ r.pc \notin {"absent", "insert", "unlink", "purge"}
                           /\ r.pending \in {<<>>, th[t].pending}
                           /\ r.purged \in {{}, th[t].purged}
                           /\ r.todo \in {{}, th[t].todo}
  <1>1. /\ th[t].pc \notin {"absent", "unlink", "purge"} /\ UNCHANGED <<rows, files, failures>>
    BY DEF FindDuplicate, _deliver, prefetch_hashes, ReadMaxSeq, ReplayLine
  <1>2. \E r : Quietly(r)
    <2>1. ASSUME Become(t, Idle) PROVE Quietly(Idle)
      BY <2>1, IdleFacts
    <2>2. CASE FindDuplicate(t)
      <3>1. CASE Become(t, [th[t] EXCEPT !.pc = "save"])
        <4>1. Quietly([th[t] EXCEPT !.pc = "save"])
          BY <3>1, ThreadFacts DEF Thread
        <4>2. QED
          BY <4>1
      <3>2. QED
        BY <2>1, <2>2, <3>1 DEF FindDuplicate
    <2>3. CASE _deliver(t)
      BY <2>1, <2>3 DEF _deliver
    <2>4. CASE prefetch_hashes(t)
      <3> DEFINE K == {i \in Range(th[t].lines) : _find_duplicate(i) # {}}
      <3>1. Become(t, [th[t] EXCEPT !.pc = "maxSeq", !.known = K])
        BY <2>4 DEF prefetch_hashes
      <3> HIDE DEF K
      <3>2. Quietly([th[t] EXCEPT !.pc = "maxSeq", !.known = K])
        BY <3>1, ThreadFacts DEF Thread
      <3>3. QED
        BY <3>2
    <2>5. CASE ReadMaxSeq(t)
      <3> DEFINE n == _max_source_seq(Source[Head(th[t].lines)])
      <3>1. Become(t, [th[t] EXCEPT !.pc = "lines", !.seq = n])
        BY <2>5 DEF ReadMaxSeq
      <3> HIDE DEF n
      <3>2. Quietly([th[t] EXCEPT !.pc = "lines", !.seq = n])
        BY <3>1, ThreadFacts DEF Thread
      <3>3. QED
        BY <3>2
    <2>6. CASE ReplayLine(t)
      <3> DEFINE i == Head(th[t].lines)
      <3>1. th[t].lines # <<>>
        BY <2>6 DEF ReplayLine
      <3>2. PICK ref \in ReplayOf(t, i) :
              Become(t, AfterLine([th[t] EXCEPT !.answers = @ \cup {[item |-> i, ref |-> ref]}]))
        BY <2>6 DEF ReplayLine
      <3> DEFINE r == [th[t] EXCEPT !.answers = @ \cup {[item |-> i, ref |-> ref]}]
      <3>3. i \in Items /\ [item |-> i, ref |-> ref] \in Reply
        BY <3>1, ThreadFacts, ReplayType
      <3>4. /\ r \in Thread(r.before) /\ r.lines = th[t].lines
            /\ r.pending = th[t].pending /\ r.purged = th[t].purged /\ r.todo = th[t].todo
        BY <3>3, ThreadFacts DEF Thread
      <3>5. Become(t, AfterLine(r))
        BY <3>2
      <3> HIDE DEF r
      <3>6. Quietly(AfterLine(r))
        BY <3>1, <3>4, <3>5, AfterLineFacts
      <3>7. QED
        BY <3>6
    <2>7. QED
      BY <2>2, <2>3, <2>4, <2>5, <2>6
  <1>3. PICK r : Quietly(r)
    BY <1>2
  <1>4. ASSUME Alone, failures = 0
        PROVE  /\ Filed(rows', files', r)
               /\ \A d \in 1 .. Len(rows') : HasFile(rows', files', d) \/ d \in Unlinked(r)
    <2>1. Filed(rows, files, th[t]) /\ \A d \in RowIds : HasFile(rows, files, d)
      BY <1>1, <1>4, FiledFacts
    <2>2. r.purged = {} /\ Len(<<>>) = 0
      BY <1>1, <1>3, <1>4, NotPurging
    <2>3. QED
      BY <1>1, <1>3, <2>1, <2>2 DEF Filed, RowIds
  <1>5. failures \in Nat
    BY TypeFacts, BoundAssumption
  <1>6. QED
    BY <1>1, <1>3, <1>4, <1>5, MoveFiles

LEMMA SaveFiles ==
    ASSUME TypeInv, FileInv, NEW t \in Threads, SaveRaw(t) PROVE FileInv'
  <1> DEFINE n == nextRef + 1
             seq == Numbered(Source[Head(th[t].lines)], _max_source_seq(Source[Head(th[t].lines)]))
             r == [th[t] EXCEPT !.pc = "insert", !.ref = n, !.seq = seq]
  <1>1. /\ th[t].pc = "save" /\ files' = files \cup {n} /\ rows' = rows /\ failures' = failures
        /\ Become(t, r)
    BY DEF SaveRaw
  <1> HIDE DEF seq
  <1>2. /\ r.pc = "insert" /\ r.ref = n /\ r.pending = th[t].pending
        /\ r.purged = th[t].purged
    BY ThreadFacts DEF Thread
  <1> HIDE DEF r
  <1>3. ASSUME Alone, failures = 0
        PROVE  /\ Filed(rows', files', r)
               /\ \A d \in 1 .. Len(rows') : HasFile(rows', files', d) \/ d \in Unlinked(r)
    <2>1. Filed(rows, files, th[t]) /\ \A d \in RowIds : HasFile(rows, files, d)
      BY <1>1, <1>3, FiledFacts
    <2>2. r.purged = {}
      BY <1>1, <1>2, <1>3, NotPurging
    <2>3. QED
      BY <1>1, <1>2, <2>1, <2>2 DEF Filed, HasFile, RowIds
  <1>4. failures \in Nat
    BY TypeFacts, BoundAssumption
  <1>5. QED
    BY <1>1, <1>2, <1>3, <1>4, MoveFiles

LEMMA StoreFiles ==
    ASSUME TypeInv, FileInv, NEW t \in Threads, StoreRow(t) PROVE FileInv'
  <1> DEFINE row == NewRow(Head(th[t].lines), th[t].seq, th[t].ref)
             r == [th[t] EXCEPT !.pc = "deliver"]
  <1>1. th[t].pc = "insert" /\ UNCHANGED <<files, failures>>
    BY DEF StoreRow
  <1>2. CASE Become(t, Idle) /\ rows' = rows
    <2>1. Idle.pc = "idle" /\ Idle.purged = {} /\ Idle.pending = <<>>
      BY IdleFacts
    <2>2. QED
      BY <1>1, <1>2, <2>1, KeepFiles
  <1>3. CASE Become(t, r) /\ rows' = Append(rows, row)
    <2>1. r.pc = "deliver" /\ r.pending = th[t].pending /\ r.purged = th[t].purged
      BY ThreadFacts DEF Thread
    <2>2. row \in EventRow /\ row.ref = th[t].ref /\ rows \in Seq(EventRow)
      <3>1. th[t].lines # <<>>
        BY <1>1, ThreadFacts DEF StepShape
      <3>2. /\ Head(th[t].lines) \in Items /\ th[t].seq \in Nat /\ th[t].ref \in 0 .. nextRef
            /\ rows \in Seq(EventRow) /\ nextRef \in Nat
        BY <3>1, ThreadFacts, TypeFacts
      <3>3. th[t].ref \in Nat
        BY <3>2
      <3>4. QED
        BY <3>2, <3>3, RowType
    <2> HIDE DEF r, row
    <2>3. ASSUME Alone, failures = 0
          PROVE  /\ Filed(rows', files', r)
                 /\ \A d \in 1 .. Len(rows') : HasFile(rows', files', d) \/ d \in Unlinked(r)
      <3>1. Filed(rows, files, th[t]) /\ \A d \in RowIds : HasFile(rows, files, d)
        BY <1>1, <2>3, FiledFacts
      <3>2. r.purged = {} /\ row.ref \in files
        BY <1>1, <2>1, <2>2, <2>3, <3>1, NotPurging DEF Filed
      <3>3. /\ Len(rows') = Len(rows) + 1 /\ rows'[Len(rows) + 1] = row
            /\ \A d \in 1 .. Len(rows) : rows'[d] = rows[d]
        BY <1>3, <2>2, ExtendsAppend
      <3>4. 1 .. Len(rows') = (1 .. Len(rows)) \cup {Len(rows) + 1}
        BY <3>3, TypeFacts
      <3>5. \A d \in 1 .. Len(rows') : HasFile(rows', files', d)
        BY <1>1, <3>1, <3>2, <3>3, <3>4 DEF HasFile, RowIds
      <3>6. Filed(rows', files', r)
        BY <1>1, <2>1, <3>1, <3>2 DEF Filed
      <3>7. QED
        BY <3>5, <3>6
    <2>4. failures \in Nat
      BY TypeFacts, BoundAssumption
    <2>5. QED
      BY <1>1, <1>3, <2>1, <2>3, <2>4, MoveFiles
  <1>4. QED
    BY <1>2, <1>3 DEF StoreRow

LEMMA LineFiles ==
    ASSUME TypeInv, FileInv, NEW t \in Threads, StoreLine(t) PROVE FileInv'
  <1> DEFINE i == Head(th[t].lines)
             n == nextRef + 1
             seq == Numbered(Source[i], th[t].seq)
             row == NewRow(i, seq, n)
             a == [item |-> i, ref |-> n]
             q == [th[t] EXCEPT !.seq = seq]
             r == [th[t] EXCEPT !.seq = seq, !.first[i] = n, !.pending = Append(@, row),
                                !.answers = @ \cup {a}]
  <1>1. /\ th[t].pc = "lines" /\ th[t].lines # <<>> /\ files' = files \cup {n}
        /\ rows' = rows /\ failures' = failures
    BY DEF StoreLine
  <1>2. Become(t, AfterLine(q)) \/ Become(t, AfterLine(r))
    BY DEF StoreLine
  <1>3. i \in Items /\ seq \in Nat /\ n \in Nat /\ th[t].pending \in Seq(EventRow)
    BY <1>1, ThreadFacts, TypeFacts, NumberedType
  <1>4. row \in EventRow /\ row.ref = n /\ a \in Reply
    BY <1>3, RowType DEF Reply
  <1>5. [th[t].first EXCEPT ![i] = n] \in [Items -> Nat]
    BY <1>3, ThreadFacts
  <1> DEFINE P == Append(th[t].pending, row)
             L == Len(th[t].pending)
  <1> HIDE DEF i, seq, row, a
  <1>6. /\ P \in Seq(EventRow) /\ Len(P) = L + 1 /\ P[L + 1] = row /\ L \in Nat
        /\ \A k \in 1 .. L : P[k] = th[t].pending[k]
    BY <1>3, <1>4, AppendProperties
  <1>7. /\ q \in Thread(q.before) /\ q.lines = th[t].lines /\ q.purged = th[t].purged
        /\ q.pending = th[t].pending
    BY <1>1, <1>3, ThreadFacts DEF Thread
  <1>8. /\ r \in Thread(r.before) /\ r.lines = th[t].lines /\ r.purged = th[t].purged
        /\ r.pending = P
    <2>1. Append(th[t].pending, row) \in Seq(EventRow)
      BY <1>6
    <2> HIDE DEF P
    <2>2. /\ r \in Thread(r.before) /\ r.lines = th[t].lines /\ r.purged = th[t].purged
          /\ r.pending = Append(th[t].pending, row)
      BY <1>1, <1>3, <1>4, <1>5, <2>1, ThreadFacts DEF Thread
    <2>3. QED
      BY <2>2 DEF P
  <1> HIDE DEF q, r, P, L
  <1>9. /\ AfterLine(q).pc \in {"lines", "checkpoint"} /\ AfterLine(q).pending = th[t].pending
        /\ AfterLine(q).purged = th[t].purged
    BY <1>1, <1>7, AfterLineFacts
  <1>10. /\ AfterLine(r).pc \in {"lines", "checkpoint"} /\ AfterLine(r).pending = P
         /\ AfterLine(r).purged = th[t].purged
    BY <1>1, <1>8, AfterLineFacts
  <1>11. ASSUME Alone, failures = 0
         PROVE  /\ Filed(rows', files', AfterLine(q)) /\ Filed(rows', files', AfterLine(r))
                /\ \A d \in 1 .. Len(rows') : HasFile(rows', files', d)
    <2>1. Filed(rows, files, th[t]) /\ \A d \in RowIds : HasFile(rows, files, d)
      BY <1>1, <1>11, FiledFacts
    <2>2. th[t].purged = {}
      BY <1>1, <1>11, NotPurging
    <2>3. \A k \in 1 .. Len(th[t].pending) : th[t].pending[k].ref \in files'
      BY <1>1, <2>1 DEF Filed
    <2>4. \A k \in 1 .. Len(P) : P[k].ref \in files'
      <3>1. 1 .. Len(P) = (1 .. L) \cup {L + 1}
        BY <1>6
      <3>2. QED
        BY <1>1, <1>4, <1>6, <2>3, <3>1 DEF L
    <2>5. \A d \in 1 .. Len(rows') : HasFile(rows', files', d)
      BY <1>1, <2>1 DEF HasFile, RowIds
    <2>6. Filed(rows', files', AfterLine(q)) /\ Filed(rows', files', AfterLine(r))
      BY <1>9, <1>10, <2>2, <2>3, <2>4 DEF Filed
    <2>7. QED
      BY <2>5, <2>6
  <1>12. failures \in Nat
    BY TypeFacts, BoundAssumption
  <1>13. CASE Become(t, AfterLine(q))
    BY <1>1, <1>9, <1>11, <1>12, <1>13, MoveFiles
  <1>14. CASE Become(t, AfterLine(r))
    BY <1>1, <1>10, <1>11, <1>12, <1>14, MoveFiles
  <1>15. QED
    BY <1>2, <1>13, <1>14

LEMMA CheckpointFiles ==
    ASSUME TypeInv, FileInv, NEW t \in Threads, checkpoint(t) \/ FinishBatch(t) PROVE FileInv'
  <1> DEFINE r == [th[t] EXCEPT !.pc = "lines", !.pending = <<>>]
             L == Len(th[t].pending)
  <1>1. /\ th[t].pc \in {"lines", "checkpoint"} /\ rows' = rows \o th[t].pending
        /\ UNCHANGED <<files, failures>> /\ (Become(t, r) \/ Become(t, Idle))
    BY DEF checkpoint, FinishBatch
  <1>2. /\ r.pc = "lines" /\ r.pending = <<>> /\ r.purged = th[t].purged
        /\ Idle.pc = "idle" /\ Idle.pending = <<>> /\ Idle.purged = {}
    BY IdleFacts, ThreadFacts DEF Thread
  <1> HIDE DEF r
  <1>3. ASSUME Alone, failures = 0
        PROVE  /\ Filed(rows', files', r) /\ Filed(rows', files', Idle)
               /\ \A d \in 1 .. Len(rows') : HasFile(rows', files', d)
    <2>1. Filed(rows, files, th[t]) /\ \A d \in RowIds : HasFile(rows, files, d)
      BY <1>1, <1>3, FiledFacts
    <2>2. th[t].purged = {} /\ Len(<<>>) = 0
      BY <1>1, <1>3, NotPurging
    <2>3. /\ Len(rows') = Len(rows) + L /\ Len(rows) \in Nat /\ L \in Nat
          /\ \A d \in 1 .. Len(rows) : rows'[d] = rows[d]
          /\ \A k \in 1 .. L : rows'[Len(rows) + k] = th[t].pending[k]
      BY <1>1, ThreadFacts, TypeFacts, ExtendsConcat
    <2>4. \A k \in 1 .. L : th[t].pending[k].ref \in files
      BY <2>1 DEF Filed
    <2> HIDE DEF L
    <2>5. ASSUME NEW d \in 1 .. Len(rows') PROVE HasFile(rows', files', d)
      <3>1. CASE d \in 1 .. Len(rows)
        BY <1>1, <2>1, <2>3, <3>1 DEF HasFile, RowIds
      <3>2. CASE d \notin 1 .. Len(rows)
        <4>1. d - Len(rows) \in 1 .. L /\ d = Len(rows) + (d - Len(rows))
          BY <2>3, <3>2
        <4>2. rows'[d].ref \in files
          BY <2>3, <2>4, <4>1
        <4>3. QED
          BY <1>1, <4>2 DEF HasFile
      <3>3. QED
        BY <3>1, <3>2
    <2>6. Filed(rows', files', r) /\ Filed(rows', files', Idle)
      BY <1>2, <2>2 DEF Filed
    <2>7. QED
      BY <2>5, <2>6
  <1>4. failures \in Nat
    BY TypeFacts, BoundAssumption
  <1>5. QED
    BY <1>1, <1>2, <1>3, <1>4, MoveFiles

(* Event ids tell the rows apart: the file removed is no other row's. *)
LEMMA UnlinkFiles ==
    ASSUME TypeInv, OrderInv, FileInv, NEW t \in Threads, UnlinkRaw(t) PROVE FileInv'
  <1>1. th[t].pc = "unlink" /\ rows' = rows
    BY DEF UnlinkRaw
  <1>2. PICK d \in th[t].todo :
          /\ \/ files' = files \ {rows[d].ref} /\ UNCHANGED failures
             \/ UNCHANGED files /\ failures < MaxFailures /\ failures' = failures + 1
          /\ Become(t, [th[t] EXCEPT !.todo = @ \ {d},
                          !.pc = IF th[t].todo = {d} THEN "purge" ELSE "unlink"])
    BY DEF UnlinkRaw
  <1> DEFINE r == [th[t] EXCEPT !.todo = @ \ {d},
                     !.pc = IF th[t].todo = {d} THEN "purge" ELSE "unlink"]
  <1>3. /\ r.pc \in {"purge", "unlink"} /\ r.purged = th[t].purged /\ r.pending = th[t].pending
        /\ r.todo = th[t].todo \ {d}
    BY ThreadFacts DEF Thread
  <1>4. Become(t, r) /\ failures \in Nat /\ (failures' = 0 => failures = 0)
    BY <1>2, TypeFacts, BoundAssumption
  <1> HIDE DEF r
  <1>5. d \in th[t].purged /\ d \in RowIds
    BY ThreadFacts
  <1>6. th[t].pending = <<>> /\ Len(<<>>) = 0
    BY <1>1, ThreadFacts DEF StepShape
  <1>7. ASSUME Alone, failures = 0, failures' = 0
        PROVE  /\ Filed(rows', files', r)
               /\ \A c \in 1 .. Len(rows') : HasFile(rows', files', c) \/ c \in Unlinked(r)
    <2>1. /\ Filed(rows, files, th[t])
          /\ \A c \in RowIds : HasFile(rows, files, c) \/ c \in Unlinked(th[t])
      BY <1>1, <1>7, FiledFacts
    <2>2. files' = files \ {rows[d].ref}
      BY <1>2, <1>7
    <2>3. ASSUME NEW c \in RowIds PROVE HasFile(rows', files', c) \/ c \in Unlinked(r)
      <3>1. CASE c = d
        BY <1>3, <1>5, <3>1 DEF Unlinked
      <3>2. CASE c \in Unlinked(th[t])
        BY <1>3, <3>2 DEF Unlinked
      <3>3. CASE c # d /\ HasFile(rows, files, c)
        <4>1. rows[c].ref # rows[d].ref
          <5>1. Rising(rows)
            BY <1>7 DEF OrderInv
          <5>2. rows[c].ref \in Nat /\ rows[d].ref \in Nat
            BY <1>5, TypeFacts DEF EventRow
          <5>3. c < d \/ d < c
            BY <1>5, <3>3, TypeFacts
          <5>4. QED
            BY <1>5, <5>1, <5>2, <5>3 DEF Rising, RowIds
        <4>2. QED
          BY <1>1, <2>2, <3>3, <4>1 DEF HasFile
      <3>4. QED
        BY <2>1, <3>1, <3>2, <3>3
    <2>4. Filed(rows', files', r)
      BY <1>1, <1>3, <1>6, <2>1 DEF Filed
    <2>5. QED
      BY <1>1, <2>3, <2>4 DEF RowIds
  <1>8. QED
    BY <1>1, <1>3, <1>4, <1>7, MoveFiles

LEMMA PurgeFiles ==
    ASSUME TypeInv, FileInv, NEW t \in Threads, PurgeRows(t) PROVE FileInv'
  <1>1. th[t].pc = "purge" /\ Become(t, Idle) /\ UNCHANGED <<files, failures>>
    BY DEF PurgeRows
  <1>2. Idle.pc = "idle" /\ Idle.pending = <<>> /\ Idle.purged = {} /\ Len(<<>>) = 0
    BY IdleFacts
  <1>3. ASSUME Alone, failures = 0
        PROVE  /\ Filed(rows', files', Idle)
               /\ \A d \in 1 .. Len(rows') : HasFile(rows', files', d)
    <2>1. /\ Filed(rows, files, th[t])
          /\ \A d \in RowIds : HasFile(rows, files, d) \/ d \in Unlinked(th[t])
      BY <1>1, <1>3, FiledFacts
    <2>2. th[t].purged \subseteq Live
      BY <2>1, ThreadFacts DEF Filed, Live
    <2>3. /\ Len(rows') = Len(rows) /\ \A d \in th[t].purged : ~rows'[d].raw
          /\ \A d \in RowIds : /\ rows'[d].ref = rows[d].ref
                               /\ rows'[d].live => rows[d].live
                               /\ rows'[d].raw => rows[d].raw
      BY <2>2, PurgeMarks
    <2>4. ASSUME NEW d \in RowIds PROVE HasFile(rows', files', d)
      <3>1. CASE d \in th[t].purged
        BY <2>3, <3>1 DEF HasFile
      <3>2. CASE d \notin th[t].purged
        BY <1>1, <2>1, <2>3, <3>2 DEF HasFile, Unlinked
      <3>3. QED
        BY <3>1, <3>2
    <2>5. Filed(rows', files', Idle)
      BY <1>2 DEF Filed
    <2>6. QED
      BY <2>3, <2>4, <2>5 DEF RowIds
  <1>4. failures \in Nat
    BY TypeFacts, BoundAssumption
  <1>5. QED
    BY <1>1, <1>2, <1>3, <1>4, MoveFiles

LEMMA InitFiles == Init => FileInv
  <1> SUFFICES ASSUME Init PROVE FileInv
    OBVIOUS
  <1>1. RowIds = {}
    BY DEF Init, RowIds
  <1>2. ASSUME NEW t \in Threads PROVE Filed(rows, files, th[t])
    <2>1. /\ th[t].pc \in {"idle", "absent"} /\ th[t].purged = {} /\ th[t].pending = <<>>
          /\ Len(<<>>) = 0
      BY InitSlots, SlotFacts
    <2>2. QED
      BY <2>1 DEF Filed
  <1>3. QED
    BY <1>1, <1>2 DEF FileInv

LEMMA NextFiles == TypeInv /\ OrderInv /\ FileInv /\ [Next]_vars => FileInv'
  <1> SUFFICES ASSUME TypeInv, OrderInv, FileInv, [Next]_vars PROVE FileInv'
    OBVIOUS
  <1>1. ASSUME NEW t \in Threads, Begin(t) PROVE FileInv'
    BY <1>1, BeginFiles
  <1>2. ASSUME NEW t \in Threads, Work(t) PROVE FileInv'
    BY <1>2, QuietFiles, SaveFiles, StoreFiles, LineFiles, CheckpointFiles, UnlinkFiles,
       PurgeFiles DEF Work
  <1>3. ASSUME NEW t \in Threads, Fail(t) PROVE FileInv'
    <2>1. failures' = failures + 1 /\ failures \in Nat
      BY <1>3, TypeFacts, BoundAssumption DEF Fail
    <2>2. failures' # 0
      BY <2>1
    <2>3. QED
      BY <2>2 DEF FileInv
  <1>4. CASE UNCHANGED vars
    BY <1>4 DEF vars, FileInv, Alone, RowIds
  <1>5. QED
    BY <1>1, <1>2, <1>3, <1>4 DEF Next

(* When requests come one after the other, none of them dies and every     *)
(* file asked to be removed is, a live row that refers to a raw file has   *)
(* it, but for those a purge at work has selected (_delete_raw_file,       *)
(* batch_delete_events, run_retention_cleanup).                            *)
THEOREM RawFileTheorem == Spec => []RowsHaveRawFiles
  <1>1. FileInv => RowsHaveRawFiles
    <2> SUFFICES ASSUME FileInv, Alone, failures = 0, NEW d \in Live, rows[d].raw
                 PROVE  rows[d].ref \in files \/ \E t \in Threads : d \in th[t].purged
      BY DEF RowsHaveRawFiles
    <2>1. HasFile(rows, files, d) \/ \E t \in Threads : d \in Unlinked(th[t])
      BY DEF FileInv, Live
    <2>2. QED
      BY <2>1 DEF HasFile, Unlinked, Live
  <1>2. QED
    BY <1>1, InitOrders, NextOrders, InitFiles, NextFiles, SpecTypes, PTL DEF Spec

-----------------------------------------------------------------------------
(* LogOf goes through the rows one after the other. *)
LEMMA LogStages ==
    ASSUME NEW R, Len(R) \in Nat
    PROVE  \E log :
              /\ log[0] = <<>>
              /\ \A k \in 1 .. Len(R) :
                    log[k] = IF R[k].live THEN Append(log[k - 1], Entry(R[k])) ELSE log[k - 1]
              /\ LogOf(R) = log[Len(R)]
  <1> DEFINE N == Len(R)
             After(u, k) == IF R[k].live THEN Append(u, Entry(R[k])) ELSE u
             Upto(g, n) == g[0] = <<>> /\ \A k \in 1 .. n : g[k] = After(g[k - 1], k)
             S == {n \in 0 .. N : \E g : Upto(g, n)}
             C == CHOOSE g : g = [k \in 0 .. N |->
                      IF k = 0 THEN <<>>
                      ELSE IF R[k].live THEN Append(g[k - 1], Entry(R[k])) ELSE g[k - 1]]
  <1>1. LogOf(R) = C[N]
    BY DEF LogOf
  <1> HIDE DEF C
  <1>2. \A g, n : n \in 0 .. N /\ Upto(g, n) /\ n < N => \E h : Upto(h, n + 1)
    <2> SUFFICES ASSUME NEW g, NEW n \in 0 .. N, Upto(g, n), n < N PROVE \E h : Upto(h, n + 1)
      OBVIOUS
    <2> DEFINE h == [k \in 0 .. N |-> IF k = n + 1 THEN After(g[n], n + 1) ELSE g[k]]
    <2> HIDE DEF After
    <2>1. h[0] = <<>> /\ h[n + 1] = After(g[n], n + 1) /\ \A k \in 0 .. n : h[k] = g[k]
      OBVIOUS
    <2> HIDE DEF h
    <2>2. ASSUME NEW k \in 1 .. n + 1 PROVE h[k] = After(h[k - 1], k)
      <3>1. CASE k = n + 1
        <4>1. k - 1 = n /\ n \in 0 .. n
          BY <3>1
        <4>2. QED
          BY <2>1, <3>1, <4>1
      <3>2. CASE k # n + 1
        <4>1. k \in 1 .. n /\ k \in 0 .. n /\ k - 1 \in 0 .. n
          BY <3>2
        <4>2. QED
          BY <2>1, <4>1
      <3>3. QED
        BY <3>1, <3>2
    <2>3. QED
      BY <2>1, <2>2
  <1>3. 0 \in S
    <2>1. Upto([k \in 0 .. N |-> <<>>], 0)
      OBVIOUS
    <2> HIDE DEF Upto
    <2>2. \E g : Upto(g, 0)
      BY <2>1
    <2>3. QED
      BY <2>2
  <1> HIDE DEF Upto
  <1>4. \A k \in 0 .. N : k \in S /\ k < N => k + 1 \in S
    BY <1>2
  <1> HIDE DEF S
  <1>5. N \in S
    <2>1. \A k \in 0 .. N : k \in S
      BY <1>3, <1>4, CountUp
    <2>2. QED
      BY <2>1
  <1>6. PICK g : Upto(g, N)
    BY <1>5 DEF S
  <1> DEFINE w == [k \in 0 .. N |-> g[k]]
  <1>7. w[0] = <<>> /\ \A k \in 1 .. N : w[k] = After(w[k - 1], k)
    <2> HIDE DEF After
    <2>1. \A k \in 0 .. N : w[k] = g[k]
      OBVIOUS
    <2>2. g[0] = <<>> /\ \A k \in 1 .. N : g[k] = After(g[k - 1], k)
      BY <1>6 DEF Upto
    <2>3. \A k \in 1 .. N : k \in 0 .. N /\ k - 1 \in 0 .. N
      OBVIOUS
    <2>4. 0 \in 0 .. N
      OBVIOUS
    <2> HIDE DEF w
    <2>5. QED
      BY <2>1, <2>2, <2>3, <2>4
  <1>8. w = [k \in 0 .. N |-> IF k = 0 THEN <<>> ELSE After(w[k - 1], k)]
    <2> HIDE DEF After
    <2>1. \A k \in 0 .. N : k # 0 => k \in 1 .. N
      OBVIOUS
    <2>2. w = [k \in 0 .. N |-> w[k]]
      OBVIOUS
    <2> HIDE DEF w
    <2>3. QED
      BY <1>7, <2>1, <2>2
  <1> HIDE DEF w
  <1>9. C = [k \in 0 .. N |-> IF k = 0 THEN <<>> ELSE After(C[k - 1], k)]
    BY <1>8, Zenon DEF C
  <1>10. C[0] = <<>> /\ \A k \in 1 .. N : C[k] = After(C[k - 1], k)
    <2> HIDE DEF After
    <2>1. \A k \in 0 .. N : C[k] = IF k = 0 THEN <<>> ELSE After(C[k - 1], k)
      BY <1>9, Zenon
    <2>2. \A k \in 1 .. N : k \in 0 .. N /\ k # 0
      OBVIOUS
    <2>3. QED
      BY <2>1, <2>2
  <1>11. QED
    BY <1>1, <1>10

(* OneByOne sends the lines one after the other. *)
LEMMA LineStages ==
    ASSUME NEW log, NEW b, Len(b) \in Nat
    PROVE  /\ OneByOne(log, b, 0) = log
           /\ \A k \in 1 .. Len(b) :
                 OneByOne(log, b, k) = OneAtATime(OneByOne(log, b, k - 1), b[k])
  <1> DEFINE N == Len(b)
             After(u, k) == OneAtATime(u, b[k])
             Upto(g, n) == g[0] = log /\ \A k \in 1 .. n : g[k] = After(g[k - 1], k)
             S == {n \in 0 .. N : \E g : Upto(g, n)}
             C == CHOOSE g : g = [k \in 0 .. N |->
                      IF k = 0 THEN log ELSE OneAtATime(g[k - 1], b[k])]
  <1>1. \A k : OneByOne(log, b, k) = C[k]
    BY DEF OneByOne
  <1> HIDE DEF C
  <1>2. \A g, n : n \in 0 .. N /\ Upto(g, n) /\ n < N => \E h : Upto(h, n + 1)
    <2> SUFFICES ASSUME NEW g, NEW n \in 0 .. N, Upto(g, n), n < N PROVE \E h : Upto(h, n + 1)
      OBVIOUS
    <2> DEFINE h == [k \in 0 .. N |-> IF k = n + 1 THEN After(g[n], n + 1) ELSE g[k]]
    <2> HIDE DEF After
    <2>1. h[0] = log /\ h[n + 1] = After(g[n], n + 1) /\ \A k \in 0 .. n : h[k] = g[k]
      OBVIOUS
    <2> HIDE DEF h
    <2>2. ASSUME NEW k \in 1 .. n + 1 PROVE h[k] = After(h[k - 1], k)
      <3>1. CASE k = n + 1
        <4>1. k - 1 = n /\ n \in 0 .. n
          BY <3>1
        <4>2. QED
          BY <2>1, <3>1, <4>1
      <3>2. CASE k # n + 1
        <4>1. k \in 1 .. n /\ k \in 0 .. n /\ k - 1 \in 0 .. n
          BY <3>2
        <4>2. QED
          BY <2>1, <4>1
      <3>3. QED
        BY <3>1, <3>2
    <2>3. QED
      BY <2>1, <2>2
  <1>3. 0 \in S
    <2>1. Upto([k \in 0 .. N |-> log], 0)
      OBVIOUS
    <2> HIDE DEF Upto
    <2>2. \E g : Upto(g, 0)
      BY <2>1
    <2>3. QED
      BY <2>2
  <1> HIDE DEF Upto
  <1>4. \A k \in 0 .. N : k \in S /\ k < N => k + 1 \in S
    BY <1>2
  <1> HIDE DEF S
  <1>5. N \in S
    <2>1. \A k \in 0 .. N : k \in S
      BY <1>3, <1>4, CountUp
    <2>2. QED
      BY <2>1
  <1>6. PICK g : Upto(g, N)
    BY <1>5 DEF S
  <1> DEFINE w == [k \in 0 .. N |-> g[k]]
  <1>7. w[0] = log /\ \A k \in 1 .. N : w[k] = After(w[k - 1], k)
    <2> HIDE DEF After
    <2>1. \A k \in 0 .. N : w[k] = g[k]
      OBVIOUS
    <2>2. g[0] = log /\ \A k \in 1 .. N : g[k] = After(g[k - 1], k)
      BY <1>6 DEF Upto
    <2>3. \A k \in 1 .. N : k \in 0 .. N /\ k - 1 \in 0 .. N
      OBVIOUS
    <2>4. 0 \in 0 .. N
      OBVIOUS
    <2> HIDE DEF w
    <2>5. QED
      BY <2>1, <2>2, <2>3, <2>4
  <1>8. w = [k \in 0 .. N |-> IF k = 0 THEN log ELSE After(w[k - 1], k)]
    <2> HIDE DEF After
    <2>1. \A k \in 0 .. N : k # 0 => k \in 1 .. N
      OBVIOUS
    <2>2. w = [k \in 0 .. N |-> w[k]]
      OBVIOUS
    <2> HIDE DEF w
    <2>3. QED
      BY <1>7, <2>1, <2>2
  <1> HIDE DEF w
  <1>9. C = [k \in 0 .. N |-> IF k = 0 THEN log ELSE After(C[k - 1], k)]
    BY <1>8, Zenon DEF C
  <1>10. C[0] = log /\ \A k \in 1 .. N : C[k] = After(C[k - 1], k)
    <2> HIDE DEF After
    <2>1. \A k \in 0 .. N : C[k] = IF k = 0 THEN log ELSE After(C[k - 1], k)
      BY <1>9, Zenon
    <2>2. \A k \in 1 .. N : k \in 0 .. N /\ k # 0
      OBVIOUS
    <2>3. QED
      BY <2>1, <2>2
  <1>11. QED
    BY <1>1, <1>10

(* What the log has of a row. *)
LogEntry == [item : Items, seq : Nat]

LEMMA EntryFacts ==
    ASSUME NEW r \in EventRow
    PROVE  Entry(r) \in LogEntry /\ Entry(r).item = r.item /\ Entry(r).seq = r.seq
  BY DEF Entry, EventRow, LogEntry

(* What a sequence holds after one more element. *)
LEMMA AppendHolds ==
    ASSUME NEW s \in Seq(LogEntry), NEW x \in LogEntry
    PROVE  /\ Append(s, x) \in Seq(LogEntry)
           /\ Len(Append(s, x)) = Len(s) + 1 /\ Append(s, x)[Len(s) + 1] = x
           /\ \A k \in 1 .. Len(s) : Append(s, x)[k] = s[k]
           /\ \A e : (\E k \in 1 .. Len(Append(s, x)) : Append(s, x)[k] = e)
                        <=> e = x \/ \E k \in 1 .. Len(s) : s[k] = e
  <1> DEFINE a == Append(s, x)
  <1>1. /\ a \in Seq(LogEntry) /\ Len(a) = Len(s) + 1 /\ a[Len(s) + 1] = x
        /\ \A k \in 1 .. Len(s) : a[k] = s[k]
    OBVIOUS
  <1>2. Len(s) \in Nat
    OBVIOUS
  <1> HIDE DEF a
  <1>3. 1 .. Len(a) = (1 .. Len(s)) \cup {Len(s) + 1}
    BY <1>1, <1>2
  <1>4. QED
    BY <1>1, <1>3 DEF a

LEMMA LogFacts ==
    ASSUME NEW R \in Seq(EventRow)
    PROVE  /\ LogOf(R) \in Seq(LogEntry)
           /\ \A e : (\E k \in 1 .. Len(LogOf(R)) : LogOf(R)[k] = e)
                        <=> \E d \in 1 .. Len(R) : R[d].live /\ Entry(R[d]) = e
  <1>1. Len(R) \in Nat /\ \A d \in 1 .. Len(R) : R[d] \in EventRow
    OBVIOUS
  <1>2. PICK log :
          /\ log[0] = <<>>
          /\ \A k \in 1 .. Len(R) :
                log[k] = IF R[k].live THEN Append(log[k - 1], Entry(R[k])) ELSE log[k - 1]
          /\ LogOf(R) = log[Len(R)]
    BY <1>1, LogStages
  <1> DEFINE Good(n) == /\ log[n] \in Seq(LogEntry)
                        /\ \A e : (\E k \in 1 .. Len(log[n]) : log[n][k] = e)
                                     <=> \E d \in 1 .. n : R[d].live /\ Entry(R[d]) = e
             S == {n \in 0 .. Len(R) : Good(n)}
  <1>3. Good(0)
    BY <1>2
  <1>4. ASSUME NEW n \in 0 .. Len(R), Good(n), n < Len(R) PROVE Good(n + 1)
    <2>1. n + 1 \in 1 .. Len(R) /\ (n + 1) - 1 = n /\ 1 .. n + 1 = (1 .. n) \cup {n + 1}
      BY <1>1, <1>4
    <2>2. R[n + 1] \in EventRow /\ Entry(R[n + 1]) \in LogEntry
      BY <1>1, <2>1, EntryFacts
    <2>3. log[n + 1] = IF R[n + 1].live THEN Append(log[n], Entry(R[n + 1])) ELSE log[n]
      BY <1>2, <2>1
    <2>4. CASE R[n + 1].live
      <3> DEFINE s == log[n]
                 x == Entry(R[n + 1])
      <3>1. s \in Seq(LogEntry)
        BY <1>4
      <3>2. log[n + 1] = Append(s, x)
        BY <2>3, <2>4
      <3>3. x \in LogEntry
        BY <2>2
      <3> HIDE DEF s, x
      <3>4. /\ log[n + 1] \in Seq(LogEntry)
            /\ \A e : (\E k \in 1 .. Len(log[n + 1]) : log[n + 1][k] = e)
                         <=> e = x \/ \E k \in 1 .. Len(s) : s[k] = e
        BY <3>1, <3>2, <3>3, AppendHolds
      <3>5. \A e : (\E d \in 1 .. n + 1 : R[d].live /\ Entry(R[d]) = e)
                      <=> e = x \/ \E d \in 1 .. n : R[d].live /\ Entry(R[d]) = e
        BY <2>1, <2>4 DEF x
      <3>6. \A e : (\E k \in 1 .. Len(s) : s[k] = e)
                      <=> \E d \in 1 .. n : R[d].live /\ Entry(R[d]) = e
        BY <1>4 DEF s
      <3>7. QED
        BY <3>4, <3>5, <3>6
    <2>5. CASE ~R[n + 1].live
      <3>1. log[n + 1] = log[n]
        BY <2>3, <2>5
      <3>2. \A e : (\E d \in 1 .. n + 1 : R[d].live /\ Entry(R[d]) = e)
                      <=> \E d \in 1 .. n : R[d].live /\ Entry(R[d]) = e
        BY <2>1, <2>5
      <3>3. QED
        BY <1>4, <3>1, <3>2
    <2>6. QED
      BY <2>4, <2>5
  <1> HIDE DEF Good
  <1>5. 0 \in S /\ \A k \in 0 .. Len(R) : k \in S /\ k < Len(R) => k + 1 \in S
    BY <1>1, <1>3, <1>4
  <1>6. Good(Len(R))
    <2> HIDE DEF S
    <2>1. \A k \in 0 .. Len(R) : k \in S
      BY <1>1, <1>5, CountUp
    <2>2. Len(R) \in S
      BY <1>1, <2>1
    <2>3. QED
      BY <2>2 DEF S
  <1>7. QED
    BY <1>2, <1>6 DEF Good

LEMMA LogAppend ==
    ASSUME NEW R \in Seq(EventRow), NEW row \in EventRow
    PROVE  LogOf(Append(R, row)) = IF row.live THEN Append(LogOf(R), Entry(row)) ELSE LogOf(R)
  <1> DEFINE Q == Append(R, row)
             n == Len(R)
  <1>1. /\ n \in Nat /\ Len(Q) = n + 1 /\ Q[n + 1] = row
        /\ \A d \in 1 .. n : Q[d] = R[d]
    OBVIOUS
  <1>2. PICK log :
          /\ log[0] = <<>>
          /\ \A k \in 1 .. n :
                log[k] = IF R[k].live THEN Append(log[k - 1], Entry(R[k])) ELSE log[k - 1]
          /\ LogOf(R) = log[n]
    BY <1>1, LogStages
  <1> HIDE DEF Q, n
  <1>11. Len(Q) \in Nat
    BY <1>1
  <1>3. PICK new :
          /\ new[0] = <<>>
          /\ \A k \in 1 .. Len(Q) :
                new[k] = IF Q[k].live THEN Append(new[k - 1], Entry(Q[k])) ELSE new[k - 1]
          /\ LogOf(Q) = new[Len(Q)]
    BY <1>11, LogStages
  <1> DEFINE S == {k \in 0 .. n : new[k] = log[k]}
  <1>4. 0 \in S
    BY <1>1, <1>2, <1>3
  <1>5. ASSUME NEW k \in 0 .. n, k \in S, k < n PROVE k + 1 \in S
    <2>1. k + 1 \in 1 .. n /\ k + 1 \in 1 .. Len(Q) /\ (k + 1) - 1 = k /\ k + 1 \in 0 .. n
      BY <1>1, <1>5
    <2>2. new[k] = log[k] /\ Q[k + 1] = R[k + 1]
      BY <1>1, <1>5, <2>1
    <2>3. new[k + 1] = log[k + 1]
      BY <1>2, <1>3, <2>1, <2>2
    <2>4. QED
      BY <2>1, <2>3
  <1> HIDE DEF S
  <1>6. n \in S
    <2>1. \A k \in 0 .. n : k \in S
      BY <1>1, <1>4, <1>5, CountUp
    <2>2. QED
      BY <1>1, <2>1
  <1>7. new[n] = LogOf(R)
    BY <1>2, <1>6 DEF S
  <1>8. n + 1 \in 1 .. Len(Q) /\ (n + 1) - 1 = n
    BY <1>1
  <1>9. LogOf(Q) = IF row.live THEN Append(new[n], Entry(row)) ELSE new[n]
    BY <1>1, <1>3, <1>8
  <1>10. QED
    BY <1>7, <1>9 DEF Q

(* The highest number of a source in the log. *)
Numbers(log, src) == {log[k].seq : k \in {j \in DOMAIN log : Source[log[j].item] = src}}
Top(log, src) == Max({0} \cup Numbers(log, src))

HasItem(log, i) == \E k \in 1 .. Len(log) : log[k].item = i
HasLive(R, i) == \E d \in 1 .. Len(R) : R[d].live /\ R[d].item = i

LEMMA LogOwn ==
    ASSUME NEW log \in Seq(LogEntry)
    PROVE  /\ Len(log) \in Nat /\ DOMAIN log = 1 .. Len(log)
           /\ \A k \in 1 .. Len(log) : log[k] \in LogEntry /\ log[k].item \in Items /\ log[k].seq \in Nat
  <1>1. Len(log) \in Nat /\ DOMAIN log = 1 .. Len(log) /\ \A k \in 1 .. Len(log) : log[k] \in LogEntry
    OBVIOUS
  <1>2. QED
    BY <1>1 DEF LogEntry

LEMMA TopFacts ==
    ASSUME NEW log \in Seq(LogEntry), NEW src
    PROVE  /\ Top(log, src) \in {0} \cup Numbers(log, src)
           /\ Top(log, src) \in Nat
           /\ \A n \in {0} \cup Numbers(log, src) : n \in Nat /\ n <= Top(log, src)
  <1> DEFINE D == {j \in DOMAIN log : Source[log[j].item] = src}
             seq == [k \in DOMAIN log |-> log[k].seq]
             S == {seq[k] : k \in D}
             T == {0} \cup Numbers(log, src)
  <1>1. Len(log) \in Nat /\ DOMAIN log = 1 .. Len(log) /\ \A k \in 1 .. Len(log) : log[k].seq \in Nat
    BY LogOwn
  <1>2. D \in SUBSET (1 .. Len(log)) /\ S = Numbers(log, src) /\ S \subseteq Nat
    BY <1>1 DEF Numbers
  <1>3. IsFiniteSet(S)
    <2> HIDE DEF D, seq
    <2>1. QED
      BY <1>1, <1>2, ValuesOfRows
  <1> HIDE DEF S
  <1>4. IsFiniteSet(T) /\ T \in SUBSET Nat /\ T # {}
    <2>1. IsFiniteSet({0} \cup S)
      BY <1>3, FS_Singleton, FS_Union
    <2>2. QED
      BY <1>2, <2>1
  <1> HIDE DEF T
  <1>5. Max(T) \in T /\ \A n \in T : n <= Max(T)
    BY <1>4, FiniteSetHasMax
  <1> HIDE DEF Max
  <1>6. T = {0} \cup Numbers(log, src)
    BY DEF T
  <1>7. Top(log, src) = Max(T)
    BY <1>6 DEF Top
  <1>8. QED
    BY <1>4, <1>5, <1>6, <1>7

(* An appended entry of the source, one above the highest, is the highest. *)
LEMMA TopAppend ==
    ASSUME NEW log \in Seq(LogEntry), NEW i \in Items,
           NEW x \in LogEntry, x.item = i, x.seq = Top(log, Source[i]) + 1
    PROVE  Top(Append(log, x), Source[i]) = x.seq
  <1> DEFINE src == Source[i]
             new == Append(log, x)
             n == Len(log)
  <1>1. /\ new \in Seq(LogEntry) /\ Len(new) = n + 1 /\ new[n + 1] = x
        /\ \A k \in 1 .. n : new[k] = log[k]
    BY AppendHolds
  <1>2. n \in Nat /\ DOMAIN log = 1 .. n /\ DOMAIN new = (1 .. n) \cup {n + 1}
    <2>1. DOMAIN new = 1 .. Len(new)
      BY <1>1, LogOwn
    <2>2. n \in Nat /\ DOMAIN log = 1 .. n
      BY LogOwn
    <2> HIDE DEF n, new
    <2>3. QED
      BY <1>1, <2>1, <2>2
  <1> HIDE DEF new, n
  <1>3. Numbers(new, src) = Numbers(log, src) \cup {x.seq}
    BY <1>1, <1>2 DEF Numbers
  <1> HIDE DEF src
  <1>4. /\ Top(new, src) \in {0} \cup Numbers(new, src) /\ Top(new, src) \in Nat
        /\ \A m \in {0} \cup Numbers(new, src) : m \in Nat /\ m <= Top(new, src)
    BY <1>1, TopFacts
  <1>5. Top(log, src) \in Nat /\ \A m \in {0} \cup Numbers(log, src) : m \in Nat /\ m <= Top(log, src)
    BY TopFacts
  <1>6. x.seq = Top(log, src) + 1
    BY DEF src
  <1> HIDE DEF Top
  <1>7. Top(new, src) = x.seq
    BY <1>3, <1>4, <1>5, <1>6
  <1>8. QED
    BY <1>7 DEF new, src

(* Payloads that live rows have are those in the log. *)
LEMMA LogItems ==
    ASSUME NEW R \in Seq(EventRow), NEW i
    PROVE  HasItem(LogOf(R), i) <=> HasLive(R, i)
  <1>1. \A e : (\E k \in 1 .. Len(LogOf(R)) : LogOf(R)[k] = e)
                  <=> \E d \in 1 .. Len(R) : R[d].live /\ Entry(R[d]) = e
    BY LogFacts
  <1>2. \A d \in 1 .. Len(R) : Entry(R[d]).item = R[d].item
    <2>1. \A d \in 1 .. Len(R) : R[d] \in EventRow
      OBVIOUS
    <2>2. QED
      BY <2>1, EntryFacts
  <1>3. ASSUME HasItem(LogOf(R), i) PROVE HasLive(R, i)
    <2>1. PICK k \in 1 .. Len(LogOf(R)) : LogOf(R)[k].item = i
      BY <1>3 DEF HasItem
    <2>2. PICK d \in 1 .. Len(R) : R[d].live /\ Entry(R[d]) = LogOf(R)[k]
      BY <1>1
    <2>3. QED
      BY <1>2, <2>1, <2>2 DEF HasLive
  <1>4. ASSUME HasLive(R, i) PROVE HasItem(LogOf(R), i)
    <2>1. PICK d \in 1 .. Len(R) : R[d].live /\ R[d].item = i
      BY <1>4 DEF HasLive
    <2>2. PICK k \in 1 .. Len(LogOf(R)) : LogOf(R)[k] = Entry(R[d])
      BY <1>1, <2>1
    <2>3. QED
      BY <1>2, <2>1, <2>2 DEF HasItem
  <1>5. QED
    BY <1>3, <1>4

(* The number a batch starts from is the highest in the log. *)
LEMMA TopIsMaxSeq ==
    ASSUME TypeInv, NEW src, src # NoSource
    PROVE  _max_source_seq(src) = Top(LogOf(rows), src)
  <1> DEFINE log == LogOf(rows)
             old == {rows[d].seq : d \in {c \in Live : Source[rows[c].item] = src}}
  <1>1. rows \in Seq(EventRow) /\ RowIds = 1 .. Len(rows) /\ \A d \in RowIds : rows[d] \in EventRow
    BY TypeFacts
  <1>2. /\ log \in Seq(LogEntry)
        /\ \A e : (\E k \in 1 .. Len(log) : log[k] = e)
                     <=> \E d \in 1 .. Len(rows) : rows[d].live /\ Entry(rows[d]) = e
    BY <1>1, LogFacts
  <1>3. DOMAIN log = 1 .. Len(log)
    BY <1>2, LogOwn
  <1>4. \A d \in RowIds : Entry(rows[d]).item = rows[d].item /\ Entry(rows[d]).seq = rows[d].seq
    BY <1>1, EntryFacts
  <1> HIDE DEF log
  <1>5. ASSUME NEW n \in old PROVE n \in Numbers(log, src)
    <2>1. PICK d \in RowIds : rows[d].live /\ Source[rows[d].item] = src /\ n = rows[d].seq
      BY DEF Live
    <2>2. PICK k \in 1 .. Len(log) : log[k] = Entry(rows[d])
      BY <1>1, <1>2, <2>1
    <2>3. QED
      BY <1>3, <1>4, <2>1, <2>2 DEF Numbers
  <1>6. ASSUME NEW n \in Numbers(log, src) PROVE n \in old
    <2>1. PICK k \in 1 .. Len(log) : Source[log[k].item] = src /\ n = log[k].seq
      BY <1>3 DEF Numbers
    <2>2. PICK d \in 1 .. Len(rows) : rows[d].live /\ Entry(rows[d]) = log[k]
      BY <1>2
    <2>3. d \in Live /\ Source[rows[d].item] = src /\ n = rows[d].seq
      BY <1>1, <1>4, <2>1, <2>2 DEF Live
    <2>4. QED
      BY <2>3
  <1>7. old = Numbers(log, src)
    BY <1>5, <1>6
  <1>8. _max_source_seq(src) = Max({0} \cup old)
    BY DEF _max_source_seq
  <1> HIDE DEF old
  <1>9. QED
    BY <1>7, <1>8 DEF Top, log

LEMMA NextLine ==
    ASSUME NEW log, NEW b, Len(b) \in Nat, NEW k \in 1 .. Len(b)
    PROVE  OneByOne(log, b, k) = OneAtATime(OneByOne(log, b, k - 1), b[k])
  BY LineStages

LEMMA SameHaves ==
    ASSUME NEW log \in Seq(LogEntry), NEW other \in Seq(LogEntry), SameItems(log, other), NEW i
    PROVE  HasItem(log, i) <=> HasItem(other, i)
  <1>1. DOMAIN log = 1 .. Len(log) /\ Len(log) = Len(other)
    BY LogOwn DEF SameItems
  <1>2. QED
    BY <1>1 DEF SameItems, HasItem

(* A payload that is there, or that the engine fails on, changes nothing. *)
LEMMA AloneKeeps ==
    ASSUME NEW log \in Seq(LogEntry), NEW i, HasItem(log, i) \/ Outcome[i] = "broken"
    PROVE  OneAtATime(log, i) = log
  <1>1. HasItem(log, i) <=> \E k \in DOMAIN log : log[k].item = i
    BY LogOwn DEF HasItem
  <1>2. QED
    BY <1>1 DEF OneAtATime

LEMMA AloneAppends ==
    ASSUME NEW log \in Seq(LogEntry), NEW i \in Items, ~HasItem(log, i), Outcome[i] # "broken"
    PROVE  LET x == [item |-> i, seq |-> Numbered(Source[i], Top(log, Source[i]))]
           IN  OneAtATime(log, i) = Append(log, x) /\ x \in LogEntry
  <1> DEFINE n == Numbered(Source[i], Top(log, Source[i]))
             x == [item |-> i, seq |-> n]
  <1>1. HasItem(log, i) <=> \E k \in DOMAIN log : log[k].item = i
    BY LogOwn DEF HasItem
  <1>2. OneAtATime(log, i) = Append(log, x)
    <2> HIDE DEF Max
    <2>1. n = Numbered(Source[i], Max({0} \cup {log[k].seq : k \in {j \in DOMAIN log : Source[log[j].item] = Source[i]}}))
      BY DEF Top, Numbers
    <2>2. QED
      BY <1>1, <2>1 DEF OneAtATime
  <1>3. n \in Nat
    <2>1. Top(log, Source[i]) \in Nat
      BY TopFacts
    <2> HIDE DEF Top
    <2>2. QED
      BY <2>1 DEF Numbered
  <1>4. x \in LogEntry
    <2> HIDE DEF n
    <2>1. QED
      BY <1>3 DEF LogEntry
  <1>5. QED
    BY <1>2, <1>4

LEMMA AloneType ==
    ASSUME NEW log \in Seq(LogEntry), NEW i \in Items
    PROVE  OneAtATime(log, i) \in Seq(LogEntry)
  <1>1. CASE HasItem(log, i) \/ Outcome[i] = "broken"
    BY <1>1, AloneKeeps
  <1>2. CASE ~HasItem(log, i) /\ Outcome[i] # "broken"
    <2> DEFINE x == [item |-> i, seq |-> Numbered(Source[i], Top(log, Source[i]))]
    <2>1. OneAtATime(log, i) = Append(log, x) /\ x \in LogEntry
      BY <1>2, AloneAppends
    <2> HIDE DEF x
    <2>2. QED
      BY <2>1
  <1>3. QED
    BY <1>1, <1>2

LEMMA BothAppend ==
    ASSUME NEW log \in Seq(LogEntry), NEW other \in Seq(LogEntry), SameItems(log, other),
           NEW x \in LogEntry, NEW y \in LogEntry, x.item = y.item
    PROVE  SameItems(Append(log, x), Append(other, y))
  <1> DEFINE a == Append(log, x)
             b == Append(other, y)
             n == Len(log)
  <1>1. n \in Nat /\ Len(other) = n /\ \A k \in 1 .. n : log[k].item = other[k].item
    BY LogOwn DEF SameItems
  <1>2. /\ a \in Seq(LogEntry) /\ Len(a) = n + 1 /\ a[n + 1] = x
        /\ \A k \in 1 .. n : a[k] = log[k]
    BY AppendHolds
  <1>3. /\ Len(b) = n + 1 /\ b[n + 1] = y
        /\ \A k \in 1 .. n : b[k] = other[k]
    BY <1>1, AppendHolds
  <1>4. DOMAIN a = 1 .. Len(a)
    BY <1>2, LogOwn
  <1> HIDE DEF a, b, n
  <1>5. DOMAIN a = (1 .. n) \cup {n + 1}
    BY <1>1, <1>2, <1>4
  <1>6. SameItems(a, b)
    BY <1>1, <1>2, <1>3, <1>5 DEF SameItems
  <1>7. QED
    BY <1>6 DEF a, b

(* A batch at work: what is stored and kept back is what its first lines,  *)
(* one at a time, would have made of the log it began with; its numbers go *)
(* on from the highest; and it knows which of its lines are replays.       *)
Done(r) == Len(r.batch) - Len(r.lines)
AloneLog(r) == OneByOne(r.before, r.batch, Done(r))
Begun(R, r) == LogOf(R \o r.pending)

LineLog(R, r) ==
    /\ Len(r.lines) <= Len(r.batch)
    /\ \A j \in 1 .. Len(r.lines) : r.lines[j] = r.batch[Done(r) + j]
    /\ AloneLog(r) \in Seq(LogEntry) /\ SameItems(Begun(R, r), AloneLog(r))
    /\ Taken(r.batch) => Begun(R, r) = AloneLog(r)
    /\ r.pc \in {"lines", "checkpoint"} /\ Taken(r.batch) /\ Source[r.batch[1]] # NoSource
          => r.seq = Top(Begun(R, r), Source[r.batch[1]])
    /\ \A i \in Items : r.first[i] # 0 => HasLive(R \o r.pending, i)
    /\ r.pc # "prefetch" =>
          \A j \in 1 .. Len(r.lines) : HasLive(R \o r.pending, r.lines[j]) =>
              r.first[r.lines[j]] # 0 \/ (r.lines[j] \in r.known /\ HasLive(R, r.lines[j]))

LineInv == Alone => \A t \in Threads : th[t].pc \in BatchSteps => LineLog(rows, th[t])

LEMMA SequenceFacts ==
    ASSUME NEW s \in Seq(Items), s # <<>>
    PROVE  /\ Len(s) \in Nat /\ Len(s) >= 1 /\ Head(s) = s[1] /\ Head(s) \in Items
           /\ Tail(s) \in Seq(Items) /\ Len(Tail(s)) = Len(s) - 1
           /\ \A j \in 1 .. Len(Tail(s)) : j + 1 \in 1 .. Len(s) /\ Tail(s)[j] = s[j + 1]
  <1>1. Len(s) \in Nat /\ Len(s) >= 1 /\ Head(s) = s[1] /\ Head(s) \in Items
    OBVIOUS
  <1>2. Tail(s) \in Seq(Items) /\ Len(Tail(s)) = Len(s) - 1 /\ \A j \in 1 .. Len(s) - 1 : Tail(s)[j] = s[j + 1]
    OBVIOUS
  <1> DEFINE u == Tail(s)
  <1>3. u \in Seq(Items) /\ Len(u) = Len(s) - 1 /\ \A j \in 1 .. Len(s) - 1 : u[j] = s[j + 1]
    BY <1>2
  <1> HIDE DEF u
  <1>4. \A j \in 1 .. Len(u) : j + 1 \in 1 .. Len(s) /\ u[j] = s[j + 1]
    BY <1>1, <1>3
  <1>5. QED
    BY <1>1, <1>3, <1>4 DEF u

LEMMA AfterLineRest ==
    ASSUME NEW r, r \in Thread(r.before), r.lines # <<>>
    PROVE  AfterLine(r).before = r.before /\ AfterLine(r).known = r.known
  BY DEF AfterLine, Thread

(* One line further. *)
LEMMA LineMoves ==
    ASSUME TypeInv, NEW t \in Threads, th[t].pc = "lines", th[t].lines # <<>>, LineLog(rows, th[t]),
           NEW r, r \in Thread(r.before),
           r.lines = th[t].lines, r.batch = th[t].batch, r.before = th[t].before, r.known = th[t].known,
           LET i == Head(th[t].lines)
               next == OneAtATime(AloneLog(th[t]), i)
           IN  /\ SameItems(Begun(rows, r), next)
               /\ Taken(r.batch) => Begun(rows, r) = next
               /\ Taken(r.batch) /\ Source[r.batch[1]] # NoSource
                     => r.seq = Top(Begun(rows, r), Source[r.batch[1]]),
           \A k \in Items : r.first[k] # 0 => HasLive(rows \o r.pending, k),
           \A k \in Items : HasLive(rows \o r.pending, k) =>
              HasLive(rows \o th[t].pending, k) \/ r.first[k] # 0,
           \A k \in Items : th[t].first[k] # 0 => r.first[k] # 0
    PROVE  LineLog(rows, AfterLine(r))
  <1> DEFINE q == AfterLine(r)
             s == th[t].lines
             b == th[t].batch
             n == Done(th[t])
             i == Head(s)
             rest == Tail(s)
  <1>1. /\ q.pc \in {"lines", "checkpoint"} /\ q.pending = r.pending /\ q.first = r.first
        /\ q.seq = r.seq /\ q.batch = b /\ q.lines = rest
        /\ q.before = th[t].before /\ q.known = th[t].known
    BY AfterLineFacts, AfterLineKeeps, AfterLineRest
  <1>2. /\ s \in Seq(Items) /\ b \in Seq(Items) /\ s # <<>>
    BY ThreadFacts DEF Thread
  <1>3. Len(b) \in Nat /\ n = Len(b) - Len(s)
    BY <1>2 DEF Done
  <1>4. /\ Len(s) \in Nat /\ Len(s) >= 1 /\ i = s[1] /\ i \in Items
        /\ Len(rest) = Len(s) - 1
        /\ \A j \in 1 .. Len(rest) : j + 1 \in 1 .. Len(s) /\ rest[j] = s[j + 1]
    BY <1>2, SequenceFacts
  <1>5. /\ Len(s) <= Len(b) /\ \A j \in 1 .. Len(s) : s[j] = b[n + j]
        /\ AloneLog(th[t]) \in Seq(LogEntry)
        /\ \A j \in 1 .. Len(s) : HasLive(rows \o th[t].pending, s[j]) =>
              th[t].first[s[j]] # 0 \/ (s[j] \in th[t].known /\ HasLive(rows, s[j]))
    BY DEF LineLog
  <1>6. Begun(rows, q) = Begun(rows, r)
    BY <1>1 DEF Begun
  <1>13. AloneLog(th[t]) = OneByOne(th[t].before, b, n) /\ Done(q) = Len(q.batch) - Len(q.lines)
    BY DEF AloneLog, Done
  <1>14. r.batch = b /\ i = Head(th[t].lines)
    OBVIOUS
  <1> HIDE DEF q, s, b, n, i, rest
  <1>7. Done(q) = n + 1
    BY <1>1, <1>3, <1>4, <1>13
  <1>8. AloneLog(q) = OneAtATime(AloneLog(th[t]), i)
    <2>1. AloneLog(q) = OneByOne(th[t].before, b, n + 1)
      BY <1>1, <1>7 DEF AloneLog
    <2>2. n + 1 \in 1 .. Len(b) /\ (n + 1) - 1 = n
      BY <1>3, <1>4, <1>5
    <2>3. b[n + 1] = i
      BY <1>3, <1>4, <1>5
    <2>4. OneByOne(th[t].before, b, n + 1) = OneAtATime(OneByOne(th[t].before, b, (n + 1) - 1), b[n + 1])
      BY <1>3, <2>2, NextLine
    <2>5. QED
      BY <1>13, <2>1, <2>2, <2>3, <2>4
  <1>9. AloneLog(q) \in Seq(LogEntry)
    BY <1>4, <1>5, <1>8, AloneType
  <1>10. Len(q.lines) <= Len(q.batch)
    BY <1>1, <1>3, <1>4, <1>5
  <1>11. ASSUME NEW j \in 1 .. Len(q.lines)
         PROVE  /\ q.lines[j] = q.batch[Done(q) + j] /\ q.lines[j] \in Items
                /\ HasLive(rows \o q.pending, q.lines[j]) =>
                      q.first[q.lines[j]] # 0 \/ (q.lines[j] \in q.known /\ HasLive(rows, q.lines[j]))
    <2>1. j + 1 \in 1 .. Len(s) /\ q.lines[j] = s[j + 1] /\ j \in Nat
      BY <1>1, <1>4
    <2>2. n + (j + 1) = Done(q) + j
      BY <1>3, <1>4, <1>7, <2>1
    <2>3. s[j + 1] \in Items
      BY <1>2, <2>1
    <2>4. QED
      BY <1>1, <1>5, <2>1, <2>2, <2>3
  <1>12. QED
    <2>1. \A j \in 1 .. Len(q.lines) : q.lines[j] = q.batch[Done(q) + j]
      BY <1>11
    <2>2. SameItems(Begun(rows, q), AloneLog(q)) /\ (Taken(q.batch) => Begun(rows, q) = AloneLog(q))
      BY <1>1, <1>6, <1>8, <1>14
    <2>3. Taken(q.batch) /\ Source[q.batch[1]] # NoSource => q.seq = Top(Begun(rows, q), Source[q.batch[1]])
      BY <1>1, <1>6, <1>14
    <2>4. \A k \in Items : q.first[k] # 0 => HasLive(rows \o q.pending, k)
      BY <1>1
    <2>5. \A j \in 1 .. Len(q.lines) : HasLive(rows \o q.pending, q.lines[j]) =>
              q.first[q.lines[j]] # 0 \/ (q.lines[j] \in q.known /\ HasLive(rows, q.lines[j]))
      BY <1>11
    <2>6. LineLog(rows, q)
      BY <1>9, <1>10, <2>1, <2>2, <2>3, <2>4, <2>5 DEF LineLog
    <2>7. QED
      BY <2>6 DEF q

LEMMA MoveLines ==
    ASSUME TypeInv, LineInv, NEW t \in Threads, NEW r, Become(t, r),
           th[t].pc # "absent", r.pc # "absent",
           Alone /\ r.pc \in BatchSteps => LineLog(rows', r)
    PROVE  LineInv'
  <1> SUFFICES ASSUME Alone', NEW u \in Threads, th'[u].pc \in BatchSteps PROVE LineLog(rows', th'[u])
    BY DEF LineInv
  <1>1. /\ Alone /\ th'[t] = r
        /\ \A v \in Threads : v # t => th[v].pc = "absent" /\ th'[v] = th[v]
    BY SoloFacts
  <1>2. u = t
    BY <1>1 DEF BatchSteps
  <1>3. QED
    BY <1>1, <1>2

(* A step that is not, or no longer, one of a batch. *)
LEMMA OtherLines ==
    ASSUME TypeInv, LineInv, NEW t \in Threads,
           \/ FindDuplicate(t) \/ SaveRaw(t) \/ StoreRow(t) \/ _deliver(t) \/ FinishBatch(t)
           \/ UnlinkRaw(t) \/ PurgeRows(t) \/ Fail(t)
    PROVE  LineInv'
  <1>1. ASSUME NEW r, Become(t, r), th[t].pc # "absent", r.pc \notin BatchSteps \cup {"absent"}
        PROVE  LineInv'
    BY <1>1, MoveLines
  <1>2. Idle.pc \notin BatchSteps \cup {"absent"}
    BY IdleFacts DEF BatchSteps
  <1>3. ASSUME NEW pc \in {"save", "deliver"} PROVE [th[t] EXCEPT !.pc = pc].pc = pc
    BY ThreadFacts DEF Thread
  <1>4. CASE FindDuplicate(t)
    <2> DEFINE r == [th[t] EXCEPT !.pc = "save"]
    <2>1. th[t].pc # "absent" /\ (Become(t, r) \/ Become(t, Idle))
      BY <1>4 DEF FindDuplicate
    <2>2. r.pc \notin BatchSteps \cup {"absent"}
      BY <1>3 DEF BatchSteps
    <2> HIDE DEF r
    <2>3. QED
      BY <1>1, <1>2, <2>1, <2>2
  <1>5. CASE SaveRaw(t)
    <2> DEFINE r == [th[t] EXCEPT !.pc = "insert", !.ref = nextRef + 1,
                       !.seq = Numbered(Source[Head(th[t].lines)], _max_source_seq(Source[Head(th[t].lines)]))]
    <2>1. th[t].pc # "absent" /\ Become(t, r)
      BY <1>5 DEF SaveRaw
    <2>2. r.pc = "insert"
      BY ThreadFacts DEF Thread
    <2> HIDE DEF r
    <2>3. QED
      BY <1>1, <2>1, <2>2 DEF BatchSteps
  <1>6. CASE StoreRow(t)
    <2> DEFINE r == [th[t] EXCEPT !.pc = "deliver"]
    <2>1. th[t].pc # "absent" /\ (Become(t, r) \/ Become(t, Idle))
      BY <1>6 DEF StoreRow
    <2>2. r.pc \notin BatchSteps \cup {"absent"}
      BY <1>3 DEF BatchSteps
    <2> HIDE DEF r
    <2>3. QED
      BY <1>1, <1>2, <2>1, <2>2
  <1>7. CASE _deliver(t) \/ FinishBatch(t) \/ PurgeRows(t) \/ Fail(t)
    <2>1. th[t].pc # "absent" /\ Become(t, Idle)
      BY <1>7 DEF _deliver, FinishBatch, PurgeRows, Fail
    <2>2. QED
      BY <1>1, <1>2, <2>1
  <1>8. CASE UnlinkRaw(t)
    <2>1. PICK d \in th[t].todo :
            Become(t, [th[t] EXCEPT !.todo = @ \ {d},
                         !.pc = IF th[t].todo = {d} THEN "purge" ELSE "unlink"])
      BY <1>8 DEF UnlinkRaw
    <2> DEFINE r == [th[t] EXCEPT !.todo = @ \ {d},
                         !.pc = IF th[t].todo = {d} THEN "purge" ELSE "unlink"]
    <2>2. r.pc \in {"purge", "unlink"}
      BY ThreadFacts DEF Thread
    <2>3. Become(t, r) /\ th[t].pc # "absent"
      BY <1>8, <2>1 DEF UnlinkRaw
    <2> HIDE DEF r
    <2>4. QED
      BY <1>1, <2>2, <2>3 DEF BatchSteps
  <1>9. QED
    BY <1>4, <1>5, <1>6, <1>7, <1>8

LEMMA SameItself == ASSUME NEW log \in Seq(LogEntry) PROVE SameItems(log, log)
  BY DEF SameItems

LEMMA BeginLines == ASSUME TypeInv, LineInv, NEW t \in Threads, Begin(t) PROVE LineInv'
  <1>1. ASSUME NEW i \in Items, process_payload(t, i) PROVE LineInv'
    <2> DEFINE r == [Idle EXCEPT !.pc = "find", !.op = "single", !.lines = <<i>>]
    <2>1. Become(t, r) /\ r.pc = "find" /\ th[t].pc # "absent"
      BY <1>1 DEF process_payload, Idle
    <2> HIDE DEF r
    <2>2. QED
      BY <2>1, MoveLines DEF BatchSteps
  <1>2. ASSUME NEW D, NEW op, SelectRows(t, D, op) PROVE LineInv'
    <2> DEFINE W == {d \in D : rows[d].raw}
               r == [Idle EXCEPT !.pc = IF W = {} THEN "purge" ELSE "unlink",
                                 !.op = op, !.todo = W, !.purged = D]
    <2>1. Become(t, r) /\ r.pc \in {"purge", "unlink"} /\ th[t].pc # "absent"
      BY <1>2 DEF SelectRows, Idle
    <2> HIDE DEF r
    <2>2. QED
      BY <2>1, MoveLines DEF BatchSteps
  <1>3. ASSUME NEW b \in Batches, process_lines(t, b) PROVE LineInv'
    <2> DEFINE r == [Idle EXCEPT !.pc = "prefetch", !.op = "batch", !.lines = b,
                                 !.batch = b, !.before = LogOf(rows)]
    <2>1. /\ Become(t, r) /\ th[t].pc # "absent" /\ rows' = rows
          /\ r.pc = "prefetch" /\ r.lines = b /\ r.batch = b /\ r.before = LogOf(rows)
          /\ r.pending = <<>> /\ r.first = [i \in Items |-> 0]
      BY <1>3 DEF process_lines, Idle
    <2> HIDE DEF r
    <2>2. Len(b) \in Nat /\ rows \in Seq(EventRow) /\ LogOf(rows) \in Seq(LogEntry)
      <3>1. b \in Seq(Items) /\ rows \in Seq(EventRow)
        BY BatchAssumption, TypeFacts
      <3>2. QED
        BY <3>1, LogFacts
    <2>3. Done(r) = 0 /\ \A j \in 1 .. Len(b) : Done(r) + j = j
      BY <2>1, <2>2 DEF Done
    <2>4. AloneLog(r) = LogOf(rows)
      <3>1. OneByOne(LogOf(rows), b, 0) = LogOf(rows)
        BY <2>2, LineStages
      <3>2. QED
        BY <2>1, <2>3, <3>1 DEF AloneLog
    <2>5. Begun(rows, r) = LogOf(rows)
      BY <2>1, <2>2, EmptyTail DEF Begun
    <2>6. SameItems(LogOf(rows), LogOf(rows))
      BY <2>2, SameItself
    <2>7. /\ Len(r.lines) <= Len(r.batch)
          /\ \A j \in 1 .. Len(r.lines) : r.lines[j] = r.batch[Done(r) + j]
          /\ \A i \in Items : r.first[i] = 0
      BY <2>1, <2>2, <2>3
    <2>8. LineLog(rows, r)
      BY <2>1, <2>2, <2>4, <2>5, <2>6, <2>7 DEF LineLog
    <2>9. QED
      BY <2>1, <2>8, MoveLines
  <1>4. QED
    BY <1>1, <1>2, <1>3 DEF Begin, delete_events, strip_raw

(* A step that leaves the lines, what is kept back and what was stored. *)
LEMMA StayLines ==
    ASSUME TypeInv, NEW t \in Threads, LineLog(rows, th[t]), NEW r,
           r.lines = th[t].lines, r.batch = th[t].batch, r.before = th[t].before,
           r.pending = th[t].pending, r.first = th[t].first,
           r.pc \in {"lines", "checkpoint"} /\ Taken(r.batch) /\ Source[r.batch[1]] # NoSource
              => r.seq = Top(Begun(rows, r), Source[r.batch[1]]),
           r.pc # "prefetch" =>
              \A j \in 1 .. Len(r.lines) : HasLive(rows \o r.pending, r.lines[j]) =>
                  r.first[r.lines[j]] # 0 \/ (r.lines[j] \in r.known /\ HasLive(rows, r.lines[j]))
    PROVE  LineLog(rows, r)
  <1>1. /\ Done(r) = Done(th[t]) /\ AloneLog(r) = AloneLog(th[t]) /\ Begun(rows, r) = Begun(rows, th[t])
    BY DEF Done, AloneLog, Begun
  <1>2. QED
    BY <1>1 DEF LineLog

LEMMA FoundIsLive ==
    ASSUME TypeInv, NEW i PROVE _find_duplicate(i) # {} <=> HasLive(rows, i)
  BY DEF _find_duplicate, Live, RowIds, HasLive

LEMMA PrefetchLines == ASSUME TypeInv, LineInv, NEW t \in Threads, prefetch_hashes(t) PROVE LineInv'
  <1> DEFINE known == {i \in Range(th[t].lines) : _find_duplicate(i) # {}}
             r == [th[t] EXCEPT !.pc = "maxSeq", !.known = known]
  <1>1. th[t].pc = "prefetch" /\ Become(t, r) /\ rows' = rows
    BY DEF prefetch_hashes
  <1>2. /\ r.pc = "maxSeq" /\ r.known = known /\ r.lines = th[t].lines /\ r.batch = th[t].batch
        /\ r.before = th[t].before /\ r.pending = <<>> /\ r.first = th[t].first
        /\ th[t].pending = <<>>
    BY <1>1, ThreadFacts DEF Thread, StepShape
  <1> HIDE DEF r
  <1>3. rows \o <<>> = rows /\ th[t].lines \in Seq(Items)
    BY TypeFacts, EmptyTail, ThreadFacts
  <1>4. \A j \in 1 .. Len(th[t].lines) : HasLive(rows, th[t].lines[j]) => th[t].lines[j] \in known
    <2>1. \A j \in 1 .. Len(th[t].lines) : th[t].lines[j] \in Range(th[t].lines)
      BY <1>3 DEF Range
    <2>2. QED
      BY <2>1, FoundIsLive
  <1> HIDE DEF known
  <1>5. ASSUME Alone PROVE LineLog(rows', r)
    <2>1. LineLog(rows, th[t])
      BY <1>1, <1>5 DEF LineInv, BatchSteps
    <2>2. \A j \in 1 .. Len(r.lines) : HasLive(rows \o r.pending, r.lines[j]) =>
              r.first[r.lines[j]] # 0 \/ (r.lines[j] \in r.known /\ HasLive(rows, r.lines[j]))
      BY <1>2, <1>3, <1>4
    <2>3. QED
      BY <1>1, <1>2, <2>1, <2>2, StayLines
  <1>6. QED
    BY <1>1, <1>2, <1>5, MoveLines

LEMMA ReadLines == ASSUME TypeInv, OrderInv, LineInv, NEW t \in Threads, ReadMaxSeq(t) PROVE LineInv'
  <1> DEFINE src == Source[Head(th[t].lines)]
             n == _max_source_seq(src)
             r == [th[t] EXCEPT !.pc = "lines", !.seq = n]
  <1>1. th[t].pc = "maxSeq" /\ Become(t, r) /\ rows' = rows
    BY DEF ReadMaxSeq
  <1>2. /\ r.pc = "lines" /\ r.known = th[t].known /\ r.lines = th[t].lines /\ r.batch = th[t].batch
        /\ r.before = th[t].before /\ r.pending = <<>> /\ r.first = th[t].first /\ r.seq = n
        /\ th[t].pending = <<>>
    BY <1>1, ThreadFacts DEF Thread, StepShape
  <1>3. Head(th[t].lines) = th[t].lines[1] /\ 1 \in 1 .. Len(th[t].lines)
    <2>1. th[t].lines \in Seq(Items) /\ th[t].lines # <<>>
      BY <1>1, ThreadFacts DEF StepShape
    <2>2. QED
      BY <2>1
  <1>4. src # NoSource => n = Top(LogOf(rows), src)
    BY TopIsMaxSeq
  <1>5. Begun(rows, r) = LogOf(rows)
    BY <1>2, TypeFacts, EmptyTail DEF Begun
  <1> HIDE DEF r, n
  <1>6. ASSUME Alone PROVE LineLog(rows', r)
    <2>1. LineLog(rows, th[t]) /\ Ordered(rows, nextRef, th[t])
      BY <1>1, <1>6 DEF LineInv, OrderInv, BatchSteps
    <2>2. \A k \in 1 .. Len(th[t].lines) : Source[th[t].lines[k]] = Source[th[t].batch[1]]
      BY <1>1, <2>1 DEF Ordered, BatchSteps
    <2>3. src = Source[th[t].batch[1]]
      BY <1>3, <2>2
    <2>4. \A j \in 1 .. Len(r.lines) : HasLive(rows \o r.pending, r.lines[j]) =>
              r.first[r.lines[j]] # 0 \/ (r.lines[j] \in r.known /\ HasLive(rows, r.lines[j]))
      BY <1>1, <1>2, <2>1 DEF LineLog
    <2> HIDE DEF src
    <2>5. QED
      BY <1>1, <1>2, <1>4, <1>5, <2>1, <2>3, <2>4, StayLines
  <1>7. QED
    BY <1>1, <1>2, <1>6, MoveLines

LEMMA KeptBackIsLive ==
    ASSUME NEW R \in Seq(EventRow), NEW Q \in Seq(EventRow), NEW i, HasLive(R, i)
    PROVE  HasLive(R \o Q, i)
  <1>1. /\ Len(R) \in Nat /\ Len(R \o Q) >= Len(R) /\ Len(R \o Q) \in Nat
        /\ \A d \in 1 .. Len(R) : (R \o Q)[d] = R[d]
    OBVIOUS
  <1>2. \A d \in 1 .. Len(R) : d \in 1 .. Len(R \o Q)
    BY <1>1
  <1>3. QED
    BY <1>1, <1>2 DEF HasLive

(* What a batch knows of its next line. *)
LEMMA NextIsReplay ==
    ASSUME TypeInv, NEW t \in Threads, th[t].pc = "lines", th[t].lines # <<>>, LineLog(rows, th[t])
    PROVE  LET i == Head(th[t].lines)
           IN  /\ i \in Items
               /\ ReplayOf(t, i) # {} <=> HasLive(rows \o th[t].pending, i)
               /\ HasItem(AloneLog(th[t]), i) <=> HasLive(rows \o th[t].pending, i)
  <1> DEFINE i == Head(th[t].lines)
             all == rows \o th[t].pending
  <1>1. th[t].lines \in Seq(Items) /\ rows \in Seq(EventRow) /\ th[t].pending \in Seq(EventRow)
    BY ThreadFacts, TypeFacts
  <1>2. i = th[t].lines[1] /\ 1 \in 1 .. Len(th[t].lines) /\ i \in Items
    BY <1>1
  <1>3. /\ th[t].first[i] # 0 => HasLive(all, i)
        /\ HasLive(all, i) => th[t].first[i] # 0 \/ (i \in th[t].known /\ HasLive(rows, i))
    BY <1>2 DEF LineLog
  <1>4. HasLive(rows, i) => HasLive(all, i)
    BY <1>1, KeptBackIsLive
  <1>5. _find_duplicate(i) # {} <=> HasLive(rows, i)
    BY FoundIsLive
  <1>6. HasItem(AloneLog(th[t]), i) <=> HasLive(all, i)
    <2>1. all \in Seq(EventRow)
      BY <1>1, ConcatProperties
    <2>2. LogOf(all) \in Seq(LogEntry) /\ (HasItem(LogOf(all), i) <=> HasLive(all, i))
      BY <2>1, LogFacts, LogItems
    <2>3. AloneLog(th[t]) \in Seq(LogEntry) /\ SameItems(LogOf(all), AloneLog(th[t]))
      BY DEF LineLog, Begun
    <2> HIDE DEF all, i
    <2>4. QED
      BY <2>2, <2>3, SameHaves
  <1>7. ReplayOf(t, i) # {} <=> th[t].first[i] # 0 \/ (i \in th[t].known /\ _find_duplicate(i) # {})
    BY DEF ReplayOf
  <1> HIDE DEF i, all
  <1>8. ReplayOf(t, i) # {} <=> HasLive(all, i)
    BY <1>3, <1>4, <1>5, <1>7
  <1>9. QED
    BY <1>2, <1>6, <1>8 DEF i, all

LEMMA ReplayLines == ASSUME TypeInv, LineInv, NEW t \in Threads, ReplayLine(t) PROVE LineInv'
  <1> DEFINE i == Head(th[t].lines)
  <1>1. th[t].pc = "lines" /\ th[t].lines # <<>> /\ rows' = rows
    BY DEF ReplayLine
  <1>2. PICK ref \in ReplayOf(t, i) :
          Become(t, AfterLine([th[t] EXCEPT !.answers = @ \cup {[item |-> i, ref |-> ref]}]))
    BY DEF ReplayLine
  <1> DEFINE r == [th[t] EXCEPT !.answers = @ \cup {[item |-> i, ref |-> ref]}]
  <1>3. i \in Items /\ [item |-> i, ref |-> ref] \in Reply
    BY <1>1, <1>2, ThreadFacts, ReplayType
  <1>4. /\ r \in Thread(r.before) /\ r.lines = th[t].lines /\ r.batch = th[t].batch
        /\ r.pending = th[t].pending /\ r.seq = th[t].seq /\ r.first = th[t].first
        /\ r.before = th[t].before /\ r.known = th[t].known
    BY <1>3, ThreadFacts DEF Thread
  <1>5. Become(t, AfterLine(r))
    BY <1>2
  <1> HIDE DEF r
  <1>6. AfterLine(r).pc # "absent"
    BY <1>1, <1>4, AfterLineFacts
  <1>7. ASSUME Alone PROVE LineLog(rows', AfterLine(r))
    <2>1. LineLog(rows, th[t])
      BY <1>1, <1>7 DEF LineInv, BatchSteps
    <2>2. ReplayOf(t, i) # {} /\ HasItem(AloneLog(th[t]), i)
      BY <1>1, <1>2, <2>1, NextIsReplay
    <2>3. OneAtATime(AloneLog(th[t]), i) = AloneLog(th[t])
      BY <2>1, <2>2, AloneKeeps DEF LineLog
    <2>4. Begun(rows, r) = Begun(rows, th[t])
      BY <1>4 DEF Begun
    <2>5. /\ SameItems(Begun(rows, r), OneAtATime(AloneLog(th[t]), i))
          /\ Taken(r.batch) => Begun(rows, r) = OneAtATime(AloneLog(th[t]), i)
          /\ Taken(r.batch) /\ Source[r.batch[1]] # NoSource
                => r.seq = Top(Begun(rows, r), Source[r.batch[1]])
      BY <1>1, <1>4, <2>1, <2>3, <2>4 DEF LineLog
    <2>6. /\ \A k \in Items : r.first[k] # 0 => HasLive(rows \o r.pending, k)
          /\ \A k \in Items : HasLive(rows \o r.pending, k) =>
                HasLive(rows \o th[t].pending, k) \/ r.first[k] # 0
          /\ \A k \in Items : th[t].first[k] # 0 => r.first[k] # 0
      BY <1>4, <2>1 DEF LineLog
    <2>7. LineLog(rows, AfterLine(r))
      BY <1>1, <1>4, <2>1, <2>5, <2>6, LineMoves
    <2>8. QED
      BY <1>1, <2>7
  <1>8. QED
    BY <1>1, <1>5, <1>6, <1>7, MoveLines

LEMMA AppendIsLive ==
    ASSUME NEW R \in Seq(EventRow), NEW row \in EventRow, row.live, NEW i
    PROVE  HasLive(Append(R, row), i) <=> HasLive(R, i) \/ i = row.item
  <1> DEFINE Q == Append(R, row)
  <1>1. /\ Len(R) \in Nat /\ Len(Q) = Len(R) + 1 /\ Q[Len(R) + 1] = row
        /\ \A d \in 1 .. Len(R) : Q[d] = R[d]
    OBVIOUS
  <1> HIDE DEF Q
  <1>2. 1 .. Len(Q) = (1 .. Len(R)) \cup {Len(R) + 1}
    BY <1>1
  <1>3. HasLive(Q, i) <=> HasLive(R, i) \/ i = row.item
    BY <1>1, <1>2 DEF HasLive
  <1>4. QED
    BY <1>3 DEF Q

(* A line that fails leaves the log; a new one appends to both. *)
LEMMA BrokenLine ==
    ASSUME TypeInv, NEW t \in Threads, th[t].pc = "lines", th[t].lines # <<>>, LineLog(rows, th[t]),
           Outcome[Head(th[t].lines)] = "broken",
           NEW r, r \in Thread(r.before), r.lines = th[t].lines, r.batch = th[t].batch,
           r.before = th[t].before, r.known = th[t].known, r.pending = th[t].pending,
           r.first = th[t].first
    PROVE  LineLog(rows, AfterLine(r))
  <1> DEFINE i == Head(th[t].lines)
             alone == AloneLog(th[t])
  <1>1. Begun(rows, r) = Begun(rows, th[t])
    BY DEF Begun
  <1>2. OneAtATime(alone, i) = alone
    BY AloneKeeps DEF LineLog
  <1>3. ~Taken(r.batch)
    <2>1. th[t].lines \in Seq(Items) /\ th[t].batch \in Seq(Items)
      BY ThreadFacts DEF Thread
    <2>2. i = th[t].lines[1] /\ Len(th[t].lines) \in Nat /\ Len(th[t].lines) >= 1
          /\ Len(th[t].batch) \in Nat /\ DOMAIN th[t].batch = 1 .. Len(th[t].batch)
      BY <2>1
    <2>3. /\ Len(th[t].lines) <= Len(th[t].batch)
          /\ \A j \in 1 .. Len(th[t].lines) : th[t].lines[j] = th[t].batch[Done(th[t]) + j]
          /\ Done(th[t]) = Len(th[t].batch) - Len(th[t].lines)
      BY DEF LineLog, Done
    <2>4. \E d \in DOMAIN th[t].batch : th[t].batch[d] = i
      <3> DEFINE s == th[t].lines
                 b == th[t].batch
                 d == Done(th[t])
      <3>1. /\ Len(s) \in Nat /\ Len(s) >= 1 /\ Len(b) \in Nat /\ DOMAIN b = 1 .. Len(b)
            /\ Len(s) <= Len(b) /\ d = Len(b) - Len(s) /\ i = s[1]
        BY <2>2, <2>3
      <3>2. \A j \in 1 .. Len(s) : s[j] = b[d + j]
        BY <2>3
      <3> HIDE DEF s, b, d, i
      <3>3. d + 1 \in DOMAIN b /\ 1 \in 1 .. Len(s)
        BY <3>1
      <3>4. b[d + 1] = i
        BY <3>1, <3>2, <3>3
      <3>5. \E k \in DOMAIN b : b[k] = i
        BY <3>3, <3>4
      <3>6. QED
        BY <3>5 DEF b
    <2>5. QED
      BY <2>4 DEF Taken
  <1>4. SameItems(Begun(rows, r), OneAtATime(alone, i))
    BY <1>1, <1>2 DEF LineLog
  <1>5. /\ \A k \in Items : r.first[k] # 0 => HasLive(rows \o r.pending, k)
        /\ \A k \in Items : HasLive(rows \o r.pending, k) =>
              HasLive(rows \o th[t].pending, k) \/ r.first[k] # 0
        /\ \A k \in Items : th[t].first[k] # 0 => r.first[k] # 0
    BY DEF LineLog
  <1>6. QED
    BY <1>3, <1>4, <1>5, LineMoves

LEMMA NewLine ==
    ASSUME TypeInv, NEW t \in Threads, th[t].pc = "lines", th[t].lines # <<>>, LineLog(rows, th[t]),
           Ordered(rows, nextRef, th[t]),
           NEW i, i = Head(th[t].lines), Outcome[i] # "broken", ReplayOf(t, i) = {},
           NEW n \in Nat, n # 0,
           NEW r, r \in Thread(r.before), r.lines = th[t].lines, r.batch = th[t].batch,
           r.before = th[t].before, r.known = th[t].known,
           r.seq = Numbered(Source[i], th[t].seq), r.first = [th[t].first EXCEPT ![i] = n],
           r.pending = Append(th[t].pending, NewRow(i, r.seq, n))
    PROVE  LineLog(rows, AfterLine(r))
  <1> DEFINE row == NewRow(i, r.seq, n)
             alone == AloneLog(th[t])
             all == rows \o th[t].pending
             x == [item |-> i, seq |-> Numbered(Source[i], Top(alone, Source[i]))]
  <1>1. i \in Items /\ ~HasLive(all, i) /\ ~HasItem(alone, i)
    BY NextIsReplay
  <1>2. /\ row \in EventRow /\ row.item = i /\ row.live /\ row.seq = r.seq
    <2>1. r.seq \in Nat
      BY DEF Thread
    <2>2. QED
      BY <1>1, <2>1, RowType DEF NewRow
  <1>3. rows \in Seq(EventRow) /\ th[t].pending \in Seq(EventRow) /\ all \in Seq(EventRow)
    BY TypeFacts, ThreadFacts, ConcatProperties
  <1>4. rows \o r.pending = Append(all, row)
    <2>1. r.pending = Append(th[t].pending, row)
      BY DEF row
    <2> HIDE DEF row
    <2>2. rows \o Append(th[t].pending, row) = Append(rows \o th[t].pending, row)
      BY <1>2, <1>3, ConcatAppend
    <2>3. QED
      BY <2>1, <2>2
  <1> HIDE DEF row
  <1>5. /\ Begun(rows, r) = Append(LogOf(all), Entry(row)) /\ Begun(rows, th[t]) = LogOf(all)
        /\ LogOf(all) \in Seq(LogEntry)
    <2>1. Begun(rows, r) = LogOf(Append(all, row)) /\ Begun(rows, th[t]) = LogOf(all)
      BY <1>4 DEF Begun
    <2> HIDE DEF all
    <2>2. LogOf(Append(all, row)) = Append(LogOf(all), Entry(row))
      BY <1>2, <1>3, LogAppend
    <2>3. LogOf(all) \in Seq(LogEntry)
      BY <1>3, LogFacts
    <2>4. QED
      BY <2>1, <2>2, <2>3
  <1>6. Entry(row) \in LogEntry /\ Entry(row).item = i /\ Entry(row).seq = r.seq
    BY <1>2, EntryFacts
  <1>7. /\ alone \in Seq(LogEntry) /\ SameItems(LogOf(all), alone)
        /\ Taken(r.batch) => LogOf(all) = alone
        /\ Taken(r.batch) /\ Source[r.batch[1]] # NoSource
              => th[t].seq = Top(LogOf(all), Source[r.batch[1]])
        /\ \A k \in Items : th[t].first[k] # 0 => HasLive(all, k)
    BY <1>5 DEF LineLog
  <1>8. OneAtATime(alone, i) = Append(alone, x) /\ x \in LogEntry /\ x.item = i
    BY <1>1, <1>7, AloneAppends
  <1>9. Source[i] = Source[r.batch[1]]
    BY BatchLines
  <1>10. Top(alone, Source[i]) \in Nat /\ th[t].seq \in Nat
    BY <1>7, TopFacts, ThreadFacts
  <1> HIDE DEF alone, all
  <1>11. SameItems(Begun(rows, r), OneAtATime(alone, i))
    <2> HIDE DEF x
    <2> DEFINE log == LogOf(all)
               e == Entry(row)
    <2>1. /\ log \in Seq(LogEntry) /\ alone \in Seq(LogEntry) /\ SameItems(log, alone)
          /\ e \in LogEntry /\ x \in LogEntry /\ e.item = x.item
      BY <1>5, <1>6, <1>7, <1>8
    <2>2. Begun(rows, r) = Append(log, e) /\ OneAtATime(alone, i) = Append(alone, x)
      BY <1>5, <1>8
    <2> HIDE DEF log, e
    <2>3. SameItems(Append(log, e), Append(alone, x))
      BY <2>1, BothAppend
    <2>4. QED
      BY <2>2, <2>3
  <1>12. ASSUME Taken(r.batch) PROVE Entry(row) = x
    <2>1. r.seq = Numbered(Source[i], Top(alone, Source[i]))
      <3>1. CASE Source[i] = NoSource
        BY <3>1 DEF Numbered
      <3>2. CASE Source[i] # NoSource
        BY <1>7, <1>9, <1>12, <3>2
      <3>3. QED
        BY <3>1, <3>2
    <2>2. Entry(row) = [item |-> row.item, seq |-> row.seq]
      BY DEF Entry
    <2>3. QED
      BY <1>2, <2>1, <2>2
  <1>13. Taken(r.batch) => Begun(rows, r) = OneAtATime(alone, i)
    BY <1>5, <1>7, <1>8, <1>12
  <1>14. ASSUME Taken(r.batch), Source[r.batch[1]] # NoSource
         PROVE  r.seq = Top(Begun(rows, r), Source[r.batch[1]])
    <2>1. r.seq = Top(LogOf(all), Source[i]) + 1
      BY <1>7, <1>9, <1>14 DEF Numbered
    <2>2. Top(Append(LogOf(all), Entry(row)), Source[i]) = r.seq
      BY <1>1, <1>5, <1>6, <2>1, TopAppend
    <2>3. QED
      BY <1>5, <1>9, <2>2
  <1>15. ASSUME NEW k \in Items
         PROVE  HasLive(rows \o r.pending, k) <=> HasLive(all, k) \/ k = i
    <2>1. HasLive(Append(all, row), k) <=> HasLive(all, k) \/ k = row.item
      BY <1>2, <1>3, AppendIsLive
    <2>2. QED
      BY <1>2, <1>4, <2>1
  <1>16. \A k \in Items : r.first[k] = IF k = i THEN n ELSE th[t].first[k]
    BY ThreadFacts
  <1>17. /\ \A k \in Items : r.first[k] # 0 => HasLive(rows \o r.pending, k)
         /\ \A k \in Items : HasLive(rows \o r.pending, k) => HasLive(all, k) \/ r.first[k] # 0
         /\ \A k \in Items : th[t].first[k] # 0 => r.first[k] # 0
    BY <1>7, <1>15, <1>16
  <1>18. QED
    BY <1>11, <1>13, <1>14, <1>17, LineMoves DEF alone, all

LEMMA StoreLines == ASSUME TypeInv, OrderInv, LineInv, NEW t \in Threads, StoreLine(t) PROVE LineInv'
  <1> DEFINE i == Head(th[t].lines)
             n == nextRef + 1
             seq == Numbered(Source[i], th[t].seq)
             row == NewRow(i, seq, n)
             a == [item |-> i, ref |-> n]
             q == [th[t] EXCEPT !.seq = seq]
             r == [th[t] EXCEPT !.seq = seq, !.first[i] = n, !.pending = Append(@, row),
                                !.answers = @ \cup {a}]
  <1>1. th[t].pc = "lines" /\ th[t].lines # <<>> /\ rows' = rows /\ ReplayOf(t, i) = {}
    BY DEF StoreLine
  <1>2. \/ Outcome[i] = "broken" /\ Become(t, AfterLine(q))
        \/ Outcome[i] # "broken" /\ Become(t, AfterLine(r))
    BY DEF StoreLine
  <1>3. i \in Items /\ seq \in Nat /\ n \in Nat /\ n # 0
    BY <1>1, ThreadFacts, TypeFacts, NumberedType
  <1>4. row \in EventRow /\ a \in Reply
    BY <1>3, RowType DEF Reply, NewRow
  <1>5. th[t].first \in [Items -> Nat] /\ [th[t].first EXCEPT ![i] = n] \in [Items -> Nat]
    BY <1>3, ThreadFacts
  <1>6. Append(th[t].pending, row) \in Seq(EventRow)
    BY <1>4, ThreadFacts, AppendProperties
  <1> HIDE DEF row, seq, i, a, n
  <1>7. /\ q \in Thread(q.before) /\ q.lines = th[t].lines /\ q.batch = th[t].batch
        /\ q.pending = th[t].pending /\ q.first = th[t].first
        /\ q.before = th[t].before /\ q.known = th[t].known
    BY <1>1, <1>3, ThreadFacts DEF Thread
  <1>8. /\ r \in Thread(r.before) /\ r.lines = th[t].lines /\ r.batch = th[t].batch
        /\ r.pending = Append(th[t].pending, row) /\ r.seq = seq
        /\ r.first = [th[t].first EXCEPT ![i] = n]
        /\ r.before = th[t].before /\ r.known = th[t].known
    BY <1>1, <1>3, <1>4, <1>5, <1>6, ThreadFacts DEF Thread
  <1> HIDE DEF q, r
  <1>9. AfterLine(q).pc # "absent" /\ AfterLine(r).pc # "absent"
    BY <1>1, <1>7, <1>8, AfterLineFacts
  <1>10. ASSUME Alone PROVE LineLog(rows, th[t]) /\ Ordered(rows, nextRef, th[t])
    BY <1>1, <1>10 DEF LineInv, OrderInv, BatchSteps
  <1>11. CASE Outcome[i] = "broken" /\ Become(t, AfterLine(q))
    <2>1. ASSUME Alone PROVE LineLog(rows, AfterLine(q))
      BY <1>1, <1>7, <1>10, <1>11, <2>1, BrokenLine DEF i
    <2>2. QED
      BY <1>1, <1>9, <1>11, <2>1, MoveLines
  <1>12. CASE Outcome[i] # "broken" /\ Become(t, AfterLine(r))
    <2>1. r.pending = Append(th[t].pending, NewRow(i, r.seq, n))
      BY <1>8 DEF row
    <2>2. r.seq = Numbered(Source[i], th[t].seq) /\ i = Head(th[t].lines)
      BY <1>8 DEF seq, i
    <2>3. ASSUME Alone PROVE LineLog(rows, AfterLine(r))
      BY <1>1, <1>3, <1>8, <1>10, <1>12, <2>1, <2>2, <2>3, NewLine
    <2>4. QED
      BY <1>1, <1>9, <1>12, <2>3, MoveLines
  <1>13. QED
    BY <1>2, <1>11, <1>12

LEMMA CheckpointLines == ASSUME TypeInv, LineInv, NEW t \in Threads, checkpoint(t) PROVE LineInv'
  <1> DEFINE r == [th[t] EXCEPT !.pc = "lines", !.pending = <<>>]
             all == rows \o th[t].pending
  <1>1. th[t].pc = "checkpoint" /\ rows' = all /\ Become(t, r)
    BY DEF checkpoint
  <1>2. /\ r.pc = "lines" /\ r.pending = <<>> /\ r.lines = th[t].lines /\ r.batch = th[t].batch
        /\ r.before = th[t].before /\ r.known = th[t].known /\ r.first = th[t].first
        /\ r.seq = th[t].seq
    BY ThreadFacts DEF Thread
  <1> HIDE DEF r
  <1>3. rows \in Seq(EventRow) /\ th[t].pending \in Seq(EventRow) /\ all \in Seq(EventRow)
    BY TypeFacts, ThreadFacts, ConcatProperties
  <1>4. all \o r.pending = all
    BY <1>2, <1>3, EmptyTail
  <1>5. \A i : HasLive(rows, i) => HasLive(all, i)
    BY <1>3, KeptBackIsLive
  <1>6. Begun(all, r) = Begun(rows, th[t])
    BY <1>4 DEF Begun
  <1>7. Done(r) = Done(th[t]) /\ AloneLog(r) = AloneLog(th[t])
    BY <1>2 DEF Done, AloneLog
  <1>8. ASSUME LineLog(rows, th[t]) PROVE LineLog(all, r)
    <2> HIDE DEF all
    <2>1. \A i : HasLive(rows \o th[t].pending, i) <=> HasLive(all, i)
      BY DEF all
    <2>2. QED
      BY <1>1, <1>2, <1>4, <1>5, <1>6, <1>7, <1>8, <2>1 DEF LineLog
  <1>9. ASSUME Alone PROVE LineLog(rows', r)
    BY <1>1, <1>8, <1>9 DEF LineInv, BatchSteps
  <1>10. QED
    BY <1>1, <1>2, <1>9, MoveLines

LEMMA InitLines == Init => LineInv
  BY InitSlots, SlotFacts DEF LineInv, BatchSteps

LEMMA NextLines == TypeInv /\ OrderInv /\ LineInv /\ [Next]_vars => LineInv'
  <1> SUFFICES ASSUME TypeInv, OrderInv, LineInv, [Next]_vars PROVE LineInv'
    OBVIOUS
  <1>1. ASSUME NEW t \in Threads, Begin(t) PROVE LineInv'
    BY <1>1, BeginLines
  <1>2. ASSUME NEW t \in Threads, Work(t) PROVE LineInv'
    BY <1>2, OtherLines, PrefetchLines, ReadLines, ReplayLines, StoreLines, CheckpointLines DEF Work
  <1>3. ASSUME NEW t \in Threads, Fail(t) PROVE LineInv'
    BY <1>3, OtherLines
  <1>4. CASE UNCHANGED vars
    BY <1>4 DEF vars, LineInv, Alone
  <1>5. QED
    BY <1>1, <1>2, <1>3, <1>4 DEF Next

(* When requests come one after the other, a batch stores the payloads     *)
(* that sending its lines one at a time would have stored, in that order,  *)
(* with the same sequence numbers when the engine fails on none of them    *)
(* (ProcessingEngine.process_lines and process_payload).                   *)
THEOREM BatchTheorem == Spec => BatchIsLines
  <1>1. ASSUME TypeInv, LineInv, NEW t \in Threads, Alone, FinishBatch(t)
        PROVE  LET lines == OneByOne(th[t].before, th[t].batch, Len(th[t].batch))
               IN  /\ SameItems(LogOf(rows'), lines)
                   /\ Taken(th[t].batch) => LogOf(rows') = lines
    <2>1. th[t].pc = "lines" /\ th[t].lines = <<>> /\ rows' = rows \o th[t].pending
      BY <1>1 DEF FinishBatch
    <2>2. LineLog(rows, th[t])
      BY <1>1, <2>1 DEF LineInv, BatchSteps
    <2>3. Done(th[t]) = Len(th[t].batch)
      <3>1. th[t].batch \in Seq(Items)
        BY <1>1, ThreadFacts DEF Thread
      <3>2. Len(th[t].batch) \in Nat /\ Len(th[t].lines) = 0
        BY <2>1, <3>1
      <3>3. QED
        BY <3>2 DEF Done
    <2>4. QED
      BY <2>1, <2>2, <2>3 DEF LineLog, Begun, AloneLog
  <1>2. TypeInv /\ LineInv /\ [Next]_vars => [BatchStep]_vars
    BY <1>1 DEF BatchStep
  <1>3. Init => OrderInv /\ LineInv
    BY InitOrders, InitLines
  <1>4. TypeInv /\ OrderInv /\ LineInv /\ [Next]_vars => OrderInv' /\ LineInv'
    BY NextOrders, NextLines
  <1>5. QED
    BY <1>2, <1>3, <1>4, SpecTypes, PTL DEF Spec, BatchIsLines
=============================================================================
