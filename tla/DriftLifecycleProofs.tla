------------------------ MODULE DriftLifecycleProofs ------------------------
(***************************************************************************)
(* Type correctness and the safety invariants of DriftLifecycle, for any   *)
(* number of threads, events and fields and for any bounds.                *)
(***************************************************************************)
EXTENDS DriftLifecycle, SequenceTheorems, TLAPS

(* Appending keeps every row and its place. *)
LEMMA AppendRow ==
    ASSUME NEW S, NEW s \in Seq(S), NEW x \in S
    PROVE  /\ Append(s, x) \in Seq(S)
           /\ Len(Append(s, x)) = Len(s) + 1
           /\ \A i \in 1 .. Len(s) : Append(s, x)[i] = s[i]
           /\ Append(s, x)[Len(s) + 1] = x
  OBVIOUS

LEMMA IdleType == Idle \in ThreadRow
  BY DEF Idle, ThreadRow, Steps, Ops, _OPEN_DRIFT

LEMMA InitType == Init => TypeOK
  <1> SUFFICES ASSUME Init PROVE TypeOK
    OBVIOUS
  <1>1. [fields |-> BaseFields, version |-> 1, base |-> 0] \in MappingRow
    BY BaseAssumption DEF MappingRow
  <1>2. mapping \in Seq(MappingRow) /\ Len(mapping) = 1
    BY <1>1 DEF Init
  <1>3. drift \in Seq(DriftRow)
    BY DEF Init
  <1>4. QED
    BY <1>2, <1>3, IdleType, BoundsAssumption DEF Init, TypeOK, EventRow, EventStatus

(* A thread that goes on with a well-typed record keeps the table of       *)
(* threads well-typed and leaves the others alone.                         *)
LEMMA BecomeType ==
    ASSUME TypeOK, NEW t \in Threads, NEW r \in ThreadRow, Become(t, r)
    PROVE  /\ th' \in [Threads -> ThreadRow]
           /\ th'[t] = r
           /\ \A u \in Threads : u # t => th'[u] = th[u]
  BY DEF TypeOK, Become

(* The types of what the steps read. *)
LEMMA ReadTypes ==
    ASSUME TypeOK, MemoryIsSound
    PROVE  /\ Len(mapping) \in Nat /\ Len(drift) \in Nat /\ recipe \in Nat
           /\ \A m \in MappingIds : mapping[m] \in MappingRow
           /\ \A d \in DriftIds : drift[d] \in DriftRow
           /\ \A t \in Threads : th[t] \in ThreadRow
           /\ \A t \in Threads : {th[t].rebind, th[t].m} \subseteq 0 .. Len(mapping)
           /\ \A t \in Threads : _lookup_mapping(t) \in MappingIds
           /\ \A t \in Threads : FlushedRecipe(t) \in 0 .. Len(mapping)
  <1>1. Len(mapping) \in Nat /\ Len(drift) \in Nat /\ recipe \in Nat
    BY DEF TypeOK
  <1>2. \A m \in MappingIds : mapping[m] \in MappingRow
    BY ElementOfSeq DEF TypeOK, MappingIds
  <1>3. \A d \in DriftIds : drift[d] \in DriftRow
    BY ElementOfSeq DEF TypeOK, DriftIds
  <1>4. \A t \in Threads : th[t] \in ThreadRow
    BY DEF TypeOK
  <1>5. ASSUME NEW t \in Threads
        PROVE  {th[t].rebind, th[t].m} \subseteq 0 .. Len(mapping)
    BY <1>1, <1>4 DEF ThreadRow, MemoryIsSound, MemoryOf
  <1>6. QED
    BY <1>1, <1>2, <1>3, <1>4, <1>5
       DEF _lookup_mapping, FlushedRecipe, find_active_mapping, MappingIds, TypeOK

-----------------------------------------------------------------------------
(* What every step of a thread t does: the tables keep their types and     *)
(* only grow, t's memory is sound afterwards and no other thread's record  *)
(* is touched.                                                             *)

Grows ==
    /\ Len(mapping) <= Len(mapping')
    /\ \A m \in MappingIds : mapping'[m] = mapping[m]
    /\ Len(drift) <= Len(drift')
    /\ \A d \in DriftIds : drift'[d].shape = drift[d].shape

StepIsGood(t) ==
    /\ TypeOK'
    /\ Grows
    /\ MemoryOf(t)'
    /\ \A u \in Threads : u # t => th'[u] = th[u]

(* For a step that only moves t on. *)
LEMMA QuietStep ==
    ASSUME TypeOK, NEW t \in Threads, NEW r \in ThreadRow, Become(t, r),
           UNCHANGED <<event, mapping, drift, recipe, failures>>,
           MemoryOf(t)'
    PROVE  StepIsGood(t)
  <1>1. Len(mapping) \in Nat /\ Len(drift) \in Nat
    BY DEF TypeOK
  <1>2. TypeOK'
    BY BecomeType DEF TypeOK
  <1>3. Grows
    BY <1>1 DEF Grows
  <1>4. QED
    BY <1>2, <1>3, BecomeType DEF StepIsGood

LEMMA ComputeStep ==
    ASSUME TypeOK, MemoryIsSound, NEW t \in Threads, _compute(t)
    PROVE  StepIsGood(t)
  <1> DEFINE verdict(e, m) == IF detect_drift(e, m) = {} THEN "release" ELSE "readDrift"
             r(e, m) == [th[t] EXCEPT !.e = e, !.m = m, !.pc = verdict(e, m)]
  <1>1. th[t] \in ThreadRow
    BY ReadTypes
  <1>2. PICK e \in Events, m \in MappingIds : Become(t, r(e, m))
    <2>1. PICK e \in th[t].todo :
            Become(t, r(e, IF th[t].m # 0 THEN th[t].m ELSE _lookup_mapping(t)))
      BY DEF _compute
    <2>2. e \in Events
      BY <1>1 DEF ThreadRow
    <2>3. (IF th[t].m # 0 THEN th[t].m ELSE _lookup_mapping(t)) \in MappingIds
      BY ReadTypes DEF MappingIds
    <2>4. QED
      BY <2>1, <2>2, <2>3
  <1>3. verdict(e, m) \in Steps /\ m \in Nat
    BY DEF Steps, MappingIds
  <1> HIDE DEF verdict
  <1>4. r(e, m) \in ThreadRow
    BY <1>1, <1>3 DEF ThreadRow
  <1>5. th'[t] = r(e, m)
    BY <1>2, <1>4, BecomeType
  <1>6. MemoryOf(t)'
    <2>1. /\ th'[t].m = m /\ th'[t].e = e /\ th'[t].pc = verdict(e, m)
          /\ th'[t].op = th[t].op /\ th'[t].d = th[t].d /\ th'[t].rebind = th[t].rebind
      BY <1>1, <1>5 DEF ThreadRow
    <2>2. UNCHANGED <<mapping, drift>>
      BY DEF _compute
    <2>3. th[t].rebind <= Len(mapping) /\ (th[t].op \in DriftOps => th[t].d \in DriftIds)
      BY DEF MemoryIsSound, MemoryOf
    <2>4. m <= Len(mapping) /\ m # 0 /\ e \in Events
      BY ReadTypes DEF MappingIds
    <2>5. QED
      BY <2>1, <2>2, <2>3, <2>4 DEF MemoryOf, DriftIds, detect_drift, verdict
  <1>7. QED
    BY <1>2, <1>4, <1>6, QuietStep DEF _compute

LEMMA ReadOpenDriftStep ==
    ASSUME TypeOK, MemoryIsSound, RequestListsItsEvents, NEW t \in Threads, ReadOpenDrift(t)
    PROVE  StepIsGood(t)
  <1> DEFINE r0 == [th[t] EXCEPT !.pc = "writeDrift", !.cand = 0]
             r(c) == [th[t] EXCEPT !.pc = "writeDrift", !.cand = c,
                         !.snap = drift[c].events, !.snapBase = drift[c].base]
             same == OpenDrifts(detect_drift(th[t].e, th[t].m))
  <1>1. th[t] \in ThreadRow /\ th[t].pc = "readDrift" /\ UNCHANGED <<mapping, drift>>
    BY ReadTypes DEF ReadOpenDrift
  <1>2. /\ th[t].rebind <= Len(mapping) /\ th[t].m <= Len(mapping)
        /\ th[t].op \in DriftOps => th[t].d \in DriftIds
        /\ th[t].e \in Events /\ th[t].m # 0
        /\ detect_drift(th[t].e, th[t].m) # {}
    BY <1>1 DEF MemoryIsSound, MemoryOf
  <1>3. CASE same = {} /\ Become(t, r0)
    <2>1. r0 \in ThreadRow
      BY <1>1 DEF ThreadRow, Steps
    <2>2. th'[t] = r0
      BY <1>3, <2>1, BecomeType
    <2>3. /\ th'[t].pc = "writeDrift" /\ th'[t].cand = 0 /\ th'[t].m = th[t].m
          /\ th'[t].e = th[t].e /\ th'[t].op = th[t].op /\ th'[t].d = th[t].d
          /\ th'[t].rebind = th[t].rebind
      BY <1>1, <1>3, <2>2 DEF ThreadRow
    <2>4. MemoryOf(t)'
      BY <1>1, <1>2, <2>3 DEF MemoryOf, DriftIds, detect_drift
    <2>5. QED
      BY <1>3, <2>1, <2>4, QuietStep DEF ReadOpenDrift
  <1>4. ASSUME NEW c \in same, Become(t, r(c)) PROVE StepIsGood(t)
    <2>1. c \in DriftIds /\ drift[c] \in DriftRow /\ c \in Nat
          /\ drift[c].shape = detect_drift(th[t].e, th[t].m)
      BY ReadTypes DEF OpenDrifts, DriftIds
    <2>2. r(c) \in ThreadRow
      BY <1>1, <2>1 DEF ThreadRow, Steps, DriftRow
    <2>3. th'[t] = r(c)
      BY <1>4, <2>2, BecomeType
    <2>4. /\ th'[t].pc = "writeDrift" /\ th'[t].cand = c /\ th'[t].m = th[t].m
          /\ th'[t].e = th[t].e /\ th'[t].op = th[t].op /\ th'[t].d = th[t].d
          /\ th'[t].rebind = th[t].rebind /\ th'[t].snap = drift[c].events
      BY <1>1, <2>3 DEF ThreadRow
    <2>5. \A x \in drift[c].events : drift[c].shape \subseteq Carries[x]
      BY <2>1 DEF RequestListsItsEvents
    <2>6. MemoryOf(t)'
      BY <1>1, <1>2, <2>1, <2>4, <2>5 DEF MemoryOf, DriftIds, detect_drift
    <2>7. QED
      BY <1>4, <2>2, <2>6, QuietStep DEF ReadOpenDrift
  <1>5. (same = {} /\ Become(t, r0)) \/ (\E c \in same : Become(t, r(c)))
    BY DEF ReadOpenDrift
  <1>6. QED
    BY <1>3, <1>4, <1>5

(* The steps that begin an operation start from an empty record. *)
LEMMA FreshStep ==
    ASSUME TypeOK, NEW t \in Threads, NEW r \in ThreadRow, Become(t, r),
           UNCHANGED <<event, mapping, drift, recipe, failures>>,
           r.rebind = 0, r.m = 0,
           r.pc \in {"compute", "version", "decide", "reject"},
           r.pc # "compute" => r.op \in DriftOps,
           r.op \in DriftOps => r.d \in DriftIds,
           r.pc \in {"version", "decide"} => r.base \in MappingIds
    PROVE  StepIsGood(t)
  <1>1. th'[t] = r
    BY BecomeType
  <1>2. Len(mapping) \in Nat
    BY DEF TypeOK
  <1>3. MemoryOf(t)'
    BY <1>1, <1>2 DEF MemoryOf, DriftIds, MappingIds
  <1>4. QED
    BY <1>3, QuietStep

LEMMA BeginStep ==
    ASSUME TypeOK, MemoryIsSound, RequestBeyondBaseline, NEW t \in Threads, Begin(t)
    PROVE  StepIsGood(t)
  <1>1. ASSUME NEW e \in Events, process_payload(t, e) PROVE StepIsGood(t)
    <2> DEFINE r == [Idle EXCEPT !.pc = "compute", !.op = "ingest", !.todo = {e}]
    <2>1. r \in ThreadRow
      BY IdleType DEF ThreadRow, Steps, Ops
    <2>2. r.pc = "compute" /\ r.op = "ingest" /\ r.rebind = 0 /\ r.m = 0
      BY DEF Idle
    <2>3. QED
      BY <1>1, <2>1, <2>2, FreshStep DEF process_payload, DriftOps
  <1>2. ASSUME NEW e \in Events, retry_event(t, e) PROVE StepIsGood(t)
    <2> DEFINE r == [Idle EXCEPT !.pc = "compute", !.op = "retry", !.todo = {e}]
    <2>1. r \in ThreadRow
      BY IdleType DEF ThreadRow, Steps, Ops
    <2>2. r.pc = "compute" /\ r.op = "retry" /\ r.rebind = 0 /\ r.m = 0
      BY DEF Idle
    <2>3. QED
      BY <1>2, <2>1, <2>2, FreshStep DEF retry_event, DriftOps
  <1>3. ASSUME NEW d \in DriftIds, approve_drift(t, d) PROVE StepIsGood(t)
    <2> DEFINE r(a) == [Idle EXCEPT !.pc = "version", !.op = "approve", !.d = d,
                          !.base = drift[d].base, !.answer = a, !.fresh = ~drift[d].analyzed]
    <2>1. drift[d] \in DriftRow /\ d \in Nat /\ drift[d].base \in MappingIds
      BY ReadTypes DEF RequestBeyondBaseline, DriftIds
    <2>2. PICK a \in SUBSET Fields : Become(t, r(a))
      BY <1>3, <2>1 DEF approve_drift, Answers, DriftRow
    <2>3. r(a) \in ThreadRow
      BY <2>1, IdleType DEF ThreadRow, Steps, Ops, DriftRow
    <2>4. /\ r(a).pc = "version" /\ r(a).op = "approve" /\ r(a).rebind = 0 /\ r(a).m = 0
          /\ r(a).d = d /\ r(a).base = drift[d].base
      BY DEF Idle
    <2> HIDE DEF r
    <2>5. QED
      BY <1>3, <2>1, <2>2, <2>3, <2>4, FreshStep DEF approve_drift, DriftOps
  <1>4. ASSUME NEW d \in DriftIds, correct_drift(t, d) PROVE StepIsGood(t)
    <2> DEFINE r(a) == [Idle EXCEPT !.pc = "version", !.op = "correct", !.d = d,
                          !.base = drift[d].base, !.answer = a]
    <2>1. drift[d] \in DriftRow /\ d \in Nat /\ drift[d].base \in MappingIds
      BY ReadTypes DEF RequestBeyondBaseline, DriftIds
    <2>2. PICK a \in SUBSET Fields : Become(t, r(a))
      BY <1>4, <2>1 DEF correct_drift, DriftRow
    <2>3. r(a) \in ThreadRow
      BY <2>1, IdleType DEF ThreadRow, Steps, Ops, DriftRow
    <2>4. /\ r(a).pc = "version" /\ r(a).op = "correct" /\ r(a).rebind = 0 /\ r(a).m = 0
          /\ r(a).d = d /\ r(a).base = drift[d].base
      BY DEF Idle
    <2> HIDE DEF r
    <2>5. QED
      BY <1>4, <2>1, <2>2, <2>3, <2>4, FreshStep DEF correct_drift, DriftOps
  <1>5. ASSUME NEW d \in DriftIds, analyze_drift(t, d) PROVE StepIsGood(t)
    <2> DEFINE r == [Idle EXCEPT !.pc = "decide", !.op = "analyze", !.d = d,
                       !.seen = drift[d].status, !.base = drift[d].base]
    <2>1. drift[d] \in DriftRow /\ d \in Nat /\ drift[d].base \in MappingIds
      BY ReadTypes DEF RequestBeyondBaseline, DriftIds
    <2>2. r \in ThreadRow
      BY <2>1, IdleType DEF ThreadRow, Steps, Ops, DriftRow
    <2>3. /\ r.pc = "decide" /\ r.op = "analyze" /\ r.rebind = 0 /\ r.m = 0
          /\ r.d = d /\ r.base = drift[d].base
      BY DEF Idle
    <2>4. Become(t, r)
      BY <1>5 DEF analyze_drift
    <2> HIDE DEF r
    <2>5. QED
      BY <1>5, <2>1, <2>2, <2>3, <2>4, FreshStep DEF analyze_drift, DriftOps
  <1>6. ASSUME NEW d \in DriftIds, reject_drift(t, d) PROVE StepIsGood(t)
    <2> DEFINE r == [Idle EXCEPT !.pc = "reject", !.op = "reject", !.d = d,
                       !.seen = drift[d].status]
    <2>1. drift[d] \in DriftRow /\ d \in Nat
      BY ReadTypes DEF DriftIds
    <2>2. r \in ThreadRow
      BY <2>1, IdleType DEF ThreadRow, Steps, Ops, DriftRow
    <2>3. r.pc = "reject" /\ r.op = "reject" /\ r.rebind = 0 /\ r.m = 0 /\ r.d = d
      BY DEF Idle
    <2>4. Become(t, r)
      BY <1>6 DEF reject_drift
    <2> HIDE DEF r
    <2>5. QED
      BY <1>6, <2>1, <2>2, <2>3, <2>4, FreshStep DEF reject_drift, DriftOps
  <1>7. QED
    BY <1>1, <1>2, <1>3, <1>4, <1>5, <1>6 DEF Begin

(* For a step that also writes to the tables. *)
LEMMA WritingStep ==
    ASSUME TypeOK, NEW t \in Threads, NEW r \in ThreadRow, Become(t, r),
           event' \in [Events -> EventRow], mapping' \in Seq(MappingRow),
           drift' \in Seq(DriftRow), recipe' \in 0 .. Len(mapping),
           failures' \in 0 .. MaxFailures, Grows, MemoryOf(t)'
    PROVE  StepIsGood(t)
  <1>1. Len(mapping) \in Nat /\ Len(mapping') \in Nat
    BY DEF TypeOK
  <1>2. TypeOK'
    BY <1>1, BecomeType DEF TypeOK, Grows
  <1>3. QED
    BY <1>2, BecomeType DEF StepIsGood

(* An update of one drift record that keeps its shape. *)
LEMMA DriftUpdate ==
    ASSUME TypeOK, NEW d \in DriftIds, NEW row \in DriftRow, row.shape = drift[d].shape,
           drift' = [drift EXCEPT ![d] = row], UNCHANGED mapping
    PROVE  /\ drift' \in Seq(DriftRow) /\ DriftIds' = DriftIds
           /\ drift'[d] = row
           /\ \A c \in DriftIds : c # d => drift'[c] = drift[c]
           /\ \A c \in DriftIds : drift'[c].shape = drift[c].shape
           /\ Grows
  <1>1. /\ drift' \in Seq(DriftRow) /\ Len(drift') = Len(drift)
        /\ \A c \in DriftIds : drift'[c] = IF c = d THEN row ELSE drift[c]
    BY ExceptSeq DEF TypeOK, DriftIds
  <1>2. Len(mapping) \in Nat /\ Len(drift) \in Nat
    BY DEF TypeOK
  <1>3. QED
    BY <1>1, <1>2 DEF Grows, DriftIds

LEMMA MergeStep ==
    ASSUME TypeOK, MemoryIsSound, NEW t \in Threads, MergeIntoDrift(t)
    PROVE  StepIsGood(t)
  <1> DEFINE c == th[t].cand
             row == [drift[c] EXCEPT
                       !.events = IF th[t].snap \cup {th[t].e} = th[t].snap THEN @
                                  ELSE th[t].snap \cup {th[t].e},
                       !.base = IF th[t].m = th[t].snapBase THEN @ ELSE th[t].m]
             r == [th[t] EXCEPT !.pc = "hold", !.rebind = 0, !.cand = 0,
                                !.snap = {}, !.snapBase = 0]
  <1>1. th[t] \in ThreadRow /\ th[t].pc = "writeDrift" /\ c # 0
    BY ReadTypes DEF MergeIntoDrift
  <1>2. /\ th[t].m <= Len(mapping)
        /\ th[t].op \in DriftOps => th[t].d \in DriftIds
        /\ th[t].e \in Events /\ th[t].m # 0
        /\ c \in DriftIds /\ drift[c].shape = detect_drift(th[t].e, th[t].m)
    BY <1>1 DEF MemoryIsSound, MemoryOf
  <1>3. drift[c] \in DriftRow
    BY <1>2, ReadTypes
  <1>4. row \in DriftRow /\ row.shape = drift[c].shape
    BY <1>1, <1>2, <1>3 DEF DriftRow, ThreadRow
  <1>5. drift' = [drift EXCEPT ![c] = row] /\ UNCHANGED mapping
    BY DEF MergeIntoDrift
  <1> HIDE DEF row
  <1>6. drift' \in Seq(DriftRow) /\ Grows /\ DriftIds' = DriftIds /\ drift'[c].shape = drift[c].shape
    BY <1>2, <1>4, <1>5, DriftUpdate
  <1>7. r \in ThreadRow /\ Become(t, r)
    BY <1>1 DEF MergeIntoDrift, ThreadRow, Steps
  <1>8. th'[t] = r
    BY <1>7, BecomeType
  <1>9. /\ th'[t].pc = "hold" /\ th'[t].rebind = 0 /\ th'[t].m = th[t].m /\ th'[t].e = th[t].e
        /\ th'[t].op = th[t].op /\ th'[t].d = th[t].d
    BY <1>1, <1>8 DEF ThreadRow
  <1>10. MemoryOf(t)'
    <2>1. detect_drift(th[t].e, th[t].m)' = detect_drift(th[t].e, th[t].m)
      BY <1>5, <1>9 DEF detect_drift
    <2>2. \E d \in DriftIds' : drift'[d].shape = detect_drift(th[t].e, th[t].m)'
      BY <1>2, <1>6, <2>1
    <2>3. Len(mapping)' = Len(mapping) /\ Len(mapping) \in Nat
      BY <1>5, ReadTypes
    <2>4. QED
      BY <1>2, <1>6, <1>9, <2>2, <2>3 DEF MemoryOf
  <1>11. recipe' \in 0 .. Len(mapping)
    BY ReadTypes DEF MergeIntoDrift
  <1>12. QED
    BY <1>5, <1>6, <1>7, <1>10, <1>11, WritingStep DEF MergeIntoDrift, TypeOK

LEMMA InsertStep ==
    ASSUME TypeOK, MemoryIsSound, NEW t \in Threads, InsertDrift(t)
    PROVE  StepIsGood(t)
  <1> DEFINE row == [status |-> "detected", shape |-> detect_drift(th[t].e, th[t].m),
                     events |-> {th[t].e}, base |-> th[t].m,
                     analyzed |-> FALSE, proposal |-> {}]
             r == [th[t] EXCEPT !.pc = "hold", !.rebind = 0]
             n == Len(drift) + 1
  <1>1. th[t] \in ThreadRow /\ th[t].pc = "writeDrift"
    BY ReadTypes DEF InsertDrift
  <1>2. /\ th[t].m <= Len(mapping)
        /\ th[t].op \in DriftOps => th[t].d \in DriftIds
        /\ th[t].e \in Events /\ th[t].m # 0
    BY <1>1 DEF MemoryIsSound, MemoryOf
  <1>3. row \in DriftRow
    BY <1>1, <1>2, CarriesAssumption DEF DriftRow, ThreadRow, _OPEN_DRIFT, detect_drift
  <1>4. drift' = Append(drift, row) /\ UNCHANGED mapping
    BY DEF InsertDrift
  <1>5. row.shape = detect_drift(th[t].e, th[t].m)
    OBVIOUS
  <1> HIDE DEF row
  <1>6. /\ drift' \in Seq(DriftRow) /\ Len(drift') = n /\ drift'[n] = row
        /\ \A d \in DriftIds : drift'[d] = drift[d]
    BY <1>3, <1>4, AppendRow DEF TypeOK, DriftIds
  <1>7. Len(drift) \in Nat /\ Len(mapping) \in Nat
    BY ReadTypes
  <1>8. Grows
    BY <1>4, <1>6, <1>7 DEF Grows, DriftIds
  <1>9. r \in ThreadRow /\ Become(t, r)
    BY <1>1 DEF InsertDrift, ThreadRow, Steps
  <1>10. th'[t] = r
    BY <1>9, BecomeType
  <1>11. /\ th'[t].pc = "hold" /\ th'[t].rebind = 0 /\ th'[t].m = th[t].m /\ th'[t].e = th[t].e
         /\ th'[t].op = th[t].op /\ th'[t].d = th[t].d
    BY <1>1, <1>10 DEF ThreadRow
  <1>12. MemoryOf(t)'
    <2>1. detect_drift(th[t].e, th[t].m)' = detect_drift(th[t].e, th[t].m)
      BY <1>4, <1>11 DEF detect_drift
    <2>2. DriftIds \subseteq DriftIds' /\ n \in DriftIds'
      BY <1>6, <1>7 DEF DriftIds
    <2>3. \E d \in DriftIds' : drift'[d].shape = detect_drift(th[t].e, th[t].m)'
      BY <1>5, <1>6, <2>1, <2>2
    <2>4. Len(mapping)' = Len(mapping) /\ Len(mapping) \in Nat
      BY <1>4, ReadTypes
    <2>5. QED
      BY <1>2, <1>11, <2>2, <2>3, <2>4 DEF MemoryOf
  <1>13. recipe' \in 0 .. Len(mapping)
    BY ReadTypes DEF InsertDrift
  <1>14. QED
    BY <1>4, <1>6, <1>8, <1>9, <1>12, <1>13, WritingStep DEF InsertDrift, TypeOK

LEMMA StoreStep ==
    ASSUME TypeOK, MemoryIsSound, NEW t \in Threads, NEW row \in EventRow,
           th[t].pc \in {"hold", "release"}, StoreEvent(t, row)
    PROVE  StepIsGood(t)
  <1> DEFINE rest == th[t].todo \ {th[t].e}
             r1 == [th[t] EXCEPT !.pc = "compute", !.todo = rest, !.e = NoEvent, !.rebind = 0]
             r2 == [th[t] EXCEPT !.pc = "finish", !.todo = {}, !.e = NoEvent, !.m = 0, !.rebind = 0]
             r == AfterEvent(t)
  <1>1. th[t] \in ThreadRow
    BY ReadTypes
  <1>2. /\ th[t].m <= Len(mapping) /\ th[t].e \in Events
        /\ th[t].op \in DriftOps => th[t].d \in DriftIds
    BY DEF MemoryIsSound, MemoryOf
  <1>3. r1 \in ThreadRow /\ r2 \in ThreadRow
    BY <1>1 DEF ThreadRow, Steps
  <1>4. /\ r1.pc = "compute" /\ r1.op = th[t].op /\ r1.d = th[t].d /\ r1.m = th[t].m /\ r1.rebind = 0
        /\ r2.pc = "finish" /\ r2.op = th[t].op /\ r2.d = th[t].d /\ r2.m = 0 /\ r2.rebind = 0
        /\ Idle.pc = "idle" /\ Idle.op = "none" /\ Idle.m = 0 /\ Idle.rebind = 0
    BY <1>1 DEF ThreadRow, Idle
  <1>5. r = r1 \/ (r = r2 /\ th[t].op \in DriftOps) \/ r = Idle
    BY DEF AfterEvent, DriftOps
  <1> HIDE DEF r, r1, r2
  <1>6. r \in ThreadRow /\ Become(t, r)
    BY <1>3, <1>5, IdleType DEF StoreEvent, r
  <1>7. th'[t] = r
    BY <1>6, BecomeType
  <1>8. /\ th'[t].pc \in {"compute", "finish", "idle"}
        /\ th'[t].pc = "finish" => th'[t].op \in DriftOps
        /\ th'[t].op \in DriftOps => th'[t].d \in DriftIds
        /\ th'[t].rebind = 0 /\ th'[t].m <= Len(mapping)
    BY <1>2, <1>4, <1>5, <1>7, ReadTypes DEF DriftOps
  <1>9. UNCHANGED <<mapping, drift, failures>> /\ Grows
    BY ReadTypes DEF StoreEvent, Grows
  <1>10. MemoryOf(t)'
    BY <1>8, <1>9, ReadTypes DEF MemoryOf, DriftIds
  <1>11. event' \in [Events -> EventRow]
    BY DEF StoreEvent, TypeOK
  <1>12. recipe' \in 0 .. Len(mapping)
    BY ReadTypes DEF StoreEvent
  <1>13. QED
    BY <1>6, <1>9, <1>10, <1>11, <1>12, WritingStep DEF TypeOK

LEMMA VersionStep ==
    ASSUME TypeOK, MemoryIsSound, NEW t \in Threads, ReadVersion(t)
    PROVE  StepIsGood(t)
  <1> DEFINE r(v) == [th[t] EXCEPT !.pc = "publish", !.ver = v]
  <1>1. th[t] \in ThreadRow /\ th[t].pc = "version"
    BY ReadTypes DEF ReadVersion
  <1>2. PICK v \in Nat : Become(t, r(v))
    BY ReadTypes DEF ReadVersion, MappingRow
  <1>3. r(v) \in ThreadRow
    BY <1>1 DEF ThreadRow, Steps
  <1>4. th'[t] = r(v)
    BY <1>2, <1>3, BecomeType
  <1>5. /\ th'[t].pc = "publish" /\ th'[t].m = th[t].m /\ th'[t].rebind = th[t].rebind
        /\ th'[t].op = th[t].op /\ th'[t].d = th[t].d /\ th'[t].base = th[t].base
    BY <1>1, <1>4 DEF ThreadRow
  <1>6. /\ th[t].rebind <= Len(mapping) /\ th[t].m <= Len(mapping)
        /\ th[t].op \in DriftOps /\ th[t].d \in DriftIds /\ th[t].base \in MappingIds
    BY <1>1 DEF MemoryIsSound, MemoryOf
  <1>7. UNCHANGED <<event, mapping, drift, recipe, failures>>
    BY DEF ReadVersion
  <1>8. MemoryOf(t)'
    BY <1>5, <1>6, <1>7 DEF MemoryOf, DriftIds, MappingIds
  <1>9. QED
    BY <1>2, <1>3, <1>7, <1>8, QuietStep

LEMMA PublishStep ==
    ASSUME TypeOK, MemoryIsSound, NEW t \in Threads, _create_versioned_mapping(t)
    PROVE  StepIsGood(t)
  <1> DEFINE answer == IF th[t].op = "correct" THEN th[t].answer ELSE {}
             version == [fields |-> mapping[th[t].base].fields \cup th[t].answer,
                         version |-> th[t].ver + 1, base |-> th[t].base]
             row == [drift[th[t].d] EXCEPT !.analyzed = TRUE, !.proposal = th[t].answer]
             r == [th[t] EXCEPT !.pc = "rebind", !.m = Len(mapping) + 1, !.ver = 0,
                     !.base = 0, !.fresh = FALSE, !.answer = answer]
  <1>1. th[t] \in ThreadRow /\ th[t].pc = "publish"
    BY ReadTypes DEF _create_versioned_mapping
  <1>2. /\ th[t].rebind <= Len(mapping)
        /\ th[t].op \in DriftOps /\ th[t].d \in DriftIds /\ th[t].base \in MappingIds
    BY <1>1 DEF MemoryIsSound, MemoryOf
  <1>3. version \in MappingRow
    <2>1. mapping[th[t].base] \in MappingRow
      BY <1>2, ReadTypes
    <2>2. QED
      BY <1>1, <2>1 DEF MappingRow, ThreadRow
  <1>4. row \in DriftRow /\ row.shape = drift[th[t].d].shape
    <2>1. drift[th[t].d] \in DriftRow
      BY <1>2, ReadTypes
    <2>2. QED
      BY <1>1, <2>1 DEF DriftRow, ThreadRow
  <1>5. Len(mapping) \in Nat /\ Len(drift) \in Nat
    BY ReadTypes
  <1>6. r \in ThreadRow
    <2>1. answer \in SUBSET Fields
      BY <1>1 DEF ThreadRow
    <2>2. Len(mapping) + 1 \in Nat /\ "rebind" \in Steps
      BY <1>5 DEF Steps
    <2> HIDE DEF answer
    <2>3. QED
      BY <1>1, <2>1, <2>2 DEF ThreadRow
  <1>7. /\ mapping' = Append(mapping, version) /\ Become(t, r)
        /\ drift' = IF th[t].fresh THEN [drift EXCEPT ![th[t].d] = row] ELSE drift
        /\ UNCHANGED <<event, recipe, failures>>
    BY DEF _create_versioned_mapping
  <1> HIDE DEF version, row
  <1>8. /\ mapping' \in Seq(MappingRow) /\ Len(mapping') = Len(mapping) + 1
        /\ \A m \in MappingIds : mapping'[m] = mapping[m]
    BY <1>3, <1>7, AppendRow DEF TypeOK, MappingIds
  <1>9. /\ drift' \in Seq(DriftRow) /\ Len(drift') = Len(drift)
        /\ \A d \in DriftIds : drift'[d].shape = drift[d].shape
    BY <1>2, <1>4, <1>7, ExceptSeq DEF TypeOK, DriftIds
  <1>10. Grows
    BY <1>5, <1>8, <1>9 DEF Grows
  <1>11. th'[t] = r
    BY <1>6, <1>7, BecomeType
  <1>12. /\ th'[t].pc = "rebind" /\ th'[t].m = Len(mapping) + 1
         /\ th'[t].rebind = th[t].rebind /\ th'[t].op = th[t].op /\ th'[t].d = th[t].d
    BY <1>1, <1>11 DEF ThreadRow
  <1>13. MemoryOf(t)'
    <2>1. th[t].rebind \in Nat
      BY <1>1 DEF ThreadRow
    <2>2. QED
      BY <1>2, <1>5, <1>8, <1>9, <1>12, <2>1 DEF MemoryOf, DriftIds
  <1>14. QED
    BY <1>6, <1>7, <1>8, <1>9, <1>10, <1>13, WritingStep DEF TypeOK

LEMMA RebindStep ==
    ASSUME TypeOK, MemoryIsSound, NEW t \in Threads, RebindAndCollapse(t)
    PROVE  StepIsGood(t)
  <1> DEFINE target == IF recipe # 0 /\ recipe # th[t].m THEN th[t].m ELSE 0
             r1 == [th[t] EXCEPT !.pc = "select", !.rebind = target]
             r2 == [th[t] EXCEPT !.pc = "select"]
             k == th[t].d
             keeper == [drift[k] EXCEPT !.events =
                          @ \cup UNION {drift[s].events : s \in Siblings(k)}]
             folded(c) == [drift[c] EXCEPT !.status = "rejected"]
  <1>1. th[t] \in ThreadRow /\ th[t].pc = "rebind"
    BY ReadTypes DEF RebindAndCollapse
  <1>2. /\ th[t].rebind <= Len(mapping) /\ th[t].m <= Len(mapping)
        /\ th[t].op \in DriftOps /\ k \in DriftIds
    BY <1>1 DEF MemoryIsSound, MemoryOf
  <1>3. /\ Len(mapping) \in Nat /\ Len(drift) \in Nat /\ target \in 0 .. Len(mapping)
    BY <1>1, <1>2, ReadTypes DEF ThreadRow
  <1>4. r1 \in ThreadRow /\ r2 \in ThreadRow
    BY <1>1, <1>3 DEF ThreadRow, Steps
  <1>5. UNCHANGED <<event, mapping, failures>>
    BY DEF RebindAndCollapse
  <1>6. /\ drift' \in Seq(DriftRow) /\ Len(drift') = Len(drift)
        /\ \A d \in DriftIds : drift'[d].shape = drift[d].shape
    <2>1. CASE UNCHANGED drift
      BY <2>1 DEF TypeOK
    <2>2. CASE drift' = [c \in DriftIds |-> IF c = k THEN keeper
                                            ELSE IF c \in Siblings(k) THEN folded(c)
                                            ELSE drift[c]]
      <3>1. \A c \in DriftIds : drift[c] \in DriftRow
        BY ReadTypes
      <3>2. \A s \in Siblings(k) : drift[s].events \subseteq Events
        BY <3>1 DEF Siblings, OpenDrifts, DriftRow
      <3>3. keeper \in DriftRow /\ keeper.shape = drift[k].shape
        BY <1>2, <3>1, <3>2 DEF DriftRow
      <3>4. \A c \in DriftIds : folded(c) \in DriftRow /\ folded(c).shape = drift[c].shape
        BY <3>1 DEF DriftRow, ResolvedStatus
      <3> HIDE DEF keeper, folded
      <3>5. \A c \in DriftIds : drift'[c] \in DriftRow /\ drift'[c].shape = drift[c].shape
        BY <2>2, <3>1, <3>3, <3>4
      <3>6. drift' \in [1 .. Len(drift) -> DriftRow]
        BY <2>2, <3>5 DEF DriftIds
      <3>7. QED
        BY <1>3, <3>5, <3>6, SeqDef, LenProperties
    <2>3. QED
      BY <2>1, <2>2 DEF RebindAndCollapse
  <1>7. recipe' \in 0 .. Len(mapping)
    BY <1>3, ReadTypes DEF RebindAndCollapse, TypeOK
  <1>8. Grows
    BY <1>3, <1>5, <1>6 DEF Grows
  <1>9. \A r \in {r1, r2} : /\ r.pc = "select" /\ r.m = th[t].m /\ r.rebind \in 0 .. Len(mapping)
                            /\ r.op = th[t].op /\ r.d = th[t].d
    BY <1>1, <1>2, <1>3, ReadTypes DEF ThreadRow
  <1>10. PICK r \in {r1, r2} : Become(t, r)
    BY DEF RebindAndCollapse
  <1> HIDE DEF r1, r2
  <1>11. r \in ThreadRow /\ th'[t] = r
    BY <1>4, <1>10, BecomeType
  <1>12. MemoryOf(t)'
    BY <1>2, <1>3, <1>5, <1>6, <1>9, <1>11 DEF MemoryOf, DriftIds
  <1>13. QED
    BY <1>5, <1>6, <1>7, <1>8, <1>10, <1>11, <1>12, WritingStep DEF TypeOK

LEMMA SelectStep ==
    ASSUME TypeOK, MemoryIsSound, NEW t \in Threads, reprocess_quarantined(t)
    PROVE  StepIsGood(t)
  <1> DEFINE held == {e \in Events : event[e].status = "quarantined"}
             r == [th[t] EXCEPT !.pc = IF held = {} THEN "finish" ELSE "compute",
                                !.todo = held, !.m = 0]
  <1>1. th[t] \in ThreadRow /\ th[t].pc = "select"
    BY ReadTypes DEF reprocess_quarantined
  <1>2. r \in ThreadRow
    BY <1>1 DEF ThreadRow, Steps
  <1>3. Become(t, r) /\ UNCHANGED <<event, mapping, drift, recipe, failures>>
    BY DEF reprocess_quarantined
  <1>4. th'[t] = r
    BY <1>2, <1>3, BecomeType
  <1>5. /\ th'[t].pc \in {"finish", "compute"} /\ th'[t].m = 0
        /\ th'[t].rebind = th[t].rebind /\ th'[t].op = th[t].op /\ th'[t].d = th[t].d
    BY <1>1, <1>4 DEF ThreadRow
  <1>6. th[t].rebind <= Len(mapping) /\ th[t].op \in DriftOps /\ th[t].d \in DriftIds
    BY <1>1 DEF MemoryIsSound, MemoryOf
  <1>7. MemoryOf(t)'
    BY <1>3, <1>5, <1>6, ReadTypes DEF MemoryOf, DriftIds
  <1>8. QED
    BY <1>2, <1>3, <1>7, QuietStep

LEMMA FinishStep ==
    ASSUME TypeOK, MemoryIsSound, NEW t \in Threads, FinishApproval(t)
    PROVE  StepIsGood(t)
  <1> DEFINE k == th[t].d
             row1 == [drift[k] EXCEPT !.status = "approved", !.analyzed = TRUE,
                                      !.proposal = th[t].answer]
             row2 == [drift[k] EXCEPT !.status = "approved"]
  <1>1. th[t] \in ThreadRow /\ k \in DriftIds
    BY ReadTypes DEF FinishApproval, MemoryIsSound, MemoryOf
  <1>2. drift[k] \in DriftRow
    BY <1>1, ReadTypes
  <1>3. /\ row1 \in DriftRow /\ row1.shape = drift[k].shape
        /\ row2 \in DriftRow /\ row2.shape = drift[k].shape
    BY <1>1, <1>2 DEF DriftRow, ThreadRow, ResolvedStatus
  <1>4. PICK row \in {row1, row2} : drift' = [drift EXCEPT ![k] = row]
    BY DEF FinishApproval
  <1> HIDE DEF row1, row2
  <1>5. UNCHANGED <<event, mapping, failures>> /\ Become(t, Idle)
    BY DEF FinishApproval
  <1>6. drift' \in Seq(DriftRow) /\ Grows
    BY <1>1, <1>3, <1>4, <1>5, DriftUpdate
  <1>7. recipe' \in 0 .. Len(mapping)
    BY ReadTypes DEF FinishApproval
  <1>8. th'[t] = Idle
    BY <1>5, IdleType, BecomeType
  <1>9. MemoryOf(t)'
    BY <1>5, <1>8, ReadTypes DEF MemoryOf, Idle, DriftOps
  <1>10. QED
    BY <1>5, <1>6, <1>7, <1>9, IdleType, WritingStep DEF TypeOK

LEMMA DecideStep ==
    ASSUME TypeOK, MemoryIsSound, NEW t \in Threads, _analyze_and_decide(t)
    PROVE  StepIsGood(t)
  <1> DEFINE k == th[t].d
             status(s) == IF th[t].seen = s THEN drift[k].status ELSE s
             row(a, s) == [drift[k] EXCEPT !.analyzed = TRUE, !.proposal = a,
                                           !.status = status(s)]
  <1>1. th[t] \in ThreadRow /\ k \in DriftIds
    BY ReadTypes DEF _analyze_and_decide, MemoryIsSound, MemoryOf
  <1>2. drift[k] \in DriftRow
    BY <1>1, ReadTypes
  <1>3. PICK a \in SUBSET Fields, s \in {"analyzed", "review"} :
          drift' = [drift EXCEPT ![k] = row(a, s)]
    <2>1. Answers(drift[k].shape) \subseteq SUBSET Fields
      BY <1>2 DEF Answers, DriftRow
    <2>2. QED
      BY <2>1 DEF _analyze_and_decide
  <1>4. status(s) \in _OPEN_DRIFT \cup ResolvedStatus
    BY <1>2 DEF DriftRow, _OPEN_DRIFT
  <1> HIDE DEF status
  <1>5. row(a, s) \in DriftRow /\ row(a, s).shape = drift[k].shape
    BY <1>2, <1>4 DEF DriftRow
  <1> HIDE DEF row
  <1>6. UNCHANGED <<event, mapping, recipe, failures>> /\ Become(t, Idle)
    BY DEF _analyze_and_decide
  <1>7. drift' \in Seq(DriftRow) /\ Grows
    BY <1>1, <1>3, <1>5, <1>6, DriftUpdate
  <1>8. th'[t] = Idle
    BY <1>6, IdleType, BecomeType
  <1>9. MemoryOf(t)'
    BY <1>6, <1>8, ReadTypes DEF MemoryOf, Idle, DriftOps
  <1>10. QED
    BY <1>6, <1>7, <1>9, IdleType, WritingStep DEF TypeOK

LEMMA AutoApproveStep ==
    ASSUME TypeOK, MemoryIsSound, NEW t \in Threads, AutoApprove(t)
    PROVE  StepIsGood(t)
  <1> DEFINE r == [th[t] EXCEPT !.pc = "version", !.op = "approve", !.seen = "none",
                     !.answer = drift[th[t].d].shape, !.fresh = TRUE]
  <1>1. th[t] \in ThreadRow /\ th[t].pc = "decide"
    BY ReadTypes DEF AutoApprove
  <1>2. /\ th[t].rebind <= Len(mapping) /\ th[t].m <= Len(mapping)
        /\ th[t].d \in DriftIds /\ th[t].base \in MappingIds
    BY <1>1 DEF MemoryIsSound, MemoryOf
  <1>3. drift[th[t].d].shape \in SUBSET Fields
    BY <1>2, ReadTypes DEF DriftRow
  <1>4. r \in ThreadRow
    BY <1>1, <1>3 DEF ThreadRow, Steps, Ops
  <1>5. Become(t, r) /\ UNCHANGED <<event, mapping, drift, recipe, failures>>
    BY DEF AutoApprove
  <1>6. th'[t] = r
    BY <1>4, <1>5, BecomeType
  <1>7. /\ th'[t].pc = "version" /\ th'[t].op = "approve" /\ th'[t].m = th[t].m
        /\ th'[t].rebind = th[t].rebind /\ th'[t].d = th[t].d /\ th'[t].base = th[t].base
    BY <1>1, <1>6 DEF ThreadRow
  <1>8. MemoryOf(t)'
    BY <1>2, <1>5, <1>7 DEF MemoryOf, DriftIds, MappingIds, DriftOps
  <1>9. QED
    BY <1>4, <1>5, <1>8, QuietStep

LEMMA CommitRejectStep ==
    ASSUME TypeOK, MemoryIsSound, NEW t \in Threads, CommitReject(t)
    PROVE  StepIsGood(t)
  <1> DEFINE k == th[t].d
             row == [drift[k] EXCEPT !.status = "rejected"]
  <1>1. k \in DriftIds
    BY ReadTypes DEF CommitReject, MemoryIsSound, MemoryOf
  <1>2. row \in DriftRow /\ row.shape = drift[k].shape
    BY <1>1, ReadTypes DEF DriftRow, ResolvedStatus
  <1>3. UNCHANGED <<event, mapping, recipe, failures>> /\ Become(t, Idle)
    BY DEF CommitReject
  <1>4. drift' = drift \/ drift' = [drift EXCEPT ![k] = row]
    BY DEF CommitReject
  <1> HIDE DEF row
  <1>5. drift' \in Seq(DriftRow) /\ Grows
    <2>1. CASE drift' = drift
      BY <1>3, <2>1, ReadTypes DEF Grows, TypeOK
    <2>2. QED
      BY <1>1, <1>2, <1>3, <1>4, <2>1, DriftUpdate
  <1>6. th'[t] = Idle
    BY <1>3, IdleType, BecomeType
  <1>7. MemoryOf(t)'
    BY <1>3, <1>6, ReadTypes DEF MemoryOf, Idle, DriftOps
  <1>8. QED
    BY <1>3, <1>5, <1>7, IdleType, WritingStep DEF TypeOK

LEMMA FailStep ==
    ASSUME TypeOK, MemoryIsSound, NEW t \in Threads, Fail(t)
    PROVE  StepIsGood(t)
  <1> DEFINE lost(e) == [event[e] EXCEPT !.status = "lost"]
  <1>1. UNCHANGED <<mapping, drift, recipe>> /\ Become(t, Idle)
    BY DEF Fail
  <1>2. event' \in [Events -> EventRow]
    <2>1. \A e \in Events : event[e] \in EventRow /\ lost(e) \in EventRow
      BY DEF TypeOK, EventRow, EventStatus
    <2>2. event' = [e \in Events |-> IF th[t].op = "ingest" /\ e \in th[t].todo
                                     THEN lost(e) ELSE event[e]]
      BY DEF Fail
    <2> HIDE DEF lost
    <2>3. QED
      BY <2>1, <2>2
  <1>3. failures' \in 0 .. MaxFailures
    BY BoundsAssumption DEF Fail, TypeOK
  <1>4. th'[t] = Idle
    BY <1>1, IdleType, BecomeType
  <1>5. MemoryOf(t)'
    BY <1>1, <1>4, ReadTypes DEF MemoryOf, Idle, DriftOps
  <1>6. Grows
    BY <1>1, ReadTypes DEF Grows
  <1>7. QED
    BY <1>1, <1>2, <1>3, <1>5, <1>6, IdleType, WritingStep DEF TypeOK

-----------------------------------------------------------------------------
(* The inductive invariant.  The facts about the tables do not survive a   *)
(* step by themselves: a step writes what its thread read or decided in    *)
(* earlier ones, so they rest on MemoryIsSound; and what a thread reads    *)
(* into its memory is sound because the tables are.                        *)
IInv ==
    /\ TypeOK
    /\ MemoryIsSound
    /\ RequestBeyondBaseline
    /\ ReleasedIsUnderstood
    /\ HeldIsExplained
    /\ RequestListsItsEvents

Step(t) == Begin(t) \/ Work(t) \/ Fail(t)

LEMMA EveryStepIsGood ==
    ASSUME IInv, NEW t \in Threads, Step(t)
    PROVE  StepIsGood(t)
  <1> USE DEF IInv
  <1>1. [status |-> "quarantined", via |-> 0] \in EventRow
    BY DEF EventRow, EventStatus
  <1>2. Hold(t) => StepIsGood(t)
    BY <1>1, StoreStep DEF Hold
  <1>3. Release(t) => StepIsGood(t)
    <2>1. [status |-> "normalized", via |-> th[t].m] \in EventRow
      BY ReadTypes DEF EventRow, EventStatus
    <2>2. QED
      BY <2>1, StoreStep DEF Release
  <1>4. Begin(t) => StepIsGood(t)
    BY BeginStep
  <1>5. Fail(t) => StepIsGood(t)
    BY FailStep
  <1>6. Work(t) => StepIsGood(t)
    BY <1>2, <1>3, ComputeStep, ReadOpenDriftStep, MergeStep, InsertStep, VersionStep,
       PublishStep, RebindStep, SelectStep, FinishStep, DecideStep, AutoApproveStep,
       CommitRejectStep DEF Work
  <1>7. QED
    BY <1>4, <1>5, <1>6 DEF Step

(* What a thread remembers survives the steps of the others: tables only   *)
(* grow, and a request never changes what it asks about.                   *)
LEMMA MemorySurvives ==
    ASSUME IInv, NEW t \in Threads, StepIsGood(t)
    PROVE  MemoryIsSound'
  <1> SUFFICES ASSUME NEW u \in Threads, u # t PROVE MemoryOf(u)'
    BY DEF MemoryIsSound, StepIsGood
  <1>1. th'[u] = th[u] /\ th[u] \in ThreadRow
    BY DEF StepIsGood, IInv, TypeOK
  <1>2. Len(mapping) <= Len(mapping') /\ Len(drift) <= Len(drift')
    BY DEF StepIsGood, Grows
  <1>3. /\ Len(mapping) \in Nat /\ Len(drift) \in Nat
        /\ Len(mapping') \in Nat /\ Len(drift') \in Nat
    BY DEF IInv, StepIsGood, TypeOK
  <1>4. MappingIds \subseteq MappingIds' /\ DriftIds \subseteq DriftIds'
    BY <1>2, <1>3 DEF MappingIds, DriftIds
  <1>5. th[u].m # 0 /\ th[u].m <= Len(mapping) =>
            detect_drift(th[u].e, th[u].m)' = detect_drift(th[u].e, th[u].m)
    <2> SUFFICES ASSUME th[u].m # 0, th[u].m <= Len(mapping)
                 PROVE  detect_drift(th[u].e, th[u].m)' = detect_drift(th[u].e, th[u].m)
      OBVIOUS
    <2>1. th[u].m \in MappingIds
      BY <1>1, <1>3 DEF MappingIds, ThreadRow
    <2>2. mapping'[th[u].m] = mapping[th[u].m]
      BY <2>1 DEF StepIsGood, Grows
    <2>3. QED
      BY <1>1, <2>2 DEF detect_drift
  <1>6. \A d \in DriftIds : drift'[d].shape = drift[d].shape
    BY DEF StepIsGood, Grows
  <1>7. MemoryOf(u)
    BY DEF IInv, MemoryIsSound
  <1>8. th[u].rebind \in Nat /\ th[u].m \in Nat
    BY <1>1 DEF ThreadRow
  <1>9. QED
    <2>1. /\ th[u].rebind <= Len(mapping') /\ th[u].m <= Len(mapping')
      BY <1>2, <1>3, <1>7, <1>8 DEF MemoryOf
    <2>2. th[u].pc = "writeDrift" /\ th[u].cand # 0 =>
              /\ th[u].cand \in DriftIds'
              /\ drift'[th[u].cand].shape = detect_drift(th[u].e, th[u].m)'
              /\ \A x \in th[u].snap : drift'[th[u].cand].shape \subseteq Carries[x]
      BY <1>4, <1>5, <1>6, <1>7 DEF MemoryOf
    <2>3. th[u].pc = "hold" =>
              \E d \in DriftIds' : drift'[d].shape = detect_drift(th[u].e, th[u].m)'
      BY <1>4, <1>5, <1>6, <1>7 DEF MemoryOf
    <2>4. th[u].pc = "release" => detect_drift(th[u].e, th[u].m)' = {}
      BY <1>5, <1>7 DEF MemoryOf
    <2>5. th[u].pc \in {"readDrift", "writeDrift"} => detect_drift(th[u].e, th[u].m)' # {}
      BY <1>5, <1>7 DEF MemoryOf
    <2>6. QED
      BY <1>1, <1>4, <1>7, <2>1, <2>2, <2>3, <2>4, <2>5 DEF MemoryOf

(* All steps but the two of create_drift leave the baseline of every       *)
(* request, and list under a request only events of requests of its shape. *)
KeepsRequests ==
    /\ DriftIds' = DriftIds
    /\ \A d \in DriftIds : drift'[d].base = drift[d].base
    /\ \A d \in DriftIds : \A x \in drift'[d].events :
           \E s \in DriftIds : drift[s].shape = drift[d].shape /\ x \in drift[s].events

LEMMA RowKept ==
    ASSUME TypeOK, NEW k \in DriftIds, NEW row \in DriftRow,
           row.base = drift[k].base, row.events = drift[k].events,
           drift' = [drift EXCEPT ![k] = row]
    PROVE  KeepsRequests
  <1>1. /\ Len(drift') = Len(drift)
        /\ \A c \in DriftIds : drift'[c] = IF c = k THEN row ELSE drift[c]
    BY ExceptSeq DEF TypeOK, DriftIds
  <1>2. QED
    BY <1>1 DEF KeepsRequests, DriftIds

LEMMA RequestsKept ==
    ASSUME IInv, NEW t \in Threads, Step(t), ~MergeIntoDrift(t), ~InsertDrift(t)
    PROVE  KeepsRequests
  <1> USE DEF IInv
  <1>1. CASE UNCHANGED drift
    BY <1>1 DEF KeepsRequests, DriftIds
  <1> DEFINE k == th[t].d
  <1>2. th[t] \in ThreadRow /\ (k \in DriftIds => drift[k] \in DriftRow)
    BY ReadTypes
  <1>3. ASSUME th[t].pc \in {"publish", "rebind", "finish", "decide", "reject"}
        PROVE  k \in DriftIds
    BY <1>3 DEF MemoryIsSound, MemoryOf
  <1>4. CASE _create_versioned_mapping(t)
    <2> DEFINE row == [drift[k] EXCEPT !.analyzed = TRUE, !.proposal = th[t].answer]
    <2>1. k \in DriftIds
      BY <1>3, <1>4 DEF _create_versioned_mapping
    <2>2. row \in DriftRow /\ row.base = drift[k].base /\ row.events = drift[k].events
      BY <1>2, <2>1 DEF DriftRow, ThreadRow
    <2>3. drift' = drift \/ drift' = [drift EXCEPT ![k] = row]
      BY <1>4 DEF _create_versioned_mapping
    <2> HIDE DEF row
    <2>4. QED
      BY <1>1, <2>1, <2>2, <2>3, RowKept
  <1>5. CASE FinishApproval(t)
    <2> DEFINE row1 == [drift[k] EXCEPT !.status = "approved", !.analyzed = TRUE,
                                        !.proposal = th[t].answer]
               row2 == [drift[k] EXCEPT !.status = "approved"]
    <2>1. k \in DriftIds
      BY <1>3, <1>5 DEF FinishApproval
    <2>2. \A row \in {row1, row2} :
            row \in DriftRow /\ row.base = drift[k].base /\ row.events = drift[k].events
      BY <1>2, <2>1 DEF DriftRow, ThreadRow, ResolvedStatus
    <2>3. PICK row \in {row1, row2} : drift' = [drift EXCEPT ![k] = row]
      BY <1>5 DEF FinishApproval
    <2> HIDE DEF row1, row2
    <2>4. QED
      BY <2>1, <2>2, <2>3, RowKept
  <1>6. CASE _analyze_and_decide(t)
    <2> DEFINE status(s) == IF th[t].seen = s THEN drift[k].status ELSE s
               row(a, s) == [drift[k] EXCEPT !.analyzed = TRUE, !.proposal = a,
                                             !.status = status(s)]
    <2>1. k \in DriftIds
      BY <1>3, <1>6 DEF _analyze_and_decide
    <2>2. PICK a \in SUBSET Fields, s \in {"analyzed", "review"} :
            drift' = [drift EXCEPT ![k] = row(a, s)]
      <3>1. Answers(drift[k].shape) \subseteq SUBSET Fields
        BY <1>2, <2>1 DEF Answers, DriftRow
      <3>2. QED
        BY <1>6, <3>1 DEF _analyze_and_decide
    <2>3. status(s) \in _OPEN_DRIFT \cup ResolvedStatus
      BY <1>2, <2>1 DEF DriftRow, _OPEN_DRIFT
    <2> HIDE DEF status
    <2>4. row(a, s) \in DriftRow /\ row(a, s).base = drift[k].base
          /\ row(a, s).events = drift[k].events
      BY <1>2, <2>1, <2>3 DEF DriftRow
    <2> HIDE DEF row
    <2>5. QED
      BY <2>1, <2>2, <2>4, RowKept
  <1>7. CASE CommitReject(t)
    <2> DEFINE row == [drift[k] EXCEPT !.status = "rejected"]
    <2>1. k \in DriftIds
      BY <1>3, <1>7 DEF CommitReject
    <2>2. row \in DriftRow /\ row.base = drift[k].base /\ row.events = drift[k].events
      BY <1>2, <2>1 DEF DriftRow, ResolvedStatus
    <2>3. drift' = drift \/ drift' = [drift EXCEPT ![k] = row]
      BY <1>7 DEF CommitReject
    <2> HIDE DEF row
    <2>4. QED
      BY <1>1, <2>1, <2>2, <2>3, RowKept
  <1>8. CASE RebindAndCollapse(t)
    <2> DEFINE keeper == [drift[k] EXCEPT !.events =
                            @ \cup UNION {drift[s].events : s \in Siblings(k)}]
               folded(c) == [drift[c] EXCEPT !.status = "rejected"]
               table == [c \in DriftIds |-> IF c = k THEN keeper
                                            ELSE IF c \in Siblings(k) THEN folded(c)
                                            ELSE drift[c]]
    <2>1. k \in DriftIds
      BY <1>3, <1>8 DEF RebindAndCollapse
    <2>2. drift' = drift \/ drift' = table
      BY <1>8 DEF RebindAndCollapse
    <2>3. CASE drift' = table
      <3>1. \A c \in DriftIds : drift[c] \in DriftRow
        BY ReadTypes
      <3>2. \A s \in Siblings(k) : s \in DriftIds /\ drift[s].shape = drift[k].shape
        BY DEF Siblings, OpenDrifts
      <3>3. /\ keeper.base = drift[k].base
            /\ keeper.events = drift[k].events \cup UNION {drift[s].events : s \in Siblings(k)}
            /\ \A c \in DriftIds : /\ folded(c).base = drift[c].base
                                   /\ folded(c).events = drift[c].events
        BY <2>1, <3>1 DEF DriftRow
      <3> HIDE DEF keeper, folded
      <3>4. DriftIds' = DriftIds
        BY <1>8, RebindStep, <2>3, ReadTypes, LenProperties DEF DriftIds, StepIsGood, TypeOK
      <3>5. \A c \in DriftIds : drift'[c].base = drift[c].base
        BY <2>3, <3>3
      <3>6. ASSUME NEW c \in DriftIds, NEW x \in drift'[c].events
            PROVE  \E s \in DriftIds : drift[s].shape = drift[c].shape /\ x \in drift[s].events
        <4>1. CASE c = k
          <5>1. drift'[c].events = keeper.events
            BY <2>3, <4>1
          <5>2. x \in drift[k].events \/ \E s \in Siblings(k) : x \in drift[s].events
            BY <3>3, <3>6, <5>1
          <5>3. QED
            BY <2>1, <3>2, <4>1, <5>2
        <4>2. CASE c # k
          <5>1. drift'[c].events = drift[c].events
            BY <2>3, <3>3, <4>2
          <5>2. QED
            BY <3>6, <5>1
        <4>3. QED
          BY <4>1, <4>2
      <3>7. QED
        BY <3>4, <3>5, <3>6 DEF KeepsRequests
    <2>4. QED
      BY <1>1, <2>2, <2>3
  <1>9. CASE Begin(t)
    BY <1>1, <1>9 DEF Begin, process_payload, retry_event, approve_drift, correct_drift,
                      analyze_drift, reject_drift
  <1>10. CASE Fail(t)
    BY <1>1, <1>10 DEF Fail
  <1>11. CASE Work(t)
    BY <1>1, <1>4, <1>5, <1>6, <1>7, <1>8, <1>11
       DEF Work, _compute, ReadOpenDrift, Hold, Release, StoreEvent, ReadVersion,
           reprocess_quarantined, AutoApprove
  <1>12. QED
    BY <1>9, <1>10, <1>11 DEF Step

(* A merge re-points the baseline at the engine's mapping; what the engine *)
(* computed against that mapping is the record's shape.                    *)
LEMMA MergedRequest ==
    ASSUME IInv, NEW t \in Threads, MergeIntoDrift(t)
    PROVE  /\ DriftIds' = DriftIds
           /\ \A d \in DriftIds : d # th[t].cand => drift'[d] = drift[d]
           /\ th[t].cand \in DriftIds
           /\ drift'[th[t].cand].base \in {drift[th[t].cand].base, th[t].m}
           /\ drift'[th[t].cand].events
                \in {drift[th[t].cand].events, th[t].snap \cup {th[t].e}}
           /\ drift[th[t].cand].shape = detect_drift(th[t].e, th[t].m)
           /\ \A x \in th[t].snap : drift[th[t].cand].shape \subseteq Carries[x]
           /\ th[t].e \in Events /\ th[t].m \in MappingIds
  <1> USE DEF IInv
  <1> DEFINE c == th[t].cand
             ids == IF th[t].snap \cup {th[t].e} = th[t].snap THEN drift[c].events
                    ELSE th[t].snap \cup {th[t].e}
             base == IF th[t].m = th[t].snapBase THEN drift[c].base ELSE th[t].m
             row == [drift[c] EXCEPT !.events = ids, !.base = base]
  <1>1. th[t] \in ThreadRow /\ th[t].pc = "writeDrift" /\ c # 0
    BY ReadTypes DEF MergeIntoDrift
  <1>2. /\ c \in DriftIds /\ drift[c].shape = detect_drift(th[t].e, th[t].m)
        /\ \A x \in th[t].snap : drift[c].shape \subseteq Carries[x]
        /\ th[t].e \in Events /\ th[t].m # 0
    BY <1>1 DEF MemoryIsSound, MemoryOf
  <1>3. th[t].m \in MappingIds
    BY <1>1, <1>2, ReadTypes DEF MappingIds, ThreadRow
  <1>4. drift[c] \in DriftRow
    BY <1>2, ReadTypes
  <1>5. drift' = [drift EXCEPT ![c] = row]
    BY DEF MergeIntoDrift
  <1>6. /\ row.events \in {drift[c].events, th[t].snap \cup {th[t].e}}
        /\ row.base \in {drift[c].base, th[t].m}
    BY <1>4 DEF DriftRow
  <1> HIDE DEF row
  <1>7. /\ Len(drift') = Len(drift)
        /\ \A d \in DriftIds : drift'[d] = IF d = c THEN row ELSE drift[d]
    BY <1>2, <1>5, ExceptSeq, EveryStepIsGood DEF TypeOK, DriftIds, Step, Work, StepIsGood
  <1>8. QED
    BY <1>2, <1>3, <1>6, <1>7 DEF DriftIds

LEMMA InsertedRequest ==
    ASSUME IInv, NEW t \in Threads, InsertDrift(t)
    PROVE  /\ DriftIds' = DriftIds \cup {Len(drift) + 1}
           /\ \A d \in DriftIds : drift'[d] = drift[d]
           /\ drift'[Len(drift) + 1].shape = detect_drift(th[t].e, th[t].m)
           /\ drift'[Len(drift) + 1].base = th[t].m
           /\ drift'[Len(drift) + 1].events = {th[t].e}
           /\ detect_drift(th[t].e, th[t].m) # {}
           /\ th[t].e \in Events /\ th[t].m \in MappingIds
  <1> USE DEF IInv
  <1> DEFINE row == [status |-> "detected", shape |-> detect_drift(th[t].e, th[t].m),
                     events |-> {th[t].e}, base |-> th[t].m,
                     analyzed |-> FALSE, proposal |-> {}]
  <1>1. th[t] \in ThreadRow /\ th[t].pc = "writeDrift"
    BY ReadTypes DEF InsertDrift
  <1>2. th[t].e \in Events /\ th[t].m # 0 /\ detect_drift(th[t].e, th[t].m) # {}
    BY <1>1 DEF MemoryIsSound, MemoryOf
  <1>3. th[t].m \in MappingIds
    BY <1>1, <1>2, ReadTypes DEF MappingIds, ThreadRow
  <1>4. row \in DriftRow
    BY <1>1, <1>2, CarriesAssumption DEF DriftRow, ThreadRow, _OPEN_DRIFT, detect_drift
  <1>5. /\ row.shape = detect_drift(th[t].e, th[t].m) /\ row.base = th[t].m
        /\ row.events = {th[t].e}
    OBVIOUS
  <1>6. drift' = Append(drift, row)
    BY DEF InsertDrift
  <1> HIDE DEF row
  <1>7. /\ Len(drift') = Len(drift) + 1 /\ drift'[Len(drift) + 1] = row
        /\ \A d \in DriftIds : drift'[d] = drift[d]
    BY <1>4, <1>6, AppendRow DEF TypeOK, DriftIds
  <1>8. Len(drift) \in Nat
    BY ReadTypes
  <1>9. QED
    BY <1>2, <1>3, <1>5, <1>7, <1>8 DEF DriftIds

LEMMA BeyondStep ==
    ASSUME IInv, NEW t \in Threads, Step(t)
    PROVE  RequestBeyondBaseline'
  <1> DEFINE beyond(d, m) == m \in MappingIds /\ drift[d].shape # {}
                             /\ drift[d].shape \cap mapping[m].fields = {}
  <1>1. /\ \A m \in MappingIds : m \in MappingIds' /\ mapping'[m] = mapping[m]
        /\ \A d \in DriftIds : drift'[d].shape = drift[d].shape
    BY EveryStepIsGood DEF StepIsGood, Grows, MappingIds, TypeOK, IInv
  <1>2. \A d \in DriftIds : beyond(d, drift[d].base)
    BY DEF IInv, RequestBeyondBaseline
  <1>3. \A e, m : detect_drift(e, m) \cap mapping[m].fields = {}
    BY DEF detect_drift
  <1> SUFFICES ASSUME NEW d \in DriftIds'
               PROVE  /\ drift'[d].base \in MappingIds' /\ drift'[d].shape # {}
                      /\ drift'[d].shape \cap mapping'[drift'[d].base].fields = {}
    BY DEF RequestBeyondBaseline
  <1>4. CASE MergeIntoDrift(t)
    <2>1. d \in DriftIds /\ beyond(d, drift'[d].base)
      BY <1>2, <1>3, <1>4, MergedRequest
    <2>2. QED
      BY <1>1, <2>1
  <1>5. CASE InsertDrift(t)
    <2>1. CASE d \in DriftIds
      BY <1>1, <1>2, <1>5, <2>1, InsertedRequest
    <2>2. CASE d = Len(drift) + 1
      BY <1>1, <1>3, <1>5, <2>2, InsertedRequest
    <2>3. QED
      BY <1>5, <2>1, <2>2, InsertedRequest
  <1>6. CASE ~MergeIntoDrift(t) /\ ~InsertDrift(t)
    BY <1>1, <1>2, <1>6, RequestsKept DEF KeepsRequests
  <1>7. QED
    BY <1>4, <1>5, <1>6

LEMMA ListsStep ==
    ASSUME IInv, NEW t \in Threads, Step(t)
    PROVE  RequestListsItsEvents'
  <1>1. \A d \in DriftIds : drift'[d].shape = drift[d].shape
    BY EveryStepIsGood DEF StepIsGood, Grows
  <1>2. \A d \in DriftIds : \A x \in drift[d].events : drift[d].shape \subseteq Carries[x]
    BY DEF IInv, RequestListsItsEvents
  <1>3. \A e, m : detect_drift(e, m) \subseteq Carries[e]
    BY DEF detect_drift
  <1> SUFFICES ASSUME NEW d \in DriftIds', NEW x \in drift'[d].events
               PROVE  drift'[d].shape \subseteq Carries[x]
    BY DEF RequestListsItsEvents
  <1>4. CASE MergeIntoDrift(t)
    <2>1. d \in DriftIds
      BY <1>4, MergedRequest
    <2>2. CASE d = th[t].cand
      BY <1>1, <1>2, <1>3, <1>4, <2>1, <2>2, MergedRequest
    <2>3. CASE d # th[t].cand
      BY <1>2, <1>4, <2>1, <2>3, MergedRequest
    <2>4. QED
      BY <2>2, <2>3
  <1>5. CASE InsertDrift(t)
    BY <1>2, <1>3, <1>5, InsertedRequest
  <1>6. CASE ~MergeIntoDrift(t) /\ ~InsertDrift(t)
    BY <1>1, <1>2, <1>6, RequestsKept DEF KeepsRequests
  <1>7. QED
    BY <1>4, <1>5, <1>6

LEMMA EventEffect ==
    ASSUME IInv, NEW t \in Threads, Step(t), NEW e \in Events
    PROVE  \/ event'[e] = event[e]
           \/ Hold(t) /\ e = th[t].e /\ event'[e].status = "quarantined"
           \/ /\ Release(t) /\ e = th[t].e
              /\ event'[e].status = "normalized" /\ event'[e].via = th[t].m
           \/ event'[e].status = "lost"
  <1>1. event \in [Events -> EventRow] /\ event[e] \in EventRow
    BY DEF IInv, TypeOK
  <1>2. CASE Hold(t)
    BY <1>1, <1>2 DEF Hold, StoreEvent
  <1>3. CASE Release(t)
    BY <1>1, <1>3 DEF Release, StoreEvent
  <1>4. CASE Fail(t)
    <2> DEFINE lost == [event[e] EXCEPT !.status = "lost"]
    <2>1. lost.status = "lost"
      BY <1>1 DEF EventRow
    <2>2. event'[e] \in {event[e], lost}
      BY <1>4 DEF Fail
    <2> HIDE DEF lost
    <2>3. QED
      BY <2>1, <2>2
  <1>5. CASE UNCHANGED event
    BY <1>5
  <1>6. Hold(t) \/ Release(t) \/ Fail(t) \/ UNCHANGED event
    BY DEF Step, Work, Begin, process_payload, retry_event, approve_drift, correct_drift,
           analyze_drift, reject_drift, _compute, ReadOpenDrift, MergeIntoDrift,
           InsertDrift, ReadVersion, _create_versioned_mapping, RebindAndCollapse,
           reprocess_quarantined, FinishApproval, _analyze_and_decide, AutoApprove,
           CommitReject
  <1>7. QED
    BY <1>2, <1>3, <1>4, <1>5, <1>6

LEMMA ReleasedStep ==
    ASSUME IInv, NEW t \in Threads, Step(t)
    PROVE  ReleasedIsUnderstood'
  <1>1. \A m \in MappingIds : m \in MappingIds' /\ mapping'[m] = mapping[m]
    BY EveryStepIsGood DEF StepIsGood, Grows, MappingIds, TypeOK, IInv
  <1> SUFFICES ASSUME NEW e \in Events, event'[e].status = "normalized"
               PROVE  /\ event'[e].via \in MappingIds'
                      /\ Carries[e] \subseteq mapping'[event'[e].via].fields
    BY DEF ReleasedIsUnderstood
  <1>2. CASE event'[e] = event[e]
    BY <1>1, <1>2 DEF IInv, ReleasedIsUnderstood
  <1>3. CASE Release(t) /\ e = th[t].e /\ event'[e].via = th[t].m
    <2>1. th[t].pc = "release" /\ th[t] \in ThreadRow
      BY <1>3 DEF Release, IInv, TypeOK
    <2>2. th[t].m # 0 /\ th[t].m <= Len(mapping) /\ detect_drift(e, th[t].m) = {}
      BY <1>3, <2>1 DEF IInv, MemoryIsSound, MemoryOf
    <2>3. th[t].m \in MappingIds
      BY <2>1, <2>2 DEF MappingIds, ThreadRow, IInv, TypeOK
    <2>4. QED
      BY <1>1, <1>3, <2>2, <2>3 DEF detect_drift
  <1>4. QED
    BY <1>2, <1>3, EventEffect

LEMMA HeldStep ==
    ASSUME IInv, NEW t \in Threads, Step(t)
    PROVE  HeldIsExplained'
  <1>1. /\ \A m \in MappingIds : m \in MappingIds' /\ mapping'[m] = mapping[m]
        /\ \A d \in DriftIds : d \in DriftIds' /\ drift'[d].shape = drift[d].shape
    BY EveryStepIsGood DEF StepIsGood, Grows, MappingIds, DriftIds, TypeOK, IInv
  <1> SUFFICES ASSUME NEW e \in Events, event'[e].status = "quarantined"
               PROVE  \E d \in DriftIds, m \in MappingIds :
                         drift[d].shape = Carries[e] \ mapping[m].fields
    BY <1>1 DEF HeldIsExplained
  <1>2. CASE event'[e] = event[e]
    BY <1>2 DEF IInv, HeldIsExplained
  <1>3. CASE Hold(t) /\ e = th[t].e
    <2>1. th[t].pc = "hold" /\ th[t] \in ThreadRow
      BY <1>3 DEF Hold, IInv, TypeOK
    <2>2. /\ th[t].m # 0 /\ th[t].m <= Len(mapping)
          /\ \E d \in DriftIds : drift[d].shape = detect_drift(e, th[t].m)
      BY <1>3, <2>1 DEF IInv, MemoryIsSound, MemoryOf
    <2>3. th[t].m \in MappingIds
      BY <2>1, <2>2 DEF MappingIds, ThreadRow, IInv, TypeOK
    <2>4. QED
      BY <2>2, <2>3 DEF detect_drift
  <1>4. QED
    BY <1>2, <1>3, EventEffect

LEMMA InitIInv == Init => IInv
  <1> SUFFICES ASSUME Init PROVE IInv
    OBVIOUS
  <1>1. TypeOK
    BY InitType
  <1>2. DriftIds = {} /\ MappingIds = {1} /\ mapping[1].base = 0 /\ Len(mapping) = 1
    BY DEF Init, DriftIds, MappingIds
  <1>3. MemoryIsSound
    BY <1>2 DEF Init, MemoryIsSound, MemoryOf, Idle, DriftOps
  <1>4. ReleasedIsUnderstood /\ HeldIsExplained
    BY DEF Init, ReleasedIsUnderstood, HeldIsExplained
  <1>5. RequestBeyondBaseline /\ RequestListsItsEvents
    BY <1>2 DEF RequestBeyondBaseline, RequestListsItsEvents
  <1>6. QED
    BY <1>1, <1>3, <1>4, <1>5 DEF IInv

LEMMA NextIInv == IInv /\ [Next]_vars => IInv'
  <1> SUFFICES ASSUME IInv, [Next]_vars PROVE IInv'
    OBVIOUS
  <1>1. ASSUME NEW t \in Threads, Step(t) PROVE IInv'
    BY <1>1, EveryStepIsGood, MemorySurvives, BeyondStep, ReleasedStep,
       HeldStep, ListsStep DEF StepIsGood, IInv
  <1>2. CASE UNCHANGED vars
    <2>1. UNCHANGED <<event, mapping, drift, recipe, th, failures>>
      BY <1>2 DEF vars
    <2>2. TypeOK'
      BY <2>1 DEF IInv, TypeOK
    <2>3. MemoryIsSound'
      BY <2>1 DEF IInv, MemoryIsSound, MemoryOf, DriftIds, MappingIds, detect_drift
    <2>4. /\ RequestBeyondBaseline' /\ ReleasedIsUnderstood'
          /\ HeldIsExplained' /\ RequestListsItsEvents'
      BY <2>1 DEF IInv, RequestBeyondBaseline, ReleasedIsUnderstood,
                  HeldIsExplained, RequestListsItsEvents, DriftIds, MappingIds
    <2>5. QED
      BY <2>2, <2>3, <2>4 DEF IInv
  <1>3. QED
    BY <1>1, <1>2 DEF Next, Step

LEMMA Invariance == Spec => []IInv
  BY InitIInv, NextIInv, PTL DEF Spec

-----------------------------------------------------------------------------
(* Every variable keeps its type, whatever the number of threads in flight *)
(* (all handlers of core/drift.py, core/engine.py and api/drift.py).       *)
THEOREM TypeCorrect == Spec => []TypeOK
  <1>1. IInv => TypeOK
    BY DEF IInv
  <1>2. QED
    BY <1>1, Invariance, PTL

(* What threads remember between their reads and writes stays true while   *)
(* the others run: no handler acts on a row that is not there, on a wrong  *)
(* verdict or on a request of another shape (create_drift, _compute).      *)
THEOREM MemoryTheorem == Spec => []MemoryIsSound
  <1>1. IInv => MemoryIsSound
    BY DEF IInv
  <1>2. QED
    BY <1>1, Invariance, PTL

(* An approval only ever adds fields to the baseline of its request        *)
(* (create_drift's re-pointing, _create_versioned_mapping).                *)
THEOREM BeyondTheorem == Spec => []RequestBeyondBaseline
  <1>1. IInv => RequestBeyondBaseline
    BY DEF IInv
  <1>2. QED
    BY <1>1, Invariance, PTL

(* No event is normalized through a mapping that misses one of its fields  *)
(* (_compute, reprocess_quarantined).                                      *)
THEOREM ReleasedTheorem == Spec => []ReleasedIsUnderstood
  <1>1. IInv => ReleasedIsUnderstood
    BY DEF IInv
  <1>2. QED
    BY <1>1, Invariance, PTL

(* Every held event has a request raised for what a version did not know   *)
(* of it, however requests race or die (create_drift before the event row).*)
THEOREM HeldTheorem == Spec => []HeldIsExplained
  <1>1. IInv => HeldIsExplained
    BY DEF IInv
  <1>2. QED
    BY <1>1, Invariance, PTL

(* A request lists only events that carry what it asks about (create_drift,*)
(* collapse_duplicate_siblings).                                           *)
THEOREM ListsTheorem == Spec => []RequestListsItsEvents
  <1>1. IInv => RequestListsItsEvents
    BY DEF IInv
  <1>2. QED
    BY <1>1, Invariance, PTL

-----------------------------------------------------------------------------
(* One handler at a time.  What overlapping handlers break, a handler that *)
(* runs alone guarantees, whatever it does and, where not said otherwise,  *)
(* wherever it dies.  Three invariants, each on top of the one before.     *)

(* No two handlers overlap. *)
OneAtATime == \A t, u \in Threads : t = u

(* The operations that publish a version. *)
Publishes == {"approve", "correct"}

(* What a handler alone remembers of the request it read is still exact:   *)
(* the request it merges into is open and as loaded, or there is none of   *)
(* the shape; a verdict falls on a request whose status it knows.          *)
ExactOf(t) ==
    LET r == th[t]
    IN  /\ r.pc = "writeDrift" /\ r.cand = 0 => OpenDrifts(detect_drift(r.e, r.m)) = {}
        /\ r.pc = "writeDrift" /\ r.cand # 0 =>
              /\ drift[r.cand].status \in _OPEN_DRIFT
              /\ r.snap = drift[r.cand].events /\ r.snapBase = drift[r.cand].base
        /\ r.pc \in {"decide", "reject"} => r.seen = drift[r.d].status
        /\ r.pc = "decide" => drift[r.d].status \in _OPEN_DRIFT
        /\ r.pc = "reject" => drift[r.d].status # "approved"
        /\ r.pc \in {"version", "publish", "rebind", "select", "finish"} => r.op \in Publishes
        /\ r.op \in Publishes => drift[r.d].status # "rejected"

(* The inductive invariant behind one open request per shape. *)
SeqInv == IInv /\ OneOpenRequestPerShape /\ \A t \in Threads : ExactOf(t)

Newest == Len(mapping)

(* The steps of the engine, from resolving the mapping to the event's row. *)
InEngine == {"compute", "readDrift", "writeDrift", "hold", "release"}

(* The events whose verdict under the newest version is still to come:     *)
(* after a publication all, then those the engine has not stored again.    *)
Unsettled(t) ==
    IF th[t].pc \in {"rebind", "select"} THEN Events
    ELSE IF th[t].op \in Publishes /\ th[t].pc \in InEngine THEN th[t].todo ELSE {}

Waits(e) == event[e].status = "quarantined"

(* The open requests for what the newest version misses of e extend it. *)
Rebased(e) ==
    \A d \in DriftIds :
        drift[d].status \in _OPEN_DRIFT /\ drift[d].shape = detect_drift(e, Newest)
            => drift[d].base = Newest

(* As long as nobody died: lookups find the newest version, except between *)
(* its INSERT and the binding of the recipe; the engine uses no other; and *)
(* held events that are settled, or about to be held, wait for requests    *)
(* that extend it.                                                         *)
SettledOf(t) ==
    /\ th[t].pc = "rebind" => th[t].m = Newest
    /\ th[t].pc # "rebind" => th[t].m \in {0, Newest} /\ _lookup_mapping(t) = Newest
    /\ th[t].pc \in {"idle", "decide", "reject", "version", "publish", "rebind"} => th[t].rebind = 0
    /\ \A e \in Events : Waits(e) /\ e \notin Unsettled(t) => Rebased(e)
    /\ th[t].pc = "hold" => Rebased(th[t].e)

(* The inductive invariant behind WaitedForExtendsCurrent. *)
RebasedInv == SeqInv /\ \A t \in Threads : failures = 0 => SettledOf(t)

(* The newest version knows all of e, or a request that nobody approved    *)
(* asks for exactly what it misses.                                        *)
Decidable(e) ==
    \/ detect_drift(e, Newest) = {}
    \/ \E d \in DriftIds : /\ drift[d].shape = detect_drift(e, Newest)
                           /\ drift[d].status # "approved"

(* What is to be published answers the whole request, and once published,  *)
(* the newest version knows all the request asks about: that is why no     *)
(* held event is behind the request when it is closed.                     *)
CompleteOf(t) ==
    LET r == th[t]
    IN  /\ r.op \in Publishes /\ r.pc \in {"version", "publish"}
              => r.answer = drift[r.d].shape
        /\ r.op = "correct" => r.answer = drift[r.d].shape
        /\ r.op \in Publishes /\ r.pc \notin {"version", "publish"}
              => drift[r.d].shape \subseteq mapping[Newest].fields

(* With complete interpretations a stored proposal covers the shape. *)
ProposalIsShape ==
    \A d \in DriftIds : drift[d].analyzed => drift[d].proposal = drift[d].shape

DecidableOf(t) ==
    /\ \A e \in Events : Waits(e) /\ e \notin Unsettled(t) => Decidable(e)
    /\ th[t].pc = "hold" => Decidable(th[t].e)

(* The inductive invariant behind HeldIsDecidable. *)
DecidableInv ==
    /\ RebasedInv
    /\ ProposalIsShape
    /\ \A t \in Threads : CompleteOf(t) /\ (failures = 0 => DecidableOf(t))
-----------------------------------------------------------------------------
(* What each step of a thread does, field by field. *)

(* The thread keeps its operation, its request and what it will publish. *)
Goes(t, pc) ==
    /\ th'[t].pc = pc
    /\ th'[t].op = th[t].op /\ th'[t].d = th[t].d /\ th'[t].answer = th[t].answer

(* It keeps the mapping its engine resolved and its uncommitted binding. *)
KeepsEngine(t) == th'[t].m = th[t].m /\ th'[t].rebind = th[t].rebind

OnlyThread == UNCHANGED <<event, mapping, drift, recipe, failures>>

LEMMA BeginEffect ==
    ASSUME IInv, NEW t \in Threads, Begin(t)
    PROVE  /\ OnlyThread
           /\ th[t].pc = "idle" /\ th'[t].m = 0 /\ th'[t].rebind = 0
           /\ \/ th'[t].pc = "compute" /\ th'[t].op \in {"ingest", "retry"}
              \/ /\ th'[t].d \in DriftIds
                 /\ \/ /\ th'[t].pc = "version" /\ th'[t].op \in Publishes
                       /\ drift[th'[t].d].status # "rejected"
                       /\ PartialAnswers = FALSE /\ ProposalIsShape
                             => th'[t].answer = drift[th'[t].d].shape
                    \/ /\ th'[t].pc = "decide" /\ th'[t].op = "analyze"
                       /\ drift[th'[t].d].status \in _OPEN_DRIFT
                       /\ th'[t].seen = drift[th'[t].d].status
                    \/ /\ th'[t].pc = "reject" /\ th'[t].op = "reject"
                       /\ drift[th'[t].d].status # "approved"
                       /\ th'[t].seen = drift[th'[t].d].status
  <1>1. (\A d \in DriftIds : drift[d] \in DriftRow) /\ th \in [Threads -> ThreadRow]
    BY ReadTypes DEF IInv, TypeOK
  <1>2. OnlyThread /\ th[t].pc = "idle"
    BY DEF Begin, process_payload, retry_event, approve_drift, correct_drift,
           analyze_drift, reject_drift, OnlyThread
  <1> DEFINE next == th'[t]
             engine == next.m = 0 /\ next.rebind = 0
             ingests == next.pc = "compute" /\ next.op \in {"ingest", "retry"}
             publishes(d) == /\ next.d = d
                             /\ next.pc = "version" /\ next.op \in Publishes
                             /\ drift[d].status # "rejected"
                             /\ PartialAnswers = FALSE /\ ProposalIsShape
                                   => next.answer = drift[d].shape
  <1>3. ASSUME NEW e \in Events, process_payload(t, e) \/ retry_event(t, e)
        PROVE  engine /\ ingests
    <2>1. CASE process_payload(t, e)
      BY <1>1, <2>1 DEF Become, process_payload, Idle
    <2>2. CASE retry_event(t, e)
      BY <1>1, <2>2 DEF Become, retry_event, Idle
    <2>3. QED
      BY <1>3, <2>1, <2>2
  <1>4. ASSUME NEW d \in DriftIds, approve_drift(t, d) PROVE engine /\ publishes(d)
    <2>1. PICK a \in (IF drift[d].analyzed THEN {drift[d].proposal} ELSE Answers(drift[d].shape)) :
             Become(t, [Idle EXCEPT !.pc = "version", !.op = "approve", !.d = d,
                                    !.base = drift[d].base,
                                    !.answer = a, !.fresh = ~drift[d].analyzed])
      BY <1>4 DEF approve_drift
    <2>2. engine /\ next.d = d /\ next.pc = "version" /\ next.op = "approve" /\ next.answer = a
      BY <1>1, <2>1 DEF Become, Idle
    <2>3. PartialAnswers = FALSE /\ ProposalIsShape => a = drift[d].shape
      BY <2>1 DEF Answers, ProposalIsShape
    <2>4. QED
      BY <1>4, <2>2, <2>3 DEF approve_drift, Publishes
  <1>5. ASSUME NEW d \in DriftIds, correct_drift(t, d) PROVE engine /\ publishes(d)
    <2>1. PICK a \in (IF PartialAnswers THEN (SUBSET Fields) \ {{}} ELSE {drift[d].shape}) :
             Become(t, [Idle EXCEPT !.pc = "version", !.op = "correct", !.d = d,
                                    !.base = drift[d].base, !.answer = a])
      BY <1>5 DEF correct_drift
    <2>2. engine /\ next.d = d /\ next.pc = "version" /\ next.op = "correct" /\ next.answer = a
      BY <1>1, <2>1 DEF Become, Idle
    <2>3. PartialAnswers = FALSE => a = drift[d].shape
      BY <2>1
    <2>4. QED
      BY <1>5, <2>2, <2>3 DEF correct_drift, Publishes, ResolvedStatus
  <1>6. ASSUME NEW d \in DriftIds, analyze_drift(t, d)
        PROVE  /\ engine /\ next.pc = "decide" /\ next.d = d /\ next.op = "analyze"
               /\ next.seen = drift[d].status /\ drift[d].status \in _OPEN_DRIFT
    BY <1>1, <1>6 DEF Become, analyze_drift, Idle, DriftRow
  <1>7. ASSUME NEW d \in DriftIds, reject_drift(t, d)
        PROVE  /\ engine /\ next.pc = "reject" /\ next.d = d /\ next.op = "reject"
               /\ next.seen = drift[d].status /\ drift[d].status # "approved"
    BY <1>1, <1>7 DEF Become, reject_drift, Idle
  <1>8. QED
    BY <1>2, <1>3, <1>4, <1>5, <1>6, <1>7 DEF Begin

LEMMA ComputeEffect ==
    ASSUME IInv, NEW t \in Threads, _compute(t)
    PROVE  /\ OnlyThread /\ th[t].pc = "compute"
           /\ Goes(t, "release") \/ Goes(t, "readDrift")
           /\ th'[t].m = IF th[t].m # 0 THEN th[t].m ELSE _lookup_mapping(t)
           /\ th'[t].rebind = th[t].rebind /\ th'[t].todo = th[t].todo
  <1> DEFINE n == IF th[t].m # 0 THEN th[t].m ELSE _lookup_mapping(t)
             verdict(e) == IF detect_drift(e, n) = {} THEN "release" ELSE "readDrift"
  <1>1. th[t] \in ThreadRow /\ th \in [Threads -> ThreadRow]
    BY ReadTypes DEF IInv, TypeOK
  <1>2. PICK e \in th[t].todo : Become(t, [th[t] EXCEPT !.e = e, !.m = n, !.pc = verdict(e)])
    BY DEF _compute
  <1>3. verdict(e) \in {"release", "readDrift"}
    OBVIOUS
  <1> HIDE DEF verdict, n
  <1>4. /\ th'[t].pc = verdict(e) /\ th'[t].m = n /\ th'[t].op = th[t].op
        /\ th'[t].d = th[t].d /\ th'[t].answer = th[t].answer
        /\ th'[t].rebind = th[t].rebind /\ th'[t].todo = th[t].todo
    BY <1>1, <1>2 DEF Become, ThreadRow
  <1>5. OnlyThread /\ th[t].pc = "compute"
    BY DEF _compute, OnlyThread
  <1>6. QED
    BY <1>3, <1>4, <1>5 DEF Goes, n

LEMMA ReadDriftEffect ==
    ASSUME IInv, NEW t \in Threads, ReadOpenDrift(t)
    PROVE  /\ OnlyThread /\ th[t].pc = "readDrift"
           /\ Goes(t, "writeDrift") /\ KeepsEngine(t)
           /\ th'[t].e = th[t].e /\ th'[t].todo = th[t].todo
           /\ \/ /\ OpenDrifts(detect_drift(th[t].e, th[t].m)) = {}
                 /\ th'[t].cand = 0
              \/ /\ th'[t].cand \in OpenDrifts(detect_drift(th[t].e, th[t].m))
                 /\ th'[t].snap = drift[th'[t].cand].events
                 /\ th'[t].snapBase = drift[th'[t].cand].base
  <1> DEFINE r == th[t]
             same == OpenDrifts(detect_drift(r.e, r.m))
             next == th'[t]
             goes == /\ next.pc = "writeDrift" /\ next.op = r.op /\ next.d = r.d
                     /\ next.answer = r.answer /\ next.m = r.m /\ next.rebind = r.rebind
                     /\ next.e = r.e /\ next.todo = r.todo
  <1>1. r \in ThreadRow /\ th \in [Threads -> ThreadRow]
    BY ReadTypes DEF IInv, TypeOK
  <1>2. ASSUME same = {}, Become(t, [r EXCEPT !.pc = "writeDrift", !.cand = 0])
        PROVE  goes /\ next.cand = 0
    BY <1>1, <1>2 DEF Become, ThreadRow
  <1>3. ASSUME NEW c \in same,
               Become(t, [r EXCEPT !.pc = "writeDrift", !.cand = c,
                                   !.snap = drift[c].events, !.snapBase = drift[c].base])
        PROVE  /\ goes /\ next.cand = c /\ next.snap = drift[c].events
               /\ next.snapBase = drift[c].base
    BY <1>1, <1>3 DEF Become, ThreadRow
  <1>4. OnlyThread /\ th[t].pc = "readDrift"
    BY DEF ReadOpenDrift, OnlyThread
  <1>5. \/ same = {} /\ Become(t, [r EXCEPT !.pc = "writeDrift", !.cand = 0])
        \/ \E c \in same :
              Become(t, [r EXCEPT !.pc = "writeDrift", !.cand = c,
                                   !.snap = drift[c].events, !.snapBase = drift[c].base])
    BY DEF ReadOpenDrift
  <1> HIDE DEF same
  <1>6. goes /\ \/ same = {} /\ next.cand = 0
                \/ /\ next.cand \in same /\ next.snap = drift[next.cand].events
                   /\ next.snapBase = drift[next.cand].base
    BY <1>2, <1>3, <1>5
  <1>7. QED
    BY <1>4, <1>6 DEF Goes, KeepsEngine, same


(* One row of the requests is written. *)
RowWritten(k, row) ==
    /\ DriftIds' = DriftIds
    /\ drift'[k] = row
    /\ \A d \in DriftIds : d # k => drift'[d] = drift[d]

LEMMA WritesRow ==
    ASSUME TypeOK, NEW k \in DriftIds, NEW row \in DriftRow, drift' = [drift EXCEPT ![k] = row]
    PROVE  RowWritten(k, row)
  <1>1. /\ Len(drift') = Len(drift)
        /\ \A c \in DriftIds : drift'[c] = IF c = k THEN row ELSE drift[c]
    BY ExceptSeq DEF TypeOK, DriftIds
  <1>2. QED
    BY <1>1 DEF RowWritten, DriftIds

LEMMA MergeEffect ==
    ASSUME IInv, NEW t \in Threads, MergeIntoDrift(t)
    PROVE  /\ UNCHANGED <<event, mapping, failures>> /\ recipe' = FlushedRecipe(t)
           /\ th[t].pc = "writeDrift" /\ Goes(t, "hold")
           /\ th'[t].m = th[t].m /\ th'[t].rebind = 0
           /\ th'[t].e = th[t].e /\ th'[t].todo = th[t].todo
           /\ th[t].cand \in DriftIds /\ th[t].cand # 0
           /\ drift[th[t].cand].shape = detect_drift(th[t].e, th[t].m)
           /\ th[t].e \in Events /\ th[t].m \in MappingIds
           /\ \E row \in DriftRow :
                /\ RowWritten(th[t].cand, row)
                /\ row.status = drift[th[t].cand].status
                /\ row.shape = drift[th[t].cand].shape
                /\ row.analyzed = drift[th[t].cand].analyzed
                /\ row.proposal = drift[th[t].cand].proposal
                /\ row.base = IF th[t].m = th[t].snapBase THEN drift[th[t].cand].base
                              ELSE th[t].m
  <1> USE DEF IInv
  <1> DEFINE c == th[t].cand
             ids == IF th[t].snap \cup {th[t].e} = th[t].snap THEN drift[c].events
                    ELSE th[t].snap \cup {th[t].e}
             base == IF th[t].m = th[t].snapBase THEN drift[c].base ELSE th[t].m
             row == [drift[c] EXCEPT !.events = ids, !.base = base]
  <1>1. th[t] \in ThreadRow /\ th \in [Threads -> ThreadRow]
    BY ReadTypes DEF TypeOK
  <1>2. /\ c \in DriftIds /\ drift[c].shape = detect_drift(th[t].e, th[t].m)
        /\ th[t].e \in Events /\ th[t].m \in MappingIds
    BY MergedRequest
  <1>3. drift[c] \in DriftRow
    BY <1>2, ReadTypes
  <1>4. /\ th[t].pc = "writeDrift" /\ c # 0 /\ drift' = [drift EXCEPT ![c] = row]
        /\ UNCHANGED <<event, mapping, failures>> /\ recipe' = FlushedRecipe(t)
        /\ Become(t, [th[t] EXCEPT !.pc = "hold", !.rebind = 0, !.cand = 0,
                            !.snap = {}, !.snapBase = 0])
    BY DEF MergeIntoDrift
  <1>5. base \in Nat /\ ids \in SUBSET Events
    BY <1>1, <1>2, <1>3 DEF ThreadRow, DriftRow
  <1>6. /\ Goes(t, "hold") /\ th'[t].m = th[t].m /\ th'[t].rebind = 0
        /\ th'[t].e = th[t].e /\ th'[t].todo = th[t].todo
    BY <1>1, <1>4 DEF Become, ThreadRow, Goes
  <1> HIDE DEF base, ids
  <1>7. /\ row \in DriftRow /\ row.status = drift[c].status /\ row.shape = drift[c].shape
        /\ row.analyzed = drift[c].analyzed /\ row.proposal = drift[c].proposal
        /\ row.base = base
    BY <1>3, <1>5 DEF DriftRow
  <1> HIDE DEF row
  <1>8. RowWritten(c, row)
    BY <1>2, <1>4, <1>7, WritesRow
  <1>9. QED
    BY <1>2, <1>4, <1>6, <1>7, <1>8 DEF base

LEMMA InsertEffect ==
    ASSUME IInv, NEW t \in Threads, InsertDrift(t)
    PROVE  /\ UNCHANGED <<event, mapping, failures>> /\ recipe' = FlushedRecipe(t)
           /\ th[t].pc = "writeDrift" /\ th[t].cand = 0 /\ Goes(t, "hold")
           /\ th'[t].m = th[t].m /\ th'[t].rebind = 0
           /\ th'[t].e = th[t].e /\ th'[t].todo = th[t].todo
           /\ th[t].e \in Events /\ th[t].m \in MappingIds
           /\ DriftIds' = DriftIds \cup {Len(drift) + 1} /\ Len(drift) + 1 \notin DriftIds
           /\ \A d \in DriftIds : drift'[d] = drift[d]
           /\ drift'[Len(drift) + 1].shape = detect_drift(th[t].e, th[t].m)
           /\ drift'[Len(drift) + 1].base = th[t].m
           /\ drift'[Len(drift) + 1].status = "detected"
           /\ drift'[Len(drift) + 1].analyzed = FALSE
  <1> DEFINE row == [status |-> "detected", shape |-> detect_drift(th[t].e, th[t].m),
                     events |-> {th[t].e}, base |-> th[t].m,
                     analyzed |-> FALSE, proposal |-> {}]
  <1>1. th[t] \in ThreadRow /\ th \in [Threads -> ThreadRow]
    BY ReadTypes DEF IInv, TypeOK
  <1>2. /\ th[t].pc = "writeDrift" /\ th[t].cand = 0 /\ drift' = Append(drift, row)
        /\ UNCHANGED <<event, mapping, failures>> /\ recipe' = FlushedRecipe(t)
        /\ Become(t, [th[t] EXCEPT !.pc = "hold", !.rebind = 0])
    BY DEF InsertDrift
  <1>3. /\ Goes(t, "hold") /\ th'[t].m = th[t].m /\ th'[t].rebind = 0
        /\ th'[t].e = th[t].e /\ th'[t].todo = th[t].todo
    BY <1>1, <1>2 DEF Become, ThreadRow, Goes
  <1>4. drift'[Len(drift) + 1] = row /\ Len(drift) \in Nat
    BY <1>2, AppendProperties DEF IInv, TypeOK
  <1>5. QED
    BY <1>2, <1>3, <1>4, InsertedRequest DEF DriftIds

LEMMA StoreEffect ==
    ASSUME IInv, NEW t \in Threads, Hold(t) \/ Release(t)
    PROVE  /\ UNCHANGED <<mapping, drift, failures>> /\ recipe' = FlushedRecipe(t)
           /\ th'[t].rebind = 0
           /\ th[t].e \in Events /\ th[t].m # 0
           /\ \A e \in Events : IF e = th[t].e THEN Waits(e)' => th[t].pc = "hold"
                                ELSE event'[e] = event[e]
           /\ \/ /\ Goes(t, "compute") /\ th'[t].m = th[t].m
                 /\ th'[t].todo = th[t].todo \ {th[t].e}
              \/ /\ Goes(t, "finish") /\ th'[t].m = 0 /\ th'[t].todo = {}
                 /\ th[t].op \in Publishes /\ th[t].todo \subseteq {th[t].e}
              \/ th'[t] = Idle /\ th[t].op \notin Publishes
  <1>1. th[t] \in ThreadRow /\ th \in [Threads -> ThreadRow] /\ event \in [Events -> EventRow]
    BY ReadTypes DEF IInv, TypeOK
  <1>2. th[t].pc \in {"hold", "release"} /\ th[t].e \in Events /\ th[t].m # 0
    BY DEF Hold, Release, IInv, MemoryIsSound, MemoryOf
  <1>3. th'[t] = AfterEvent(t)
    BY <1>1 DEF Hold, Release, StoreEvent, Become
  <1>4. UNCHANGED <<mapping, drift, failures>> /\ recipe' = FlushedRecipe(t)
    BY DEF Hold, Release, StoreEvent
  <1>5. \A e \in Events : IF e = th[t].e THEN Waits(e)' => th[t].pc = "hold"
                         ELSE event'[e] = event[e]
    <2>1. CASE Hold(t)
      BY <1>1, <1>2, <2>1 DEF Hold, StoreEvent, Waits
    <2>2. CASE Release(t)
      <3>1. event' = [event EXCEPT ![th[t].e] = [status |-> "normalized", via |-> th[t].m]]
        BY <2>2 DEF Release, StoreEvent
      <3>2. event'[th[t].e].status = "normalized"
        BY <1>1, <1>2, <3>1
      <3>3. \A e \in Events : e # th[t].e => event'[e] = event[e]
        BY <1>1, <3>1
      <3>4. QED
        BY <3>2, <3>3 DEF Waits
    <2>3. QED
      BY <2>1, <2>2
  <1>6. CASE th[t].todo \ {th[t].e} # {}
    BY <1>1, <1>2, <1>3, <1>4, <1>5, <1>6 DEF AfterEvent, ThreadRow, Goes
  <1>7. CASE th[t].todo \ {th[t].e} = {} /\ th[t].op \in Publishes
    BY <1>1, <1>2, <1>3, <1>4, <1>5, <1>7 DEF AfterEvent, ThreadRow, Goes, Publishes
  <1>8. CASE th[t].todo \ {th[t].e} = {} /\ th[t].op \notin Publishes
    BY <1>1, <1>2, <1>3, <1>4, <1>5, <1>8 DEF AfterEvent, Publishes, Idle
  <1>9. QED
    BY <1>6, <1>7, <1>8

LEMMA VersionEffect ==
    ASSUME IInv, NEW t \in Threads, ReadVersion(t)
    PROVE  OnlyThread /\ th[t].pc = "version" /\ Goes(t, "publish") /\ KeepsEngine(t)
  <1>1. th[t] \in ThreadRow /\ th \in [Threads -> ThreadRow]
    BY ReadTypes DEF IInv, TypeOK
  <1>2. PICK v : Become(t, [th[t] EXCEPT !.pc = "publish", !.ver = v])
    BY DEF ReadVersion
  <1>3. QED
    BY <1>1, <1>2 DEF ReadVersion, Become, ThreadRow, OnlyThread, Goes, KeepsEngine


LEMMA PublishEffect ==
    ASSUME IInv, NEW t \in Threads, _create_versioned_mapping(t)
    PROVE  /\ UNCHANGED <<event, recipe, failures>>
           /\ th[t].pc = "publish" /\ th'[t].pc = "rebind"
           /\ th'[t].op = th[t].op /\ th'[t].d = th[t].d /\ th[t].d \in DriftIds
           /\ th'[t].m = Newest' /\ th'[t].rebind = th[t].rebind
           /\ th[t].op = "correct" => th'[t].answer = th[t].answer
           /\ th[t].answer \subseteq mapping'[Newest'].fields
           /\ DriftIds' = DriftIds
           /\ \A d \in DriftIds :
                \/ drift'[d] = drift[d]
                \/ /\ d = th[t].d
                   /\ drift'[d].status = drift[d].status /\ drift'[d].shape = drift[d].shape
                   /\ drift'[d].proposal = th[t].answer
  <1> DEFINE k == th[t].d
             answer == IF th[t].op = "correct" THEN th[t].answer ELSE {}
             version == [fields |-> mapping[th[t].base].fields \cup th[t].answer,
                         version |-> th[t].ver + 1, base |-> th[t].base]
             row == [drift[k] EXCEPT !.analyzed = TRUE, !.proposal = th[t].answer]
  <1>1. /\ th[t] \in ThreadRow /\ th \in [Threads -> ThreadRow] /\ TypeOK
        /\ th[t].pc = "publish" /\ k \in DriftIds /\ drift[k] \in DriftRow
    BY ReadTypes DEF IInv, TypeOK, _create_versioned_mapping, MemoryIsSound, MemoryOf
  <1>2. /\ mapping' = Append(mapping, version)
        /\ drift' = IF th[t].fresh THEN [drift EXCEPT ![k] = row] ELSE drift
        /\ Become(t, [th[t] EXCEPT !.pc = "rebind", !.m = Len(mapping) + 1, !.ver = 0,
                        !.base = 0, !.fresh = FALSE, !.answer = answer])
        /\ UNCHANGED <<event, recipe, failures>>
    BY DEF _create_versioned_mapping
  <1>3. Len(mapping') = Len(mapping) + 1 /\ mapping'[Len(mapping) + 1] = version
    BY <1>1, <1>2, AppendProperties DEF TypeOK
  <1>4. row \in DriftRow /\ row.status = drift[k].status /\ row.shape = drift[k].shape
        /\ row.proposal = th[t].answer
    BY <1>1 DEF DriftRow, ThreadRow
  <1> HIDE DEF row
  <1>5. DriftIds' = DriftIds /\ \A d \in DriftIds : drift'[d] = drift[d] \/ (d = k /\ drift'[d] = row)
    <2>1. CASE drift' = drift
      BY <2>1 DEF DriftIds
    <2>2. CASE drift' = [drift EXCEPT ![k] = row]
      <3>1. RowWritten(k, row)
        BY <1>1, <1>4, <2>2, WritesRow
      <3>2. QED
        BY <3>1 DEF RowWritten
    <2>3. QED
      BY <1>2, <2>1, <2>2
  <1>6. answer = th[t].answer \/ th[t].op # "correct"
    OBVIOUS
  <1> HIDE DEF answer
  <1>7. /\ th'[t].pc = "rebind" /\ th'[t].op = th[t].op /\ th'[t].d = k
        /\ th'[t].m = Len(mapping) + 1 /\ th'[t].rebind = th[t].rebind
        /\ th'[t].answer = answer
    BY <1>1, <1>2 DEF Become, ThreadRow
  <1>8. th[t].answer \subseteq version.fields
    OBVIOUS
  <1> HIDE DEF version
  <1>9. QED
    BY <1>1, <1>2, <1>3, <1>4, <1>5, <1>6, <1>7, <1>8 DEF Newest

LEMMA RebindEffect ==
    ASSUME IInv, NEW t \in Threads, RebindAndCollapse(t)
    PROVE  /\ UNCHANGED <<event, mapping, failures>>
           /\ th[t].pc = "rebind" /\ Goes(t, "select") /\ th'[t].m = th[t].m
           /\ th[t].d \in DriftIds /\ DriftIds' = DriftIds
           /\ \A d \in DriftIds :
                /\ drift'[d].shape = drift[d].shape /\ drift'[d].base = drift[d].base
                /\ drift'[d].analyzed = drift[d].analyzed
                /\ drift'[d].proposal = drift[d].proposal
                /\ \/ drift'[d].status = drift[d].status
                   \/ /\ d # th[t].d
                      /\ drift[d].status \in _OPEN_DRIFT /\ drift'[d].status = "rejected"
           /\ LET target == IF recipe # 0 /\ recipe # th[t].m THEN th[t].m ELSE 0
              IN  \/ th'[t].rebind = target /\ UNCHANGED recipe
                  \/ /\ th'[t].rebind = th[t].rebind
                     /\ recipe' = IF target # 0 THEN target ELSE recipe
  <1> DEFINE target == IF recipe # 0 /\ recipe # th[t].m THEN th[t].m ELSE 0
             k == th[t].d
             keeper == [drift[k] EXCEPT !.events =
                          @ \cup UNION {drift[s].events : s \in Siblings(k)}]
             folded(c) == [drift[c] EXCEPT !.status = "rejected"]
             sets(rb, rc) == /\ Goes(t, "select") /\ th'[t].m = th[t].m
                             /\ th'[t].rebind = rb /\ recipe' = rc
  <1>1. /\ th[t] \in ThreadRow /\ th \in [Threads -> ThreadRow]
        /\ th[t].pc = "rebind" /\ k \in DriftIds
        /\ \A c \in DriftIds : drift[c] \in DriftRow
    BY ReadTypes DEF IInv, TypeOK, RebindAndCollapse, MemoryIsSound, MemoryOf
  <1>2. UNCHANGED <<event, mapping, failures>>
    BY DEF RebindAndCollapse
  <1>3. CASE Siblings(k) = {}
    <2>1. Become(t, [th[t] EXCEPT !.pc = "select", !.rebind = target]) /\ UNCHANGED <<drift, recipe>>
      BY <1>3 DEF RebindAndCollapse
    <2> HIDE DEF target
    <2>2. sets(target, recipe)
      BY <1>1, <2>1 DEF Become, ThreadRow, Goes
    <2>3. QED
      BY <1>1, <1>2, <2>1, <2>2 DEF target, DriftIds
  <1>4. CASE Siblings(k) # {}
    <2>1. /\ Become(t, [th[t] EXCEPT !.pc = "select"])
          /\ recipe' = IF target # 0 THEN target ELSE recipe
          /\ drift' = [c \in DriftIds |-> IF c = k THEN keeper
                                          ELSE IF c \in Siblings(k) THEN folded(c)
                                          ELSE drift[c]]
      BY <1>4 DEF RebindAndCollapse
    <2> HIDE DEF target
    <2>2. sets(th[t].rebind, IF target # 0 THEN target ELSE recipe)
      BY <1>1, <2>1 DEF Become, ThreadRow, Goes
    <2>3. /\ keeper.shape = drift[k].shape /\ keeper.base = drift[k].base
          /\ keeper.analyzed = drift[k].analyzed /\ keeper.proposal = drift[k].proposal
          /\ keeper.status = drift[k].status
      BY <1>1 DEF DriftRow
    <2>4. \A c \in DriftIds :
             /\ folded(c).shape = drift[c].shape /\ folded(c).base = drift[c].base
             /\ folded(c).analyzed = drift[c].analyzed /\ folded(c).proposal = drift[c].proposal
             /\ folded(c).status = "rejected"
      BY <1>1 DEF DriftRow
    <2>5. \A c \in Siblings(k) : drift[c].status \in _OPEN_DRIFT
      BY DEF Siblings, OpenDrifts
    <2>6. DriftIds' = DriftIds
      BY <1>1, EveryStepIsGood, <2>1, LenProperties DEF DriftIds, IInv, TypeOK
    <2> HIDE DEF keeper, folded
    <2>7. QED
      BY <1>1, <1>2, <2>1, <2>2, <2>3, <2>4, <2>5, <2>6 DEF target
  <1>5. QED
    BY <1>3, <1>4

LEMMA SelectEffect ==
    ASSUME IInv, NEW t \in Threads, reprocess_quarantined(t)
    PROVE  /\ OnlyThread /\ th[t].pc = "select"
           /\ Goes(t, "compute") \/ (Goes(t, "finish") /\ th'[t].todo = {})
           /\ th'[t].m = 0 /\ th'[t].rebind = th[t].rebind
           /\ th'[t].todo = {e \in Events : Waits(e)}
  <1> DEFINE held == {e \in Events : event[e].status = "quarantined"}
             next == IF held = {} THEN "finish" ELSE "compute"
  <1>1. th[t] \in ThreadRow /\ th \in [Threads -> ThreadRow]
    BY ReadTypes DEF IInv, TypeOK
  <1>2. /\ OnlyThread /\ th[t].pc = "select"
        /\ Become(t, [th[t] EXCEPT !.pc = next, !.todo = held, !.m = 0])
    BY DEF reprocess_quarantined, OnlyThread
  <1>3. /\ next = "compute" \/ (next = "finish" /\ held = {})
        /\ held = {e \in Events : Waits(e)}
    BY DEF Waits
  <1> HIDE DEF next, held
  <1>4. /\ Goes(t, next) /\ th'[t].m = 0 /\ th'[t].todo = held
        /\ th'[t].rebind = th[t].rebind
    BY <1>1, <1>2 DEF Become, ThreadRow, Goes
  <1>5. QED
    BY <1>2, <1>3, <1>4


LEMMA FinishEffect ==
    ASSUME IInv, NEW t \in Threads, FinishApproval(t)
    PROVE  /\ UNCHANGED <<event, mapping, failures>> /\ recipe' = FlushedRecipe(t)
           /\ th[t].pc = "finish" /\ th'[t] = Idle /\ th[t].d \in DriftIds
           /\ \E row \in DriftRow :
                /\ RowWritten(th[t].d, row)
                /\ row.status = "approved" /\ row.shape = drift[th[t].d].shape
                /\ row.base = drift[th[t].d].base
                /\ \/ row.analyzed = drift[th[t].d].analyzed
                      /\ row.proposal = drift[th[t].d].proposal
                   \/ th[t].op = "correct" /\ row.proposal = th[t].answer
  <1> DEFINE k == th[t].d
             row1 == [drift[k] EXCEPT !.status = "approved", !.analyzed = TRUE,
                                      !.proposal = th[t].answer]
             row2 == [drift[k] EXCEPT !.status = "approved"]
  <1>1. /\ th[t] \in ThreadRow /\ th \in [Threads -> ThreadRow] /\ TypeOK
        /\ th[t].pc = "finish" /\ k \in DriftIds /\ drift[k] \in DriftRow
    BY ReadTypes DEF IInv, TypeOK, FinishApproval, MemoryIsSound, MemoryOf
  <1>2. /\ UNCHANGED <<event, mapping, failures>> /\ recipe' = FlushedRecipe(t)
        /\ Become(t, Idle)
    BY DEF FinishApproval
  <1>3. \/ th[t].op = "correct" /\ drift' = [drift EXCEPT ![k] = row1]
        \/ drift' = [drift EXCEPT ![k] = row2]
    BY DEF FinishApproval
  <1>4. /\ row1 \in DriftRow /\ row1.status = "approved" /\ row1.shape = drift[k].shape
        /\ row1.base = drift[k].base /\ row1.proposal = th[t].answer
    BY <1>1 DEF DriftRow, ThreadRow, ResolvedStatus
  <1>5. /\ row2 \in DriftRow /\ row2.status = "approved" /\ row2.shape = drift[k].shape
        /\ row2.base = drift[k].base /\ row2.analyzed = drift[k].analyzed
        /\ row2.proposal = drift[k].proposal
    BY <1>1 DEF DriftRow, ResolvedStatus
  <1>6. th'[t] = Idle
    BY <1>1, <1>2 DEF Become
  <1> HIDE DEF row1, row2
  <1>7. \/ th[t].op = "correct" /\ RowWritten(k, row1)
        \/ RowWritten(k, row2)
    BY <1>1, <1>3, <1>4, <1>5, WritesRow
  <1>8. QED
    BY <1>1, <1>2, <1>4, <1>5, <1>6, <1>7

LEMMA DecideEffect ==
    ASSUME IInv, NEW t \in Threads, _analyze_and_decide(t)
    PROVE  /\ UNCHANGED <<event, mapping, recipe, failures>>
           /\ th[t].pc = "decide" /\ th'[t] = Idle /\ th[t].d \in DriftIds
           /\ \E row \in DriftRow, s \in {"analyzed", "review"} :
                /\ RowWritten(th[t].d, row)
                /\ row.shape = drift[th[t].d].shape /\ row.base = drift[th[t].d].base
                /\ row.status = IF th[t].seen = s THEN drift[th[t].d].status ELSE s
                /\ row.proposal \in Answers(row.shape)
  <1> DEFINE k == th[t].d
             status(s) == IF th[t].seen = s THEN drift[k].status ELSE s
             row(a, s) == [drift[k] EXCEPT !.analyzed = TRUE, !.proposal = a,
                                           !.status = status(s)]
  <1>1. /\ th[t] \in ThreadRow /\ th \in [Threads -> ThreadRow] /\ TypeOK
        /\ th[t].pc = "decide" /\ k \in DriftIds /\ drift[k] \in DriftRow
    BY ReadTypes DEF IInv, TypeOK, _analyze_and_decide, MemoryIsSound, MemoryOf
  <1>2. PICK a \in Answers(drift[k].shape), s \in {"analyzed", "review"} :
           drift' = [drift EXCEPT ![k] = row(a, s)]
    BY DEF _analyze_and_decide
  <1>3. UNCHANGED <<event, mapping, recipe, failures>> /\ th'[t] = Idle
    BY <1>1 DEF _analyze_and_decide, Become
  <1>4. a \in SUBSET Fields
    BY <1>1 DEF Answers, DriftRow
  <1>5. status(s) \in _OPEN_DRIFT \cup ResolvedStatus
    BY <1>1 DEF DriftRow, _OPEN_DRIFT
  <1> HIDE DEF status
  <1>6. /\ row(a, s) \in DriftRow /\ row(a, s).shape = drift[k].shape
        /\ row(a, s).base = drift[k].base
        /\ row(a, s).status = status(s) /\ row(a, s).proposal = a
    BY <1>1, <1>4, <1>5 DEF DriftRow
  <1> HIDE DEF row
  <1>7. RowWritten(k, row(a, s))
    BY <1>1, <1>2, <1>6, WritesRow
  <1>8. QED
    BY <1>1, <1>2, <1>3, <1>6, <1>7 DEF status

LEMMA AutoApproveEffect ==
    ASSUME IInv, NEW t \in Threads, AutoApprove(t)
    PROVE  /\ OnlyThread /\ th[t].pc = "decide" /\ th'[t].pc = "version"
           /\ th'[t].op = "approve" /\ th'[t].d = th[t].d
           /\ th'[t].answer = drift[th[t].d].shape /\ KeepsEngine(t)
  <1>1. th[t] \in ThreadRow /\ th \in [Threads -> ThreadRow]
    BY ReadTypes DEF IInv, TypeOK
  <1>2. QED
    BY <1>1 DEF AutoApprove, Become, ThreadRow, OnlyThread, KeepsEngine

LEMMA RejectEffect ==
    ASSUME IInv, NEW t \in Threads, CommitReject(t)
    PROVE  /\ UNCHANGED <<event, mapping, recipe, failures>>
           /\ th[t].pc = "reject" /\ th'[t] = Idle /\ th[t].d \in DriftIds
           /\ \/ UNCHANGED drift
              \/ \E row \in DriftRow :
                    /\ RowWritten(th[t].d, row) /\ th[t].seen # "rejected"
                    /\ row.shape = drift[th[t].d].shape /\ row.base = drift[th[t].d].base
                    /\ row.analyzed = drift[th[t].d].analyzed
                    /\ row.proposal = drift[th[t].d].proposal
                    /\ row.status = "rejected"
  <1> DEFINE k == th[t].d
             row == [drift[k] EXCEPT !.status = "rejected"]
  <1>1. /\ th \in [Threads -> ThreadRow] /\ TypeOK
        /\ th[t].pc = "reject" /\ k \in DriftIds /\ drift[k] \in DriftRow
    BY ReadTypes DEF IInv, TypeOK, CommitReject, MemoryIsSound, MemoryOf
  <1>2. UNCHANGED <<event, mapping, recipe, failures>> /\ th'[t] = Idle
    BY <1>1 DEF CommitReject, Become
  <1>3. UNCHANGED drift \/ (th[t].seen # "rejected" /\ drift' = [drift EXCEPT ![k] = row])
    BY DEF CommitReject
  <1>4. /\ row \in DriftRow /\ row.shape = drift[k].shape /\ row.base = drift[k].base
        /\ row.analyzed = drift[k].analyzed /\ row.proposal = drift[k].proposal
        /\ row.status = "rejected"
    BY <1>1 DEF DriftRow, ResolvedStatus
  <1> HIDE DEF row
  <1>5. drift' = [drift EXCEPT ![k] = row] => RowWritten(k, row)
    BY <1>1, <1>4, WritesRow
  <1>6. QED
    BY <1>1, <1>2, <1>3, <1>4, <1>5

LEMMA FailEffect ==
    ASSUME IInv, NEW t \in Threads, Fail(t)
    PROVE  UNCHANGED <<mapping, drift, recipe>> /\ failures' = failures + 1 /\ th'[t] = Idle
  BY DEF IInv, TypeOK, Fail, Become

-----------------------------------------------------------------------------
(* One request per shape, and verdicts that stay. *)

(* A step that is not the INSERT of a request: requests keep what they ask *)
(* about, and only an open one changes its status.                         *)
Tame ==
    /\ DriftIds' = DriftIds
    /\ \A d \in DriftIds : drift'[d].shape = drift[d].shape
    /\ \A d \in DriftIds : drift'[d].status = drift[d].status
                              \/ drift[d].status \in _OPEN_DRIFT

LEMMA SameDriftIsTame == ASSUME UNCHANGED drift PROVE Tame
  BY DEF Tame, DriftIds

LEMMA TameRow ==
    ASSUME NEW k \in DriftIds, NEW row, RowWritten(k, row), row.shape = drift[k].shape,
           row.status = drift[k].status \/ drift[k].status \in _OPEN_DRIFT
    PROVE  Tame
  BY DEF Tame, RowWritten

LEMMA ReadingIsExact ==
    ASSUME IInv, NEW t \in Threads, ExactOf(t),
           \/ Begin(t) \/ _compute(t) \/ ReadOpenDrift(t) \/ Hold(t) \/ Release(t)
           \/ ReadVersion(t) \/ reprocess_quarantined(t) \/ AutoApprove(t) \/ Fail(t)
    PROVE  ExactOf(t)' /\ Tame
  <1>1. ASSUME Begin(t) PROVE UNCHANGED drift /\ ExactOf(t)'
    BY <1>1, BeginEffect DEF OnlyThread, ExactOf, Publishes
  <1>2. ASSUME _compute(t) PROVE UNCHANGED drift /\ ExactOf(t)'
    BY <1>2, ComputeEffect DEF OnlyThread, Goes, ExactOf, Publishes
  <1>3. ASSUME ReadOpenDrift(t) PROVE UNCHANGED drift /\ ExactOf(t)'
    <2> DEFINE same == OpenDrifts(detect_drift(th[t].e, th[t].m))
    <2>1. /\ OnlyThread /\ Goes(t, "writeDrift") /\ th'[t].e = th[t].e /\ th'[t].m = th[t].m
          /\ \/ same = {} /\ th'[t].cand = 0
             \/ /\ th'[t].cand \in same
                /\ th'[t].snap = drift[th'[t].cand].events
                /\ th'[t].snapBase = drift[th'[t].cand].base
      BY <1>3, ReadDriftEffect DEF KeepsEngine
    <2>2. 0 \notin same /\ \A c \in same : drift[c].status \in _OPEN_DRIFT
      BY DEF DriftIds, OpenDrifts
    <2>3. OpenDrifts(detect_drift(th[t].e, th[t].m))' = same
      BY <2>1 DEF OnlyThread, OpenDrifts, detect_drift, DriftIds
    <2> HIDE DEF same
    <2>4. QED
      BY <2>1, <2>2, <2>3 DEF ExactOf, OnlyThread, Goes, Publishes
  <1>4. ASSUME Hold(t) \/ Release(t) PROVE UNCHANGED drift /\ ExactOf(t)'
    BY <1>4, StoreEffect DEF Goes, ExactOf, Publishes, Idle
  <1>5. ASSUME ReadVersion(t) PROVE UNCHANGED drift /\ ExactOf(t)'
    BY <1>5, VersionEffect DEF OnlyThread, Goes, ExactOf, Publishes
  <1>6. ASSUME reprocess_quarantined(t) PROVE UNCHANGED drift /\ ExactOf(t)'
    BY <1>6, SelectEffect DEF OnlyThread, Goes, ExactOf, Publishes
  <1>7. ASSUME AutoApprove(t) PROVE UNCHANGED drift /\ ExactOf(t)'
    BY <1>7, AutoApproveEffect DEF OnlyThread, ExactOf, Publishes, _OPEN_DRIFT
  <1>8. ASSUME Fail(t) PROVE UNCHANGED drift /\ ExactOf(t)'
    BY <1>8, FailEffect DEF ExactOf, Publishes, Idle
  <1>9. QED
    BY <1>1, <1>2, <1>3, <1>4, <1>5, <1>6, <1>7, <1>8, SameDriftIsTame

LEMMA WritingIsExact ==
    ASSUME IInv, NEW t \in Threads, ExactOf(t),
           \/ MergeIntoDrift(t) \/ _create_versioned_mapping(t) \/ RebindAndCollapse(t)
           \/ FinishApproval(t) \/ _analyze_and_decide(t) \/ CommitReject(t)
    PROVE  ExactOf(t)' /\ Tame
  <1> DEFINE k == th[t].d
  <1>1. th[t].op \in Publishes => k \in DriftIds
    BY DEF IInv, MemoryIsSound, MemoryOf, DriftOps, Publishes
  <1>2. \A d \in DriftIds : drift[d] \in DriftRow
    BY ReadTypes DEF IInv
  <1>3. CASE MergeIntoDrift(t)
    <2>1. PICK row : /\ th[t].cand \in DriftIds /\ RowWritten(th[t].cand, row)
                     /\ row.shape = drift[th[t].cand].shape
                     /\ row.status = drift[th[t].cand].status
      BY <1>3, MergeEffect
    <2>2. \A d \in DriftIds : drift'[d].status = drift[d].status
      BY <2>1 DEF RowWritten
    <2>3. ExactOf(t)'
      BY <1>1, <1>3, <2>2, MergeEffect DEF Goes, ExactOf, Publishes
    <2>4. QED
      BY <2>1, <2>3, TameRow
  <1>4. CASE _create_versioned_mapping(t)
    <2>1. /\ DriftIds' = DriftIds
          /\ \A d \in DriftIds : /\ drift'[d].status = drift[d].status
                                 /\ drift'[d].shape = drift[d].shape
      BY <1>4, PublishEffect
    <2>2. QED
      BY <1>1, <1>4, <2>1, PublishEffect DEF ExactOf, Tame, Publishes
  <1>5. CASE RebindAndCollapse(t)
    <2>1. /\ th[t].pc = "rebind" /\ Goes(t, "select") /\ DriftIds' = DriftIds
          /\ \A d \in DriftIds :
                /\ drift'[d].shape = drift[d].shape
                /\ \/ drift'[d].status = drift[d].status
                   \/ d # k /\ drift[d].status \in _OPEN_DRIFT
      BY <1>5, RebindEffect
    <2>2. QED
      BY <1>1, <2>1 DEF ExactOf, Tame, Goes, Publishes
  <1>6. CASE FinishApproval(t)
    <2>1. PICK row : /\ k \in DriftIds /\ RowWritten(k, row)
                     /\ row.shape = drift[k].shape /\ row.status = "approved"
      BY <1>6, FinishEffect
    <2>2. drift[k].status # "rejected" /\ th'[t] = Idle
      BY <1>6, FinishEffect DEF ExactOf
    <2>3. row.status = drift[k].status \/ drift[k].status \in _OPEN_DRIFT
      BY <1>2, <2>1, <2>2 DEF DriftRow, ResolvedStatus
    <2>4. QED
      BY <2>1, <2>2, <2>3, TameRow DEF ExactOf, Publishes, Idle
  <1>7. CASE _analyze_and_decide(t)
    <2>1. PICK row : /\ k \in DriftIds /\ RowWritten(k, row) /\ row.shape = drift[k].shape
      BY <1>7, DecideEffect
    <2>2. drift[k].status \in _OPEN_DRIFT /\ th'[t] = Idle
      BY <1>7, DecideEffect DEF ExactOf
    <2>3. QED
      BY <2>1, <2>2, TameRow DEF ExactOf, Publishes, Idle
  <1>8. CASE CommitReject(t)
    <2>1. CASE UNCHANGED drift
      BY <1>8, <2>1, RejectEffect, SameDriftIsTame DEF ExactOf, Publishes, Idle
    <2>2. CASE \E row : /\ k \in DriftIds /\ RowWritten(k, row) /\ row.shape = drift[k].shape
                        /\ th[t].seen # "rejected"
      <3>1. PICK row : /\ k \in DriftIds /\ RowWritten(k, row) /\ row.shape = drift[k].shape
                       /\ th[t].seen # "rejected"
        BY <2>2
      <3>2. drift[k].status \in _OPEN_DRIFT /\ th'[t] = Idle
        BY <1>2, <1>8, <3>1, RejectEffect DEF ExactOf, DriftRow, ResolvedStatus
      <3>3. QED
        BY <3>1, <3>2, TameRow DEF ExactOf, Publishes, Idle
    <2>3. QED
      BY <1>8, <2>1, <2>2, RejectEffect
  <1>9. QED
    BY <1>3, <1>4, <1>5, <1>6, <1>7, <1>8

LEMMA InsertingIsExact ==
    ASSUME IInv, NEW t \in Threads, ExactOf(t), OneOpenRequestPerShape, InsertDrift(t)
    PROVE  /\ ExactOf(t)' /\ OneOpenRequestPerShape' /\ DriftIds \subseteq DriftIds'
           /\ \A d \in DriftIds : drift'[d] = drift[d]
  <1> DEFINE n == Len(drift) + 1
             shape == detect_drift(th[t].e, th[t].m)
  <1>1. /\ th[t].pc = "writeDrift" /\ th[t].cand = 0 /\ Goes(t, "hold")
        /\ DriftIds' = DriftIds \cup {n} /\ n \notin DriftIds
        /\ \A d \in DriftIds : drift'[d] = drift[d]
        /\ drift'[n].shape = shape
    BY InsertEffect
  <1>2. th[t].op \in Publishes => th[t].d \in DriftIds
    BY DEF IInv, MemoryIsSound, MemoryOf, DriftOps, Publishes
  <1>3. ExactOf(t)'
    BY <1>1, <1>2 DEF ExactOf, Goes, Publishes
  <1>4. OpenDrifts(shape) = {}
    BY <1>1 DEF ExactOf
  <1> HIDE DEF n, shape
  <1>5. \A d \in DriftIds : drift[d].status \in _OPEN_DRIFT => drift[d].shape # shape
    BY <1>4 DEF OpenDrifts
  <1>6. QED
    BY <1>1, <1>3, <1>5 DEF OneOpenRequestPerShape

SeqStep(t) ==
    /\ ExactOf(t)' /\ OneOpenRequestPerShape'
    /\ \A d \in DriftIds :
         drift[d].status \in ResolvedStatus => drift'[d].status = drift[d].status

LEMMA EveryStepIsExact ==
    ASSUME IInv, OneOpenRequestPerShape, NEW t \in Threads, ExactOf(t), Step(t)
    PROVE  SeqStep(t)
  <1>1. ASSUME Tame PROVE /\ OneOpenRequestPerShape'
                          /\ \A d \in DriftIds :
                               drift[d].status \in ResolvedStatus
                                  => drift'[d].status = drift[d].status
    BY <1>1 DEF Tame, OneOpenRequestPerShape, ResolvedStatus, _OPEN_DRIFT
  <1>2. CASE InsertDrift(t)
    BY <1>2, InsertingIsExact DEF SeqStep
  <1>3. CASE ~InsertDrift(t)
    BY <1>1, <1>3, ReadingIsExact, WritingIsExact DEF SeqStep, Step, Work
  <1>4. QED
    BY <1>2, <1>3

LEMMA InitSeq == Init => SeqInv
  BY InitIInv DEF Init, SeqInv, ExactOf, Publishes, Idle, OneOpenRequestPerShape, DriftIds

LEMMA NextSeq ==
    ASSUME OneAtATime, SeqInv, [Next]_vars
    PROVE  /\ SeqInv'
           /\ \A d \in DriftIds :
                drift[d].status \in ResolvedStatus => drift'[d].status = drift[d].status
  <1>1. IInv'
    BY NextIInv DEF SeqInv
  <1>2. ASSUME NEW t \in Threads, Step(t)
        PROVE  /\ OneOpenRequestPerShape' /\ \A u \in Threads : ExactOf(u)'
               /\ \A d \in DriftIds :
                    drift[d].status \in ResolvedStatus => drift'[d].status = drift[d].status
    BY <1>2, EveryStepIsExact DEF SeqInv, SeqStep, OneAtATime
  <1>3. CASE UNCHANGED vars
    <2>1. UNCHANGED <<event, mapping, drift, recipe, th, failures>>
      BY <1>3 DEF vars
    <2>2. OneOpenRequestPerShape' /\ \A u \in Threads : ExactOf(u)'
      BY <2>1 DEF SeqInv, OneOpenRequestPerShape, ExactOf, OpenDrifts, detect_drift, DriftIds
    <2>3. QED
      BY <1>1, <2>1, <2>2 DEF SeqInv
  <1>4. QED
    BY <1>1, <1>2, <1>3 DEF Next, Step, SeqInv

(* A hundred identical anomalies are one item as long as handlers do not   *)
(* overlap, whatever they do and wherever they die (create_drift).         *)
THEOREM OneRequestTheorem == ASSUME OneAtATime PROVE Spec => []OneOpenRequestPerShape
  <1>1. Init => SeqInv
    BY InitSeq
  <1>2. SeqInv /\ [Next]_vars => SeqInv'
    BY NextSeq
  <1>3. SeqInv => OneOpenRequestPerShape
    BY DEF SeqInv
  <1>4. QED
    BY <1>1, <1>2, <1>3, PTL DEF Spec

(* A verdict on a request is final as long as handlers do not overlap      *)
(* (approve_drift, reject_drift, _analyze_and_decide, the collapse).       *)
THEOREM ResolvedTheorem == ASSUME OneAtATime PROVE Spec => ResolvedStaysResolved
  <1>1. Init => SeqInv
    BY InitSeq
  <1>2. SeqInv /\ [Next]_vars => SeqInv'
    BY NextSeq
  <1>3. SeqInv /\ [Next]_vars =>
           [\A d \in DriftIds :
              drift[d].status \in ResolvedStatus => drift'[d].status = drift[d].status]_vars
    BY NextSeq
  <1>4. QED
    BY <1>1, <1>2, <1>3, PTL DEF Spec, ResolvedStaysResolved

-----------------------------------------------------------------------------
(* A request that a held event waits for extends the version in force. *)

(* Where the binding a session would use does not change. *)
LEMMA SameLookup ==
    ASSUME NEW t \in Threads, UNCHANGED mapping,
           \/ UNCHANGED recipe /\ th'[t].rebind = th[t].rebind
           \/ recipe' = FlushedRecipe(t) /\ th'[t].rebind = 0
    PROVE  _lookup_mapping(t)' = _lookup_mapping(t) /\ Newest' = Newest
  BY DEF _lookup_mapping, FlushedRecipe, find_active_mapping, Newest

(* Requests that are open afterwards were open before with the same        *)
(* baseline, or have the newest version as theirs.                         *)
KeepsBases ==
    \A d \in DriftIds' :
        drift'[d].status \in _OPEN_DRIFT =>
            \/ drift'[d].base = Newest
            \/ /\ d \in DriftIds /\ drift[d].status \in _OPEN_DRIFT
               /\ drift'[d].shape = drift[d].shape /\ drift'[d].base = drift[d].base

LEMMA StaysRebased ==
    ASSUME UNCHANGED mapping, KeepsBases, NEW e, Rebased(e)
    PROVE  Rebased(e)'
  BY DEF KeepsBases, Rebased, Newest, detect_drift

LEMMA SameDriftKeepsBases == ASSUME UNCHANGED drift PROVE KeepsBases
  BY DEF KeepsBases, DriftIds

LEMMA RowKeepsBases ==
    ASSUME NEW k \in DriftIds, NEW row, RowWritten(k, row),
           row.status \in _OPEN_DRIFT => drift[k].status \in _OPEN_DRIFT,
           row.shape = drift[k].shape, row.base \in {drift[k].base, Newest}
    PROVE  KeepsBases
  BY DEF KeepsBases, RowWritten

LEMMA ReadingIsSettled ==
    ASSUME NEW t \in Threads, IInv, SettledOf(t),
           \/ Begin(t) \/ _compute(t) \/ ReadOpenDrift(t)
           \/ ReadVersion(t) \/ AutoApprove(t)
    PROVE  SettledOf(t)'
  <1> DEFINE quiet == /\ OnlyThread
                      /\ th[t].pc \notin {"rebind", "select"}
                      /\ th'[t].pc \notin {"rebind", "select", "hold", "idle"}
                      /\ th'[t].pc \in {"decide", "reject", "version", "publish"} => th'[t].rebind = 0
                      /\ th'[t].rebind = th[t].rebind /\ th'[t].m \in {0, Newest}
                      /\ \/ th[t].pc \notin InEngine
                         \/ /\ th'[t].pc \in InEngine
                            /\ th'[t].op = th[t].op /\ th'[t].todo = th[t].todo
  <1>1. ASSUME Begin(t) PROVE quiet
    BY <1>1, BeginEffect DEF SettledOf, InEngine
  <1>2. ASSUME _compute(t) PROVE quiet
    BY <1>2, ComputeEffect DEF SettledOf, Goes, InEngine
  <1>3. ASSUME ReadOpenDrift(t) PROVE quiet
    BY <1>3, ReadDriftEffect DEF SettledOf, Goes, KeepsEngine, InEngine
  <1>4. ASSUME ReadVersion(t) PROVE quiet
    BY <1>4, VersionEffect DEF SettledOf, Goes, KeepsEngine, InEngine
  <1>5. ASSUME AutoApprove(t) PROVE quiet
    BY <1>5, AutoApproveEffect DEF SettledOf, KeepsEngine, InEngine
  <1>6. ASSUME quiet PROVE SettledOf(t)'
    <2>1. UNCHANGED <<event, mapping, drift, recipe>>
      BY <1>6 DEF OnlyThread
    <2>2. _lookup_mapping(t)' = _lookup_mapping(t) /\ Newest' = Newest
      BY <1>6, <2>1, SameLookup
    <2>3. \A e : Rebased(e) => Rebased(e)'
      BY <2>1, StaysRebased, SameDriftKeepsBases
    <2>4. Unsettled(t) \subseteq Unsettled(t)'
      BY <1>6 DEF Unsettled
    <2>5. \A e : Waits(e)' <=> Waits(e)
      BY <2>1 DEF Waits
    <2>6. QED
      BY <1>6, <2>2, <2>3, <2>4, <2>5 DEF SettledOf
  <1>7. QED
    BY <1>1, <1>2, <1>3, <1>4, <1>5, <1>6

(* create_drift commits a request that extends the newest version, and no  *)
(* other open one asks for the same.                                       *)
LEMMA RaisingIsSettled ==
    ASSUME NEW t \in Threads, IInv, OneOpenRequestPerShape, ExactOf(t), SettledOf(t),
           MergeIntoDrift(t) \/ InsertDrift(t)
    PROVE  SettledOf(t)'
  <1> DEFINE c == th[t].cand
             n == Len(drift) + 1
  <1>1. /\ UNCHANGED <<event, mapping>> /\ recipe' = FlushedRecipe(t)
        /\ th[t].pc = "writeDrift" /\ Goes(t, "hold")
        /\ th'[t].m = th[t].m /\ th'[t].rebind = 0
        /\ th'[t].e = th[t].e /\ th'[t].todo = th[t].todo
        /\ th[t].m \in MappingIds
    BY MergeEffect, InsertEffect
  <1>2. th[t].m = Newest
    BY <1>1 DEF SettledOf, MappingIds
  <1>3. KeepsBases /\ Rebased(th[t].e)'
    <2>1. CASE MergeIntoDrift(t)
      <3>1. PICK row \in DriftRow :
                /\ RowWritten(c, row) /\ row.status = drift[c].status
                /\ row.shape = drift[c].shape
                /\ row.base = IF th[t].m = th[t].snapBase THEN drift[c].base ELSE th[t].m
        BY <2>1, MergeEffect
      <3>2. /\ c \in DriftIds /\ c # 0 /\ drift[c].shape = detect_drift(th[t].e, th[t].m)
            /\ drift[c].status \in _OPEN_DRIFT /\ th[t].snapBase = drift[c].base
        BY <2>1, MergeEffect DEF ExactOf
      <3>3. row.base = Newest
        BY <1>2, <3>1, <3>2
      <3>4. KeepsBases
        BY <3>1, <3>2, <3>3, RowKeepsBases
      <3>5. \A d \in DriftIds : d # c /\ drift[d].status \in _OPEN_DRIFT
                                   => drift[d].shape # drift[c].shape
        BY <3>2 DEF OneOpenRequestPerShape
      <3>6. detect_drift(th[t].e, Newest)' = drift[c].shape
        BY <1>1, <1>2, <3>2 DEF detect_drift, Newest
      <3>7. QED
        BY <1>1, <3>1, <3>3, <3>4, <3>5, <3>6 DEF Rebased, RowWritten, Newest
    <2>2. CASE InsertDrift(t)
      <3>1. /\ DriftIds' = DriftIds \cup {n} /\ n \notin DriftIds
            /\ \A d \in DriftIds : drift'[d] = drift[d]
            /\ drift'[n].base = Newest /\ c = 0
            /\ drift'[n].shape = detect_drift(th[t].e, th[t].m)
        BY <1>2, <2>2, InsertEffect
      <3> HIDE DEF n
      <3>2. KeepsBases
        BY <3>1 DEF KeepsBases
      <3>3. \A d \in DriftIds : drift[d].status \in _OPEN_DRIFT
                                   => drift[d].shape # detect_drift(th[t].e, th[t].m)
        BY <1>1, <3>1 DEF ExactOf, OpenDrifts
      <3>4. detect_drift(th[t].e, Newest)' = detect_drift(th[t].e, th[t].m)
        BY <1>1, <1>2 DEF detect_drift, Newest
      <3>5. QED
        BY <1>1, <3>1, <3>2, <3>3, <3>4 DEF Rebased, Newest
    <2>3. QED
      BY <2>1, <2>2
  <1>4. \A e : Rebased(e) => Rebased(e)'
    BY <1>1, <1>3, StaysRebased
  <1>5. _lookup_mapping(t)' = _lookup_mapping(t) /\ Newest' = Newest
    BY <1>1, SameLookup
  <1>6. \A e : Waits(e)' <=> Waits(e)
    BY <1>1 DEF Waits
  <1>7. Unsettled(t)' = Unsettled(t)
    BY <1>1 DEF Unsettled, Goes, InEngine
  <1>8. QED
    BY <1>1, <1>2, <1>3, <1>4, <1>5, <1>6, <1>7 DEF SettledOf, Goes

(* The event's row is committed: it is held behind that request, or it is  *)
(* out of quarantine, and the engine is left with one event less.          *)
LEMMA StoringIsSettled ==
    ASSUME NEW t \in Threads, IInv, SettledOf(t), Hold(t) \/ Release(t)
    PROVE  SettledOf(t)'
  <1>1. /\ UNCHANGED <<mapping, drift>> /\ recipe' = FlushedRecipe(t) /\ th'[t].rebind = 0
        /\ \A e \in Events : IF e = th[t].e THEN Waits(e)' => th[t].pc = "hold"
                             ELSE event'[e] = event[e]
        /\ \/ /\ Goes(t, "compute") /\ th'[t].m = th[t].m
              /\ th'[t].todo = th[t].todo \ {th[t].e}
           \/ /\ Goes(t, "finish") /\ th'[t].m = 0
              /\ th[t].op \in Publishes /\ th[t].todo \subseteq {th[t].e}
           \/ th'[t] = Idle /\ th[t].op \notin Publishes
    BY StoreEffect
  <1>2. th[t].pc \in {"hold", "release"}
    BY DEF Hold, Release
  <1>3. \A e : Rebased(e) => Rebased(e)'
    BY <1>1, StaysRebased, SameDriftKeepsBases
  <1>4. _lookup_mapping(t)' = _lookup_mapping(t) /\ Newest' = Newest
    BY <1>1, SameLookup
  <1>5. \A e \in Unsettled(t) : e \in Unsettled(t)' \/ e = th[t].e
    BY <1>1, <1>2 DEF Unsettled, Goes, InEngine
  <1>6. ASSUME NEW e \in Events, Waits(e)', e \notin Unsettled(t)' PROVE Rebased(e)'
    <2>1. CASE e = th[t].e
      <3>1. th[t].pc = "hold"
        BY <1>1, <1>6, <2>1
      <3>2. QED
        BY <1>3, <2>1, <3>1 DEF SettledOf
    <2>2. CASE e # th[t].e
      <3>1. Waits(e)
        BY <1>1, <1>6, <2>2 DEF Waits
      <3>2. QED
        BY <1>3, <1>5, <1>6, <2>2, <3>1 DEF SettledOf
    <2>3. QED
      BY <2>1, <2>2
  <1>7. th'[t].pc \in {"compute", "finish", "idle"} /\ th'[t].m \in {0, Newest}
    BY <1>1, <1>2 DEF SettledOf, Goes, Idle
  <1>8. QED
    BY <1>1, <1>2, <1>4, <1>6, <1>7 DEF SettledOf

(* After the publication everything held is run again under the new        *)
(* version: the binding follows it, and no verdict counts until then.      *)
LEMMA PublishingIsSettled ==
    ASSUME NEW t \in Threads, IInv, ExactOf(t), SettledOf(t),
           _create_versioned_mapping(t) \/ RebindAndCollapse(t) \/ reprocess_quarantined(t)
    PROVE  SettledOf(t)'
  <1>1. CASE _create_versioned_mapping(t)
    BY <1>1, PublishEffect DEF SettledOf, Unsettled
  <1>2. CASE RebindAndCollapse(t)
    <2> DEFINE m == th[t].m
               target == IF recipe # 0 /\ recipe # m THEN m ELSE 0
    <2>1. /\ UNCHANGED mapping /\ th[t].pc = "rebind" /\ Goes(t, "select") /\ th'[t].m = m
          /\ \/ th'[t].rebind = target /\ UNCHANGED recipe
             \/ th'[t].rebind = th[t].rebind /\ recipe' = IF target # 0 THEN target ELSE recipe
      BY <1>2, RebindEffect
    <2>2. m = Newest /\ th[t].rebind = 0 /\ Newest' = Newest /\ Newest # 0
      BY <2>1 DEF SettledOf, Newest, IInv, TypeOK
    <2>3. _lookup_mapping(t)' = Newest
      BY <2>1, <2>2 DEF _lookup_mapping, find_active_mapping, Newest
    <2>4. QED
      BY <2>1, <2>2, <2>3 DEF SettledOf, Unsettled, Goes
  <1>3. CASE reprocess_quarantined(t)
    <2>1. /\ OnlyThread /\ th[t].pc = "select" /\ th[t].op \in Publishes
          /\ \/ Goes(t, "compute")
             \/ Goes(t, "finish") /\ th'[t].todo = {}
          /\ th'[t].m = 0 /\ th'[t].rebind = th[t].rebind
          /\ th'[t].todo = {e \in Events : Waits(e)}
      BY <1>3, SelectEffect DEF ExactOf
    <2>2. _lookup_mapping(t)' = _lookup_mapping(t) /\ Newest' = Newest
      BY <2>1, SameLookup DEF OnlyThread
    <2>3. \A e : Waits(e)' <=> Waits(e)
      BY <2>1 DEF Waits, OnlyThread
    <2>4. ASSUME NEW e \in Events, Waits(e)', e \notin Unsettled(t)' PROVE Rebased(e)'
      BY <2>1, <2>3, <2>4 DEF Unsettled, Goes, InEngine
    <2>5. QED
      BY <2>1, <2>2, <2>4 DEF SettledOf, Goes
  <1>4. QED
    BY <1>1, <1>2, <1>3

LEMMA EndingIsSettled ==
    ASSUME NEW t \in Threads, IInv, ExactOf(t), SettledOf(t),
           FinishApproval(t) \/ _analyze_and_decide(t) \/ CommitReject(t)
    PROVE  SettledOf(t)'
  <1> DEFINE k == th[t].d
  <1>1. /\ UNCHANGED <<event, mapping>> /\ th'[t] = Idle
        /\ th[t].pc \in {"finish", "decide", "reject"}
    BY FinishEffect, DecideEffect, RejectEffect
  <1>2. (UNCHANGED recipe /\ th[t].rebind = 0) \/ recipe' = FlushedRecipe(t)
    BY FinishEffect, DecideEffect, RejectEffect DEF SettledOf
  <1>3. _lookup_mapping(t)' = _lookup_mapping(t) /\ Newest' = Newest
    BY <1>1, <1>2, SameLookup DEF Idle
  <1>4. KeepsBases
    <2>1. CASE FinishApproval(t)
      <3>1. PICK row : /\ k \in DriftIds /\ RowWritten(k, row) /\ row.shape = drift[k].shape
                       /\ row.base = drift[k].base /\ row.status = "approved"
        BY <2>1, FinishEffect
      <3>2. QED
        BY <3>1, RowKeepsBases DEF _OPEN_DRIFT
    <2>2. CASE _analyze_and_decide(t)
      <3>1. PICK row : /\ k \in DriftIds /\ RowWritten(k, row) /\ row.shape = drift[k].shape
                       /\ row.base = drift[k].base
        BY <2>2, DecideEffect
      <3>2. drift[k].status \in _OPEN_DRIFT
        BY <2>2, DecideEffect DEF ExactOf
      <3>3. QED
        BY <3>1, <3>2, RowKeepsBases
    <2>3. CASE CommitReject(t) /\ ~UNCHANGED drift
      <3>1. PICK row : /\ k \in DriftIds /\ RowWritten(k, row) /\ row.shape = drift[k].shape
                       /\ row.base = drift[k].base /\ row.status = "rejected"
        BY <2>3, RejectEffect
      <3>2. QED
        BY <3>1, RowKeepsBases DEF _OPEN_DRIFT
    <2>4. QED
      BY <2>1, <2>2, <2>3, SameDriftKeepsBases
  <1>5. \A e : Rebased(e) => Rebased(e)'
    BY <1>1, <1>4, StaysRebased
  <1>6. Unsettled(t) = {}
    BY <1>1 DEF Unsettled, InEngine
  <1>7. \A e : Waits(e)' <=> Waits(e)
    BY <1>1 DEF Waits
  <1>8. QED
    BY <1>1, <1>3, <1>5, <1>6, <1>7 DEF SettledOf, Idle

LEMMA EveryStepSettles ==
    ASSUME NEW t \in Threads, IInv, OneOpenRequestPerShape, ExactOf(t), Step(t),
           failures = 0 => SettledOf(t)
    PROVE  failures' = 0 => SettledOf(t)'
  <1>1. CASE Fail(t)
    <2>1. failures' # 0
      BY <1>1 DEF Fail, IInv, TypeOK
    <2>2. QED
      BY <2>1
  <1>2. CASE ~Fail(t)
    <2>1. UNCHANGED failures
      BY <1>2, BeginEffect, ComputeEffect, ReadDriftEffect, MergeEffect, InsertEffect,
         StoreEffect, VersionEffect, PublishEffect, RebindEffect, SelectEffect,
         FinishEffect, DecideEffect, AutoApproveEffect, RejectEffect
         DEF OnlyThread, Step, Work
    <2>2. QED
      BY <1>2, <2>1, ReadingIsSettled, RaisingIsSettled, StoringIsSettled,
         PublishingIsSettled, EndingIsSettled DEF Step, Work
  <1>3. QED
    BY <1>1, <1>2

LEMMA InitRebased == Init => RebasedInv
  <1> SUFFICES ASSUME Init, NEW t \in Threads PROVE SettledOf(t)
    BY InitSeq DEF RebasedInv
  <1>1. th[t] = Idle /\ Len(mapping) = 1 /\ recipe \in {0, 1}
    BY DEF Init
  <1>2. \A e \in Events : ~Waits(e)
    BY DEF Init, Waits
  <1>3. QED
    BY <1>1, <1>2 DEF SettledOf, Idle, Newest, _lookup_mapping, find_active_mapping

LEMMA NextRebased ==
    ASSUME OneAtATime, RebasedInv, [Next]_vars
    PROVE  RebasedInv'
  <1>1. SeqInv'
    BY NextSeq DEF RebasedInv
  <1>2. ASSUME NEW t \in Threads, Step(t)
        PROVE  \A u \in Threads : failures' = 0 => SettledOf(u)'
    BY <1>2, EveryStepSettles DEF RebasedInv, SeqInv, OneAtATime
  <1>3. CASE UNCHANGED vars
    <2>1. UNCHANGED <<event, mapping, drift, recipe, th, failures>>
      BY <1>3 DEF vars
    <2>2. \A e : (Waits(e)' <=> Waits(e)) /\ (Rebased(e)' <=> Rebased(e))
      BY <2>1 DEF Waits, Rebased, Newest, detect_drift, DriftIds
    <2>3. \A u \in Threads : /\ Unsettled(u)' = Unsettled(u)
                             /\ _lookup_mapping(u)' = _lookup_mapping(u)
      BY <2>1 DEF Unsettled, _lookup_mapping, find_active_mapping
    <2>4. Newest' = Newest
      BY <2>1 DEF Newest
    <2>5. QED
      BY <1>1, <2>1, <2>2, <2>3, <2>4 DEF RebasedInv, SettledOf
  <1>4. QED
    BY <1>1, <1>2, <1>3 DEF Next, Step, RebasedInv

(* Of one handler at a time, none of which died: a request that a held     *)
(* event waits for extends the version in force, so that approving it      *)
(* forgets nothing approved in the meantime (create_drift re-points the    *)
(* baseline when reprocess_quarantined runs the event again).              *)
THEOREM WaitedForTheorem == ASSUME OneAtATime PROVE Spec => []WaitedForExtendsCurrent
  <1>1. Init => RebasedInv
    BY InitRebased
  <1>2. RebasedInv /\ [Next]_vars => RebasedInv'
    BY NextRebased
  <1>3. RebasedInv => WaitedForExtendsCurrent
    <2> SUFFICES ASSUME RebasedInv, Quiet, failures = 0, NEW d \in DriftIds, NEW e \in Events,
                        drift[d].status \in _OPEN_DRIFT, event[e].status = "quarantined",
                        detect_drift(e, MappingInForce) = drift[d].shape
                 PROVE  drift[d].base = MappingInForce
      BY DEF WaitedForExtendsCurrent
    <2>1. PICK t : t \in Threads
      BY ThreadsAssumption
    <2>2. th[t].pc = "idle" /\ SettledOf(t)
      BY <2>1 DEF Quiet, RebasedInv
    <2>3. MappingInForce = Newest /\ Rebased(e)
      BY <2>2 DEF SettledOf, _lookup_mapping, MappingInForce, Unsettled, InEngine, Waits
    <2>4. QED
      BY <2>3 DEF Rebased
  <1>4. QED
    BY <1>1, <1>2, <1>3, PTL DEF Spec

-----------------------------------------------------------------------------
(* A held event can be decided about, when interpretations are complete. *)

(* No request is approved, and what requests ask stays. *)
KeepsVerdicts ==
    \A d \in DriftIds : /\ d \in DriftIds'
                        /\ drift'[d].shape = drift[d].shape
                        /\ drift'[d].status = "approved" => drift[d].status = "approved"

LEMMA StaysDecidable ==
    ASSUME UNCHANGED mapping, KeepsVerdicts, NEW e, Decidable(e)
    PROVE  Decidable(e)'
  BY DEF KeepsVerdicts, Decidable, Newest, detect_drift

(* A proposal is kept, computed for the whole shape, or what was about to  *)
(* be published for the request.                                           *)
KeepsProposals ==
    \A d \in DriftIds' :
        drift'[d].analyzed =>
            \/ drift'[d].proposal = drift'[d].shape
            \/ /\ d \in DriftIds /\ drift[d].analyzed
               /\ drift'[d].shape = drift[d].shape /\ drift'[d].proposal = drift[d].proposal

LEMMA ProposalsStay ==
    ASSUME ProposalIsShape, KeepsProposals
    PROVE  ProposalIsShape'
  BY DEF ProposalIsShape, KeepsProposals

(* The thread goes on with its operation, or with none: what it will       *)
(* publish, or has published, is all its request asks about.               *)
LEMMA StaysComplete ==
    ASSUME NEW t \in Threads, IInv, ExactOf(t), CompleteOf(t), UNCHANGED mapping,
           \A d \in DriftIds : drift'[d].shape = drift[d].shape,
           \/ th'[t].op \notin Publishes
           \/ /\ th'[t].op = th[t].op /\ th'[t].d = th[t].d /\ th'[t].answer = th[t].answer
              /\ th'[t].pc \in {"version", "publish"} <=> th[t].pc \in {"version", "publish"}
    PROVE  CompleteOf(t)'
  <1>1. th[t].op \in Publishes => th[t].d \in DriftIds
    BY DEF IInv, MemoryIsSound, MemoryOf, DriftOps, Publishes
  <1>2. QED
    BY <1>1 DEF CompleteOf, Newest, Publishes

DecidableStep(t) == ProposalIsShape' /\ CompleteOf(t)' /\ (failures' = 0 => DecidableOf(t)')

LEMMA ReadingIsDecidable ==
    ASSUME PartialAnswers = FALSE, NEW t \in Threads, IInv, ExactOf(t), ProposalIsShape,
           CompleteOf(t), failures = 0 => DecidableOf(t),
           \/ Begin(t) \/ _compute(t) \/ ReadOpenDrift(t)
           \/ ReadVersion(t) \/ AutoApprove(t)
    PROVE  DecidableStep(t)
  <1> DEFINE quiet == /\ OnlyThread
                      /\ th[t].pc \notin {"rebind", "select"}
                      /\ th'[t].pc # "hold"
                      /\ \/ th[t].pc \notin InEngine
                         \/ /\ th'[t].pc \in InEngine
                            /\ th'[t].op = th[t].op /\ th'[t].todo = th[t].todo
             asks == /\ th'[t].op \in Publishes => th'[t].d \in DriftIds
                     /\ \/ th'[t].op \notin Publishes
                        \/ /\ th'[t].pc \in {"version", "publish"}
                           /\ th'[t].answer = drift[th'[t].d].shape
                        \/ /\ Goes(t, th'[t].pc)
                           /\ th[t].pc \notin {"version", "publish"}
                           /\ th'[t].pc \notin {"version", "publish"}
  <1>1. th[t].op \in Publishes => th[t].d \in DriftIds
    BY DEF IInv, MemoryIsSound, MemoryOf, DriftOps, Publishes
  <1>2. ASSUME Begin(t) PROVE quiet /\ asks
    BY <1>2, BeginEffect DEF InEngine, Publishes
  <1>3. ASSUME _compute(t) PROVE quiet /\ asks
    BY <1>1, <1>3, ComputeEffect DEF Goes, InEngine
  <1>4. ASSUME ReadOpenDrift(t) PROVE quiet /\ asks
    BY <1>1, <1>4, ReadDriftEffect DEF Goes, InEngine
  <1>5. ASSUME ReadVersion(t) PROVE quiet /\ asks
    BY <1>1, <1>5, VersionEffect DEF Goes, InEngine, CompleteOf, ExactOf
  <1>6. ASSUME AutoApprove(t) PROVE quiet /\ asks
    <2>1. th[t].d \in DriftIds
      BY <1>6, AutoApproveEffect DEF IInv, MemoryIsSound, MemoryOf
    <2>2. QED
      BY <1>6, <2>1, AutoApproveEffect DEF InEngine
  <1>7. ASSUME quiet, asks PROVE DecidableStep(t)
    <2>1. UNCHANGED <<event, mapping, drift, failures>>
      BY <1>7 DEF OnlyThread
    <2>2. CompleteOf(t)'
      BY <1>7, <2>1 DEF CompleteOf, Goes, Publishes, Newest
    <2>3. ProposalIsShape'
      BY <2>1 DEF ProposalIsShape, DriftIds
    <2>4. \A e : (Decidable(e) => Decidable(e)') /\ (Waits(e)' <=> Waits(e))
      BY <2>1 DEF Decidable, Newest, detect_drift, DriftIds, Waits
    <2>5. Unsettled(t) \subseteq Unsettled(t)'
      BY <1>7 DEF Unsettled, InEngine
    <2>6. DecidableOf(t) => DecidableOf(t)'
      BY <1>7, <2>4, <2>5 DEF DecidableOf
    <2>7. QED
      BY <2>1, <2>2, <2>3, <2>6 DEF DecidableStep
  <1>8. QED
    BY <1>2, <1>3, <1>4, <1>5, <1>6, <1>7

LEMMA RaisingIsDecidable ==
    ASSUME NEW t \in Threads, IInv, ExactOf(t), ProposalIsShape, CompleteOf(t),
           failures = 0 => SettledOf(t) /\ DecidableOf(t),
           MergeIntoDrift(t) \/ InsertDrift(t)
    PROVE  DecidableStep(t)
  <1> DEFINE c == th[t].cand
             n == Len(drift) + 1
  <1>1. /\ UNCHANGED <<event, mapping, failures>>
        /\ th[t].pc = "writeDrift" /\ Goes(t, "hold")
        /\ th'[t].e = th[t].e /\ th'[t].todo = th[t].todo
        /\ th[t].m \in MappingIds
    BY MergeEffect, InsertEffect
  <1>2. /\ KeepsVerdicts /\ KeepsProposals
        /\ \E d \in DriftIds' : /\ drift'[d].shape = detect_drift(th[t].e, th[t].m)
                                /\ drift'[d].status # "approved"
    <2>1. CASE MergeIntoDrift(t)
      <3>1. PICK row \in DriftRow :
                /\ RowWritten(c, row) /\ row.status = drift[c].status
                /\ row.shape = drift[c].shape /\ row.analyzed = drift[c].analyzed
                /\ row.proposal = drift[c].proposal
        BY <2>1, MergeEffect
      <3>2. /\ c \in DriftIds /\ c # 0 /\ drift[c].shape = detect_drift(th[t].e, th[t].m)
            /\ drift[c].status \in _OPEN_DRIFT
        BY <2>1, MergeEffect DEF ExactOf
      <3>3. QED
        BY <3>1, <3>2 DEF KeepsVerdicts, KeepsProposals, RowWritten, _OPEN_DRIFT
    <2>2. CASE InsertDrift(t)
      <3>1. /\ DriftIds' = DriftIds \cup {n}
            /\ \A d \in DriftIds : drift'[d] = drift[d]
            /\ drift'[n].shape = detect_drift(th[t].e, th[t].m)
            /\ drift'[n].status = "detected" /\ drift'[n].analyzed = FALSE
        BY <2>2, InsertEffect
      <3> HIDE DEF n
      <3>2. QED
        BY <3>1 DEF KeepsVerdicts, KeepsProposals
    <2>3. QED
      BY <2>1, <2>2
  <1>3. ProposalIsShape'
    BY <1>2, ProposalsStay
  <1>4. CompleteOf(t)'
    BY <1>1, <1>2, StaysComplete DEF KeepsVerdicts, Goes
  <1>5. ASSUME failures = 0 PROVE DecidableOf(t)'
    <2>1. th[t].m = Newest
      BY <1>1, <1>5 DEF SettledOf, MappingIds
    <2>2. Decidable(th[t].e)'
      BY <1>1, <1>2, <2>1 DEF Decidable, detect_drift, Newest
    <2>3. \A e : (Decidable(e) => Decidable(e)') /\ (Waits(e)' <=> Waits(e))
      BY <1>1, <1>2, StaysDecidable DEF Waits
    <2>4. Unsettled(t)' = Unsettled(t)
      BY <1>1 DEF Unsettled, Goes, InEngine
    <2>5. QED
      BY <1>1, <1>5, <2>2, <2>3, <2>4 DEF DecidableOf
  <1>6. QED
    BY <1>1, <1>3, <1>4, <1>5 DEF DecidableStep

LEMMA StoringIsDecidable ==
    ASSUME NEW t \in Threads, IInv, ExactOf(t), ProposalIsShape, CompleteOf(t),
           failures = 0 => DecidableOf(t), Hold(t) \/ Release(t)
    PROVE  DecidableStep(t)
  <1>1. /\ UNCHANGED <<mapping, drift, failures>>
        /\ \A e \in Events : IF e = th[t].e THEN Waits(e)' => th[t].pc = "hold"
                             ELSE event'[e] = event[e]
        /\ \/ Goes(t, "compute") /\ th'[t].todo = th[t].todo \ {th[t].e}
           \/ /\ Goes(t, "finish")
              /\ th[t].op \in Publishes /\ th[t].todo \subseteq {th[t].e}
           \/ th'[t] = Idle /\ th[t].op \notin Publishes
    BY StoreEffect
  <1>2. th[t].pc \in {"hold", "release"}
    BY DEF Hold, Release
  <1>3. ProposalIsShape' /\ \A e : Decidable(e)' <=> Decidable(e)
    BY <1>1 DEF ProposalIsShape, Decidable, Newest, detect_drift, DriftIds
  <1>4. CompleteOf(t)'
    BY <1>1, <1>2, StaysComplete DEF Goes, Idle, Publishes
  <1>5. \A e \in Unsettled(t) : e \in Unsettled(t)' \/ e = th[t].e
    BY <1>1, <1>2 DEF Unsettled, Goes, InEngine
  <1>6. ASSUME failures = 0, NEW e \in Events, Waits(e)', e \notin Unsettled(t)'
        PROVE  Decidable(e)'
    <2>1. CASE e = th[t].e
      <3>1. th[t].pc = "hold"
        BY <1>1, <1>6, <2>1
      <3>2. QED
        BY <1>3, <1>6, <2>1, <3>1 DEF DecidableOf
    <2>2. CASE e # th[t].e
      <3>1. Waits(e)
        BY <1>1, <1>6, <2>2 DEF Waits
      <3>2. QED
        BY <1>3, <1>5, <1>6, <2>2, <3>1 DEF DecidableOf
    <2>3. QED
      BY <2>1, <2>2
  <1>7. th'[t].pc # "hold"
    BY <1>1 DEF Goes, Idle
  <1>8. QED
    BY <1>1, <1>3, <1>4, <1>6, <1>7 DEF DecidableStep, DecidableOf

LEMMA PublishingIsDecidable ==
    ASSUME NEW t \in Threads, IInv, ExactOf(t), ProposalIsShape, CompleteOf(t),
           _create_versioned_mapping(t) \/ RebindAndCollapse(t) \/ reprocess_quarantined(t)
    PROVE  DecidableStep(t)
  <1> DEFINE k == th[t].d
  <1>1. CASE _create_versioned_mapping(t)
    <2>1. /\ th[t].pc = "publish" /\ th'[t].pc = "rebind"
          /\ th'[t].op = th[t].op /\ th'[t].d = k /\ k \in DriftIds
          /\ th[t].op = "correct" => th'[t].answer = th[t].answer
          /\ th[t].answer \subseteq mapping'[Newest'].fields
          /\ DriftIds' = DriftIds
          /\ \A d \in DriftIds :
               \/ drift'[d] = drift[d]
               \/ /\ d = k /\ drift'[d].shape = drift[d].shape
                  /\ drift'[d].proposal = th[t].answer
      BY <1>1, PublishEffect
    <2>2. th[t].answer = drift[k].shape /\ drift'[k].shape = drift[k].shape
      BY <2>1 DEF CompleteOf, ExactOf
    <2>3. ProposalIsShape'
      BY <2>1, <2>2 DEF ProposalIsShape
    <2>4. CompleteOf(t)'
      BY <2>1, <2>2 DEF CompleteOf, Publishes
    <2>5. DecidableOf(t)'
      BY <2>1 DEF DecidableOf, Unsettled
    <2>6. QED
      BY <2>3, <2>4, <2>5 DEF DecidableStep
  <1>2. CASE RebindAndCollapse(t)
    <2>1. /\ UNCHANGED mapping /\ th[t].pc = "rebind" /\ Goes(t, "select")
          /\ DriftIds' = DriftIds
          /\ \A d \in DriftIds : /\ drift'[d].shape = drift[d].shape
                                 /\ drift'[d].analyzed = drift[d].analyzed
                                 /\ drift'[d].proposal = drift[d].proposal
      BY <1>2, RebindEffect
    <2>2. ProposalIsShape'
      BY <2>1 DEF ProposalIsShape
    <2>3. CompleteOf(t)'
      BY <2>1, StaysComplete DEF Goes
    <2>4. DecidableOf(t)'
      BY <2>1 DEF DecidableOf, Unsettled, Goes
    <2>5. QED
      BY <2>2, <2>3, <2>4 DEF DecidableStep
  <1>3. CASE reprocess_quarantined(t)
    <2>1. /\ UNCHANGED <<event, mapping, drift>> /\ th[t].pc = "select"
          /\ th[t].op \in Publishes
          /\ \/ Goes(t, "compute")
             \/ Goes(t, "finish") /\ th'[t].todo = {}
          /\ th'[t].todo = {e \in Events : Waits(e)}
      BY <1>3, SelectEffect DEF ExactOf, OnlyThread
    <2>2. ProposalIsShape' /\ \A e : Waits(e)' <=> Waits(e)
      BY <2>1 DEF ProposalIsShape, DriftIds, Waits
    <2>3. CompleteOf(t)'
      BY <2>1, StaysComplete DEF Goes
    <2>4. ASSUME NEW e \in Events, Waits(e)', e \notin Unsettled(t)' PROVE Decidable(e)'
      BY <2>1, <2>2, <2>4 DEF Unsettled, Goes, InEngine
    <2>5. QED
      BY <2>1, <2>2, <2>3, <2>4 DEF DecidableStep, DecidableOf, Goes
  <1>4. QED
    BY <1>1, <1>2, <1>3

(* An approval closes its request, which no held event waits for any more: *)
(* the version it published knows every field of the request's shape.      *)
LEMMA EndingIsDecidable ==
    ASSUME PartialAnswers = FALSE, NEW t \in Threads, IInv, ExactOf(t), ProposalIsShape,
           CompleteOf(t), failures = 0 => DecidableOf(t),
           FinishApproval(t) \/ _analyze_and_decide(t) \/ CommitReject(t)
    PROVE  DecidableStep(t)
  <1> DEFINE k == th[t].d
  <1>1. /\ UNCHANGED <<event, mapping, failures>> /\ th'[t] = Idle
        /\ th[t].pc \in {"finish", "decide", "reject"} /\ k \in DriftIds
    BY FinishEffect, DecideEffect, RejectEffect
  <1>2. Unsettled(t) = {} /\ CompleteOf(t)'
    BY <1>1 DEF Unsettled, InEngine, CompleteOf, Idle, Publishes
  <1>3. \A e : Waits(e)' <=> Waits(e)
    BY <1>1 DEF Waits
  <1>4. CASE FinishApproval(t)
    <2>1. PICK row : /\ RowWritten(k, row) /\ row.shape = drift[k].shape
                     /\ \/ /\ row.analyzed = drift[k].analyzed
                           /\ row.proposal = drift[k].proposal
                        \/ th[t].op = "correct" /\ row.proposal = th[t].answer
      BY <1>4, FinishEffect
    <2>2. th[t].pc = "finish"
      BY <1>4 DEF FinishApproval
    <2>3. /\ drift[k].shape \subseteq mapping[Newest].fields
          /\ th[t].op = "correct" => th[t].answer = drift[k].shape
      BY <2>2 DEF CompleteOf, ExactOf
    <2>4. ProposalIsShape'
      BY <1>1, <2>1, <2>3 DEF ProposalIsShape, RowWritten
    <2>5. ASSUME NEW e, Decidable(e) PROVE Decidable(e)'
      <3>1. CASE detect_drift(e, Newest) = {}
        BY <1>1, <3>1 DEF Decidable, detect_drift, Newest
      <3>2. CASE detect_drift(e, Newest) # {}
        <4>1. PICK d \in DriftIds : /\ drift[d].shape = detect_drift(e, Newest)
                                    /\ drift[d].status # "approved"
          BY <2>5, <3>2 DEF Decidable
        <4>2. d # k
          BY <2>3, <3>2, <4>1 DEF detect_drift
        <4>3. drift'[d] = drift[d] /\ d \in DriftIds'
          BY <2>1, <4>2 DEF RowWritten
        <4>4. QED
          BY <1>1, <4>1, <4>3 DEF Decidable, detect_drift, Newest
      <3>3. QED
        BY <3>1, <3>2
    <2>6. QED
      BY <1>1, <1>2, <1>3, <2>4, <2>5 DEF DecidableStep, DecidableOf, Idle
  <1>5. CASE ~FinishApproval(t)
    <2>1. KeepsVerdicts /\ KeepsProposals
      <3>1. CASE _analyze_and_decide(t)
        <4>1. PICK row \in DriftRow, s \in {"analyzed", "review"} :
                /\ RowWritten(k, row) /\ row.shape = drift[k].shape
                /\ row.status = IF th[t].seen = s THEN drift[k].status ELSE s
                /\ row.proposal \in Answers(row.shape)
          BY <3>1, DecideEffect
        <4>2. row.proposal = row.shape
          BY <4>1 DEF Answers
        <4>3. row.status = "approved" => drift[k].status = "approved"
          BY <4>1
        <4>4. QED
          BY <1>1, <4>1, <4>2, <4>3 DEF KeepsVerdicts, KeepsProposals, RowWritten
      <3>2. CASE CommitReject(t)
        <4>1. \/ UNCHANGED drift
              \/ \E row : /\ RowWritten(k, row) /\ row.shape = drift[k].shape
                          /\ row.analyzed = drift[k].analyzed
                          /\ row.proposal = drift[k].proposal /\ row.status = "rejected"
          BY <3>2, RejectEffect
        <4>2. CASE UNCHANGED drift
          BY <4>2 DEF KeepsVerdicts, KeepsProposals, DriftIds
        <4>3. CASE ~UNCHANGED drift
          BY <1>1, <4>1, <4>3 DEF KeepsVerdicts, KeepsProposals, RowWritten
        <4>4. QED
          BY <4>2, <4>3
      <3>3. QED
        BY <1>5, <3>1, <3>2
    <2>2. \A e : Decidable(e) => Decidable(e)'
      BY <1>1, <2>1, StaysDecidable
    <2>3. ProposalIsShape'
      BY <2>1, ProposalsStay
    <2>4. QED
      BY <1>1, <1>2, <1>3, <2>2, <2>3 DEF DecidableStep, DecidableOf, Idle
  <1>6. QED
    BY <1>4, <1>5

LEMMA EveryStepIsDecidable ==
    ASSUME PartialAnswers = FALSE, NEW t \in Threads, IInv, ExactOf(t), ProposalIsShape,
           CompleteOf(t), failures = 0 => SettledOf(t) /\ DecidableOf(t), Step(t)
    PROVE  DecidableStep(t)
  <1>1. CASE Fail(t)
    <2>1. UNCHANGED drift /\ failures' = failures + 1 /\ th'[t] = Idle
      BY <1>1, FailEffect
    <2>2. ProposalIsShape' /\ CompleteOf(t)' /\ failures' # 0
      BY <2>1 DEF ProposalIsShape, CompleteOf, DriftIds, Idle, Publishes, IInv, TypeOK
    <2>3. QED
      BY <2>2 DEF DecidableStep
  <1>2. CASE ~Fail(t)
    BY <1>2, ReadingIsDecidable, RaisingIsDecidable, StoringIsDecidable,
       PublishingIsDecidable, EndingIsDecidable DEF Step, Work
  <1>3. QED
    BY <1>1, <1>2

LEMMA InitDecidable == Init => DecidableInv
  <1> SUFFICES ASSUME Init
               PROVE  /\ ProposalIsShape
                      /\ \A t \in Threads : CompleteOf(t) /\ DecidableOf(t)
    BY InitRebased DEF DecidableInv
  <1>1. /\ DriftIds = {} /\ (\A t \in Threads : th[t] = Idle) /\ \A e \in Events : ~Waits(e)
    BY DEF Init, DriftIds, Waits
  <1>2. QED
    BY <1>1 DEF ProposalIsShape, CompleteOf, DecidableOf, Idle, Publishes

LEMMA NextDecidable ==
    ASSUME OneAtATime, PartialAnswers = FALSE, DecidableInv, [Next]_vars
    PROVE  DecidableInv'
  <1>1. RebasedInv'
    BY NextRebased DEF DecidableInv
  <1>2. ASSUME NEW t \in Threads, Step(t)
        PROVE  /\ ProposalIsShape'
               /\ \A u \in Threads : CompleteOf(u)' /\ (failures' = 0 => DecidableOf(u)')
    BY <1>2, EveryStepIsDecidable
       DEF DecidableInv, RebasedInv, SeqInv, OneAtATime, DecidableStep
  <1>3. CASE UNCHANGED vars
    <2>1. UNCHANGED <<event, mapping, drift, recipe, th, failures>>
      BY <1>3 DEF vars
    <2>2. \A e : (Waits(e)' <=> Waits(e)) /\ (Decidable(e)' <=> Decidable(e))
      BY <2>1 DEF Waits, Decidable, Newest, detect_drift, DriftIds
    <2>3. ProposalIsShape' /\ \A u \in Threads : Unsettled(u)' = Unsettled(u)
      BY <2>1 DEF DecidableInv, ProposalIsShape, DriftIds, Unsettled
    <2>4. \A u \in Threads : CompleteOf(u)'
      BY <2>1 DEF DecidableInv, CompleteOf, Newest
    <2>5. QED
      BY <1>1, <2>1, <2>2, <2>3, <2>4 DEF DecidableInv, DecidableOf
  <1>4. QED
    BY <1>1, <1>2, <1>3 DEF Next, Step, DecidableInv

(* Of one handler at a time, none of which died, with interpretations that *)
(* give every field a semantic: a held event would be released by a retry, *)
(* or a request that nobody approved asks for exactly what it lacks. So no *)
(* event is stuck (reprocess_quarantined runs the whole pile under the new *)
(* version before its request is closed).                                  *)
THEOREM DecidableTheorem ==
    ASSUME OneAtATime, PartialAnswers = FALSE PROVE Spec => []HeldIsDecidable
  <1>1. Init => DecidableInv
    BY InitDecidable
  <1>2. DecidableInv /\ [Next]_vars => DecidableInv'
    BY NextDecidable
  <1>3. DecidableInv => HeldIsDecidable
    <2> SUFFICES ASSUME DecidableInv, Quiet, failures = 0, NEW e \in Events,
                        event[e].status = "quarantined"
                 PROVE  \/ detect_drift(e, MappingInForce) = {}
                        \/ \E d \in DriftIds : /\ drift[d].shape = detect_drift(e, MappingInForce)
                                               /\ drift[d].status # "approved"
      BY DEF HeldIsDecidable
    <2>1. PICK t : t \in Threads
      BY ThreadsAssumption
    <2>2. th[t].pc = "idle" /\ SettledOf(t) /\ DecidableOf(t)
      BY <2>1 DEF Quiet, DecidableInv, RebasedInv
    <2>3. MappingInForce = Newest /\ Decidable(e)
      BY <2>2 DEF SettledOf, DecidableOf, _lookup_mapping, MappingInForce, Unsettled,
                  InEngine, Waits
    <2>4. QED
      BY <2>3 DEF Decidable
  <1>4. QED
    BY <1>1, <1>2, <1>3, PTL DEF Spec
=============================================================================
