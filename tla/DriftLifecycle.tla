--------------------------- MODULE DriftLifecycle ---------------------------
(***************************************************************************)
(* The quarantine and drift loop of one source: events are ingested, an    *)
(* event that carries fields its mapping does not know is held in          *)
(* quarantine behind a drift request, operators and the AI automation      *)
(* resolve requests, and an approved request publishes a mapping version   *)
(* and runs the held events through the engine again.                      *)
(*                                                                         *)
(* Handlers run in a thread pool and on the event loop over one database   *)
(* at READ COMMITTED (or SQLite in WAL mode): a handler is a sequence of   *)
(* reads and commits that other handlers interleave with.  A step of this  *)
(* module is one such read or one commit; what a session has changed and   *)
(* not committed yet lives in the thread's record.                         *)
(***************************************************************************)
EXTENDS Naturals, Sequences, FiniteSets

CONSTANTS
    Threads,        \* requests and background jobs that can be in flight at once
    Events,         \* event identities (envelope ids)
    Fields,         \* names of meaningful payload fields
    Carries,        \* Carries[e]: the meaningful fields of event e
    BaseFields,     \* the fields the first published mapping knows
    AutoApply,      \* the ai_auto_apply setting
    PartialAnswers, \* TRUE: an interpretation may leave fields without a semantic
    Reapprove,      \* TRUE: operators also approve what is already approved
    MaxMappings,    \* bound on published versions
    MaxDrifts,      \* bound on drift records
    MaxRaised,      \* no event is ingested or retried beyond so many drift records unless it
                    \* needs no new one
    MaxFailures,    \* bound on requests that die half-way
    NoEvent

ASSUME ThreadsAssumption == Threads # {}
ASSUME CarriesAssumption == Carries \in [Events -> SUBSET Fields]
ASSUME BaseAssumption == BaseFields \subseteq Fields
ASSUME SettingAssumption ==
    {AutoApply, PartialAnswers, Reapprove} \subseteq BOOLEAN
ASSUME BoundsAssumption ==
    /\ MaxMappings \in Nat \ {0}
    /\ {MaxDrifts, MaxRaised} \subseteq Nat
    /\ MaxFailures \in Nat
ASSUME NoEventAssumption == NoEvent \notin Events

VARIABLES
    event,      \* the Event rows: status and the mapping the provenance names
    mapping,    \* the Mapping rows, in id order
    drift,      \* the DriftRecord rows, in id order
    recipe,     \* mapping id the source's recipe is bound to, 0 without a recipe
    th,         \* what each thread holds in its session and its local variables
    failures    \* requests that died so far

vars == <<event, mapping, drift, recipe, th, failures>>

-----------------------------------------------------------------------------
(* Rows *)

_OPEN_DRIFT == {"detected", "analyzed", "review"}
ResolvedStatus == {"approved", "rejected"}
EventStatus == {"absent", "lost", "quarantined", "normalized"}

DriftIds == 1 .. Len(drift)
MappingIds == 1 .. Len(mapping)

EventRow == [status : EventStatus, via : Nat]
MappingRow == [fields : SUBSET Fields, version : Nat, base : Nat]
DriftRow == [status : _OPEN_DRIFT \cup ResolvedStatus, shape : SUBSET Fields,
             events : SUBSET Events, base : Nat,
             analyzed : BOOLEAN, proposal : SUBSET Fields]

Steps == {"idle", "compute", "readDrift", "writeDrift", "hold", "release",
          "version", "publish", "rebind", "select", "finish",
          "decide", "reject"}
Ops == {"none", "ingest", "retry", "approve", "correct", "analyze", "reject"}

(* A thread's record: the operation and its next step; the drift it works  *)
(* on, with the status and baseline it loaded; the assignments it will     *)
(* publish; the version number it read; a recipe change its session has    *)
(* not committed; and for the engine it runs, the mapping it resolved, the *)
(* events still to compute, the current one, and the open request (with    *)
(* the values it loaded) that the current one merges into.                 *)
ThreadRow == [pc : Steps, op : Ops, d : Nat,
              seen : _OPEN_DRIFT \cup ResolvedStatus \cup {"none"}, base : Nat,
              answer : SUBSET Fields, fresh : BOOLEAN, ver : Nat, rebind : Nat,
              m : Nat, todo : SUBSET Events, e : Events \cup {NoEvent},
              cand : Nat, snap : SUBSET Events, snapBase : Nat]

Idle == [pc |-> "idle", op |-> "none", d |-> 0, seen |-> "none", base |-> 0,
         answer |-> {}, fresh |-> FALSE, ver |-> 0, rebind |-> 0,
         m |-> 0, todo |-> {}, e |-> NoEvent,
         cand |-> 0, snap |-> {}, snapBase |-> 0]

(* Mutant: the difference taken the wrong way round. *)
MissingInstead(e, m) == mapping[m].fields \ Carries[e]

(* Thread t goes on with the record r. *)
Become(t, r) == th' = [th EXCEPT ![t] = r]

detect_drift(e, m) == Carries[e] \ mapping[m].fields

find_active_mapping == Len(mapping)

(* Mutant: the engine reads the recipe as if it were already committed. *)
CommittedRecipeOnly(t) == IF recipe # 0 THEN recipe ELSE find_active_mapping

(* The recipe wins over the active mapping; a session sees the recipe      *)
(* change it has not committed yet.                                        *)
_lookup_mapping(t) ==
    IF th[t].rebind # 0 THEN th[t].rebind
    ELSE IF recipe # 0 THEN recipe ELSE find_active_mapping

(* A commit of t's session writes its pending recipe change, if any. *)
FlushedRecipe(t) == IF th[t].rebind # 0 THEN th[t].rebind ELSE recipe

(* Mutant: any open record of the source is merged into. *)
OpenOfAnyShape(shape) == {d \in DriftIds : drift[d].status \in _OPEN_DRIFT}

(* Mutant: the mapping version is part of the merge key. *)
OpenOfThisVersion(shape) ==
    {d \in DriftIds : /\ drift[d].status \in _OPEN_DRIFT
                      /\ drift[d].shape = shape /\ drift[d].base = Len(mapping)}

OpenDrifts(shape) ==
    {d \in DriftIds : drift[d].status \in _OPEN_DRIFT /\ drift[d].shape = shape}

(* What an interpretation of `shape` can assign a semantic to. *)
Answers(shape) == IF PartialAnswers THEN SUBSET shape ELSE {shape}

Init ==
    /\ event = [e \in Events |-> [status |-> "absent", via |-> 0]]
    /\ mapping = <<[fields |-> BaseFields, version |-> 1, base |-> 0]>>
    /\ drift = <<>>
    /\ recipe \in {0, 1}
    /\ th = [t \in Threads |-> Idle]
    /\ failures = 0

-----------------------------------------------------------------------------
(* The engine: one event through _compute, create_drift and the commit *)

(* What a lookup outside any session finds. *)
MappingInForce == IF recipe # 0 THEN recipe ELSE find_active_mapping

(* The bound on records where an operation begins: with MaxDrifts well     *)
(* above MaxRaised, whatever has begun completes, and approvals raise what *)
(* they have to.  An event that needs no new record may always come.       *)
RaiseRoom(e) ==
    \/ Len(drift) < MaxRaised
    \/ detect_drift(e, MappingInForce) = {}
    \/ OpenDrifts(detect_drift(e, MappingInForce)) # {}

process_payload(t, e) ==
    /\ th[t].pc = "idle"
    /\ RaiseRoom(e)
    /\ event[e].status = "absent"
    /\ \A u \in Threads : ~(th[u].op = "ingest" /\ e \in th[u].todo)
    /\ Become(t, [Idle EXCEPT !.pc = "compute", !.op = "ingest", !.todo = {e}])
    /\ UNCHANGED <<event, mapping, drift, recipe, failures>>

retry_event(t, e) ==
    /\ th[t].pc = "idle"
    /\ RaiseRoom(e)
    /\ event[e].status = "quarantined"
    /\ Become(t, [Idle EXCEPT !.pc = "compute", !.op = "retry", !.todo = {e}])
    /\ UNCHANGED <<event, mapping, drift, recipe, failures>>

(* Mutant: while some request is open no further one is raised. *)
OneRequestIsEnough(t) ==
    /\ th[t].pc = "compute"
    /\ \E e \in th[t].todo :
         LET m == IF th[t].m # 0 THEN th[t].m ELSE _lookup_mapping(t)
         IN  Become(t, [th[t] EXCEPT !.e = e, !.m = m,
                     !.pc = IF detect_drift(e, m) = {} THEN "release"
                               ELSE IF \E d \in DriftIds : drift[d].status \in _OPEN_DRIFT
                               THEN "hold" ELSE "readDrift"])
    /\ UNCHANGED <<event, mapping, drift, recipe, failures>>

(* The mapping is resolved at the first event and kept for the engine's life. *)
_compute(t) ==
    /\ th[t].pc = "compute"
    /\ \E e \in th[t].todo :
         LET m == IF th[t].m # 0 THEN th[t].m ELSE _lookup_mapping(t)
         IN  Become(t, [th[t] EXCEPT !.e = e, !.m = m,
                     !.pc = IF detect_drift(e, m) = {} THEN "release" ELSE "readDrift"])
    /\ UNCHANGED <<event, mapping, drift, recipe, failures>>

(* create_drift, the SELECT of the open records: the first of the same     *)
(* shape is remembered with the event ids and baseline it had.             *)
ReadOpenDrift(t) ==
    /\ th[t].pc = "readDrift"
    /\ LET same == OpenDrifts(detect_drift(th[t].e, th[t].m))
       IN  \/ /\ same = {}
              /\ Become(t, [th[t] EXCEPT !.pc = "writeDrift", !.cand = 0])
           \/ \E c \in same :
                Become(t, [th[t] EXCEPT !.pc = "writeDrift", !.cand = c,
                                 !.snap = drift[c].events,
                                 !.snapBase = drift[c].base])
    /\ UNCHANGED <<event, mapping, drift, recipe, failures>>

(* Mutant: a merge keeps the baseline of the record. *)
MergeKeepsBaseline(t) ==
    /\ th[t].pc = "writeDrift"
    /\ th[t].cand # 0
    /\ drift' = [drift EXCEPT ![th[t].cand].events = th[t].snap \cup {th[t].e}]
    /\ recipe' = FlushedRecipe(t)
    /\ Become(t, [th[t] EXCEPT !.pc = "hold", !.rebind = 0, !.cand = 0,
                        !.snap = {}, !.snapBase = 0])
    /\ UNCHANGED <<event, mapping, failures>>

(* Mutant: a merge re-points the baseline to the newest version, not to    *)
(* the one the event was computed under.                                   *)
MergeRepointsToNewest(t) ==
    /\ th[t].pc = "writeDrift"
    /\ th[t].cand # 0
    /\ drift' = [drift EXCEPT ![th[t].cand].events = th[t].snap \cup {th[t].e},
                              ![th[t].cand].base = find_active_mapping]
    /\ recipe' = FlushedRecipe(t)
    /\ Become(t, [th[t] EXCEPT !.pc = "hold", !.rebind = 0, !.cand = 0,
                        !.snap = {}, !.snapBase = 0])
    /\ UNCHANGED <<event, mapping, failures>>

(* create_drift, the merge and its commit.  The UPDATE carries a column    *)
(* only when its value differs from the one loaded, and never the status.  *)
MergeIntoDrift(t) ==
    LET c == th[t].cand
        ids == th[t].snap \cup {th[t].e}
    IN  /\ th[t].pc = "writeDrift"
        /\ c # 0
        /\ drift' = [drift EXCEPT ![c] = [drift[c] EXCEPT
                       !.events = IF ids = th[t].snap THEN @ ELSE ids,
                       !.base = IF th[t].m = th[t].snapBase THEN @ ELSE th[t].m]]
        /\ recipe' = FlushedRecipe(t)
        /\ Become(t, [th[t] EXCEPT !.pc = "hold", !.rebind = 0, !.cand = 0,
                            !.snap = {}, !.snapBase = 0])
        /\ UNCHANGED <<event, mapping, failures>>

(* create_drift, the INSERT of a new record and its commit. *)
InsertDrift(t) ==
    /\ th[t].pc = "writeDrift"
    /\ th[t].cand = 0
    /\ Len(drift) < MaxDrifts
    /\ drift' = Append(drift,
                  [status |-> "detected", shape |-> detect_drift(th[t].e, th[t].m),
                   events |-> {th[t].e}, base |-> th[t].m,
                   analyzed |-> FALSE, proposal |-> {}])
    /\ recipe' = FlushedRecipe(t)
    /\ Become(t, [th[t] EXCEPT !.pc = "hold", !.rebind = 0])
    /\ UNCHANGED <<event, mapping, failures>>

(* After an event is stored the loop takes the next one; an approval then  *)
(* goes on to its status, the other operations are over.                   *)
AfterEvent(t) ==
    LET rest == th[t].todo \ {th[t].e}
    IN  IF rest # {}
        THEN [th[t] EXCEPT !.pc = "compute", !.todo = rest, !.e = NoEvent, !.rebind = 0]
        ELSE IF th[t].op \in {"approve", "correct"}
        THEN [th[t] EXCEPT !.pc = "finish", !.todo = {}, !.e = NoEvent, !.m = 0, !.rebind = 0]
        ELSE Idle

StoreEvent(t, row) ==
    /\ event' = [event EXCEPT ![th[t].e] = row]
    /\ recipe' = FlushedRecipe(t)
    /\ Become(t, AfterEvent(t))
    /\ UNCHANGED <<mapping, drift, failures>>

Hold(t) ==
    /\ th[t].pc = "hold"
    /\ StoreEvent(t, [status |-> "quarantined", via |-> 0])

Release(t) ==
    /\ th[t].pc = "release"
    /\ StoreEvent(t, [status |-> "normalized", via |-> th[t].m])

-----------------------------------------------------------------------------
(* Resolving a request *)

(* The bound on versions, kept so that a publication once begun completes. *)
PublishRoom ==
    Len(mapping) + Cardinality({u \in Threads : th[u].pc \in {"version", "publish"}})
        < MaxMappings

(* approve_drift up to the call of apply_drift.  Only a rejected record is *)
(* refused; without a stored proposal the analysis runs first.             *)
approve_drift(t, d) ==
    /\ th[t].pc = "idle"
    /\ drift[d].status # "rejected"
    /\ Reapprove \/ drift[d].status # "approved"
    /\ PublishRoom
    /\ \E a \in (IF drift[d].analyzed THEN {drift[d].proposal} ELSE Answers(drift[d].shape)) :
         Become(t, [Idle EXCEPT !.pc = "version", !.op = "approve", !.d = d,
                                    !.base = drift[d].base,
                                    !.answer = a, !.fresh = ~drift[d].analyzed])
    /\ UNCHANGED <<event, mapping, drift, recipe, failures>>

(* correct_drift up to apply_corrections: at least one assignment with a   *)
(* semantic, for any field.                                                *)
correct_drift(t, d) ==
    /\ th[t].pc = "idle"
    /\ drift[d].status \notin ResolvedStatus
    /\ PublishRoom
    /\ \E a \in (IF PartialAnswers THEN (SUBSET Fields) \ {{}} ELSE {drift[d].shape}) :
         Become(t, [Idle EXCEPT !.pc = "version", !.op = "correct", !.d = d,
                                    !.base = drift[d].base,
                                    !.answer = a])
    /\ UNCHANGED <<event, mapping, drift, recipe, failures>>

(* _create_versioned_mapping, the read of the version numbers. *)
ReadVersion(t) ==
    /\ th[t].pc = "version"
    /\ \E v \in {mapping[m].version : m \in MappingIds} :
         /\ \A m \in MappingIds : mapping[m].version <= v
         /\ Become(t, [th[t] EXCEPT !.pc = "publish", !.ver = v])
    /\ UNCHANGED <<event, mapping, drift, recipe, failures>>

(* _create_versioned_mapping, the INSERT and its commit, which also writes *)
(* a proposal the session has just computed.                               *)
_create_versioned_mapping(t) ==
    /\ th[t].pc = "publish"
    /\ mapping' = Append(mapping,
                    [fields |-> mapping[th[t].base].fields \cup th[t].answer,
                     version |-> th[t].ver + 1, base |-> th[t].base])
    /\ drift' = IF th[t].fresh
                THEN [drift EXCEPT ![th[t].d] =
                        [drift[th[t].d] EXCEPT !.analyzed = TRUE, !.proposal = th[t].answer]]
                ELSE drift
    /\ Become(t, [th[t] EXCEPT !.pc = "rebind", !.m = Len(mapping) + 1, !.ver = 0,
                        !.base = 0, !.fresh = FALSE,
                        !.answer = IF th[t].op = "correct" THEN @ ELSE {}])
    /\ UNCHANGED <<event, recipe, failures>>

(* The open records with the keeper's shape other than the keeper. *)
Siblings(d) == OpenDrifts(drift[d].shape) \ {d}

(* _rebind_recipe_to_mapping changes the recipe without a commit; then     *)
(* collapse_duplicate_siblings folds the siblings into the keeper and      *)
(* commits, if there is any.                                               *)
RebindAndCollapse(t) ==
    LET d == th[t].d
        target == IF recipe # 0 /\ recipe # th[t].m THEN th[t].m ELSE 0
    IN  /\ th[t].pc = "rebind"
        /\ IF Siblings(d) = {}
           THEN /\ Become(t, [th[t] EXCEPT !.pc = "select", !.rebind = target])
                /\ UNCHANGED <<drift, recipe>>
           ELSE /\ drift' = [c \in DriftIds |->
                     IF c = d
                     THEN [drift[c] EXCEPT !.events =
                             @ \cup UNION {drift[s].events : s \in Siblings(d)}]
                     ELSE IF c \in Siblings(d) THEN [drift[c] EXCEPT !.status = "rejected"]
                     ELSE drift[c]]
                /\ recipe' = IF target # 0 THEN target ELSE recipe
                /\ Become(t, [th[t] EXCEPT !.pc = "select"])
        /\ UNCHANGED <<event, mapping, failures>>

(* reprocess_quarantined: the SELECT of the held events, for a new engine. *)
reprocess_quarantined(t) ==
    LET held == {e \in Events : event[e].status = "quarantined"}
    IN  /\ th[t].pc = "select"
        /\ Become(t, [th[t] EXCEPT !.pc = IF held = {} THEN "finish" ELSE "compute",
                            !.todo = held, !.m = 0])
        /\ UNCHANGED <<event, mapping, drift, recipe, failures>>

(* The last commit of approve_drift, correct_drift and the auto-apply. *)
FinishApproval(t) ==
    LET d == th[t].d
    IN  /\ th[t].pc = "finish"
        /\ drift' = IF th[t].op = "correct" /\ ~drift[d].analyzed
                    THEN [drift EXCEPT ![d] =
                            [drift[d] EXCEPT !.status = "approved", !.analyzed = TRUE,
                                             !.proposal = th[t].answer]]
                    ELSE [drift EXCEPT ![d] = [drift[d] EXCEPT !.status = "approved"]]
        /\ recipe' = FlushedRecipe(t)
        /\ Become(t, Idle)
        /\ UNCHANGED <<event, mapping, failures>>

(* analyze_drift, the synthesis worker and the automation job all load an  *)
(* unresolved record and call the model, which takes as long as it takes.  *)
analyze_drift(t, d) ==
    /\ th[t].pc = "idle"
    /\ drift[d].status \notin ResolvedStatus
    /\ Become(t, [Idle EXCEPT !.pc = "decide", !.op = "analyze", !.d = d,
                                  !.seen = drift[d].status, !.base = drift[d].base])
    /\ UNCHANGED <<event, mapping, drift, recipe, failures>>

(* The answer arrives: the record is flagged or sent to review.  The       *)
(* status column is written when it differs from the one loaded.           *)
_analyze_and_decide(t) ==
    LET d == th[t].d
    IN  /\ th[t].pc = "decide"
        /\ \E a \in Answers(drift[d].shape), s \in {"analyzed", "review"} :
             /\ s = "analyzed" => a # {}
             /\ drift' = [drift EXCEPT ![d] =
                             [drift[d] EXCEPT !.analyzed = TRUE, !.proposal = a,
                                              !.status = IF th[t].seen = s THEN @ ELSE s]]
        /\ Become(t, Idle)
        /\ UNCHANGED <<event, mapping, recipe, failures>>

(* ... or, with auto-apply on and a complete interpretation, it goes the   *)
(* way of an approval.                                                     *)
AutoApprove(t) ==
    /\ AutoApply
    /\ PublishRoom
    /\ th[t].pc = "decide"
    /\ Become(t, [th[t] EXCEPT !.pc = "version", !.op = "approve", !.seen = "none",
                        !.answer = drift[th[t].d].shape, !.fresh = TRUE])
    /\ UNCHANGED <<event, mapping, drift, recipe, failures>>

(* Mutant: an approved record can still be rejected. *)
RejectAnything(t, d) ==
    /\ th[t].pc = "idle"
    /\ Become(t, [Idle EXCEPT !.pc = "reject", !.op = "reject", !.d = d,
                                  !.seen = drift[d].status])
    /\ UNCHANGED <<event, mapping, drift, recipe, failures>>

reject_drift(t, d) ==
    /\ th[t].pc = "idle"
    /\ drift[d].status # "approved"
    /\ Become(t, [Idle EXCEPT !.pc = "reject", !.op = "reject", !.d = d,
                                  !.seen = drift[d].status])
    /\ UNCHANGED <<event, mapping, drift, recipe, failures>>

CommitReject(t) ==
    /\ th[t].pc = "reject"
    /\ drift' = IF th[t].seen = "rejected" THEN drift
                ELSE [drift EXCEPT ![th[t].d] = [drift[th[t].d] EXCEPT !.status = "rejected"]]
    /\ Become(t, Idle)
    /\ UNCHANGED <<event, mapping, recipe, failures>>

-----------------------------------------------------------------------------
(* A request dies half-way: an exception rolls its session back, or the    *)
(* process is killed.  What it committed stays; an event it had not stored *)
(* yet never gets a row.                                                   *)
Fail(t) ==
    /\ th[t].pc # "idle"
    /\ failures < MaxFailures
    /\ failures' = failures + 1
    /\ event' = [e \in Events |->
                   IF th[t].op = "ingest" /\ e \in th[t].todo
                   THEN [event[e] EXCEPT !.status = "lost"] ELSE event[e]]
    /\ Become(t, Idle)
    /\ UNCHANGED <<mapping, drift, recipe>>

(* The steps a thread takes to finish what it began. *)
Work(t) ==
    \/ _compute(t) \/ ReadOpenDrift(t) \/ MergeIntoDrift(t) \/ InsertDrift(t)
    \/ Hold(t) \/ Release(t)
    \/ ReadVersion(t) \/ _create_versioned_mapping(t) \/ RebindAndCollapse(t)
    \/ reprocess_quarantined(t) \/ FinishApproval(t)
    \/ _analyze_and_decide(t) \/ AutoApprove(t) \/ CommitReject(t)

Begin(t) ==
    \/ \E e \in Events : process_payload(t, e) \/ retry_event(t, e)
    \/ \E d \in DriftIds : approve_drift(t, d) \/ correct_drift(t, d)
                            \/ analyze_drift(t, d) \/ reject_drift(t, d)

Next == \E t \in Threads : Begin(t) \/ Work(t) \/ Fail(t)

Spec == Init /\ [][Next]_vars

(* Once begun, a handler runs to its end: nothing in it waits for another  *)
(* handler.                                                                *)
FairSpec == Spec /\ \A t \in Threads : WF_vars(Work(t))

-----------------------------------------------------------------------------
(* Properties *)

(* Every variable keeps its type. *)
TypeOK ==
    /\ event \in [Events -> EventRow]
    /\ mapping \in Seq(MappingRow) /\ Len(mapping) >= 1
    /\ drift \in Seq(DriftRow)
    /\ recipe \in 0 .. Len(mapping)
    /\ th \in [Threads -> ThreadRow]
    /\ failures \in 0 .. MaxFailures

(* What a request asks about is unknown to the version its approval would  *)
(* extend, although every merge re-points that version (create_drift): two *)
(* handlers merge from snapshots taken before an approval published, and   *)
(* still no request asks for what its baseline already knows, so that an   *)
(* approval adds fields and redefines none.                                *)
RequestBeyondBaseline ==
    \A d \in DriftIds : /\ drift[d].base \in MappingIds
                         /\ drift[d].shape # {}
                         /\ drift[d].shape \cap mapping[drift[d].base].fields = {}

(* No event leaves quarantine through a mapping that misses one of its     *)
(* fields: what is output was fully understood (_compute).                 *)
ReleasedIsUnderstood ==
    \A e \in Events :
        event[e].status = "normalized" =>
            /\ event[e].via \in MappingIds
            /\ Carries[e] \subseteq mapping[event[e].via].fields

(* No event sits in quarantine without a request that was raised for       *)
(* exactly what some version did not know of it: the request is committed  *)
(* before the event row and requests are never deleted here.               *)
HeldIsExplained ==
    \A e \in Events :
        event[e].status = "quarantined" =>
            \E d \in DriftIds, m \in MappingIds :
                drift[d].shape = Carries[e] \ mapping[m].fields

(* A request lists only events that carry what it asks about, through      *)
(* merges from stale snapshots and the folding of siblings.                *)
RequestListsItsEvents ==
    \A d \in DriftIds : \A e \in drift[d].events : drift[d].shape \subseteq Carries[e]

DriftOps == {"approve", "correct", "analyze", "reject"}

(* What a thread remembers of rows it read in earlier steps still holds    *)
(* when it acts on it: the ids it keeps exist, the verdict it reached on   *)
(* the current event is the one its mapping gives, and the request it will *)
(* merge into asks for what the event has in excess.                       *)
MemoryOf(t) ==
    LET r == th[t]
    IN  /\ r.rebind <= Len(mapping) /\ r.m <= Len(mapping)
        /\ r.pc \in {"version", "publish", "rebind", "select", "finish", "decide", "reject"}
              => r.op \in DriftOps
        /\ r.op \in DriftOps => r.d \in DriftIds
        /\ r.pc \in {"version", "publish", "decide"} => r.base \in MappingIds
        /\ r.pc = "rebind" => r.m # 0
        /\ r.pc \in {"readDrift", "writeDrift", "hold", "release"} => r.e \in Events /\ r.m # 0
        /\ r.pc = "release" => detect_drift(r.e, r.m) = {}
        /\ r.pc \in {"readDrift", "writeDrift"} => detect_drift(r.e, r.m) # {}
        /\ r.pc = "writeDrift" /\ r.cand # 0 =>
              /\ r.cand \in DriftIds
              /\ drift[r.cand].shape = detect_drift(r.e, r.m)
              /\ \A x \in r.snap : drift[r.cand].shape \subseteq Carries[x]
        /\ r.pc = "hold" => \E d \in DriftIds : drift[d].shape = detect_drift(r.e, r.m)

MemoryIsSound == \A t \in Threads : MemoryOf(t)

(* Nobody is half-way through anything. *)
Quiet == \A t \in Threads : th[t].pc = "idle"

(* A hundred identical anomalies are one item (create_drift). *)
OneOpenRequestPerShape ==
    \A c, d \in DriftIds :
        /\ {drift[c].status, drift[d].status} \subseteq _OPEN_DRIFT
        /\ drift[c].shape = drift[d].shape
        => c = d

(* A request that a held event still waits for extends the version in      *)
(* force: approving it forgets nothing that was approved in the meantime   *)
(* (create_drift re-points the baseline when the event is run again).      *)
WaitedForExtendsCurrent ==
    Quiet /\ failures = 0 => \A d \in DriftIds, e \in Events :
        /\ drift[d].status \in _OPEN_DRIFT
        /\ event[e].status = "quarantined"
        /\ detect_drift(e, MappingInForce) = drift[d].shape
        => drift[d].base = MappingInForce

(* A held event can always be decided about: a retry would release it, an  *)
(* open request asks for what the current mapping misses, or an operator   *)
(* rejected that very request.                                             *)
HeldIsDecidable ==
    Quiet /\ failures = 0 => \A e \in Events :
        event[e].status = "quarantined" =>
            \/ detect_drift(e, MappingInForce) = {}
            \/ \E d \in DriftIds : /\ drift[d].shape = detect_drift(e, MappingInForce)
                                   /\ drift[d].status # "approved"

(* A resolved request is never opened again nor resolved otherwise. *)
ResolvedStaysResolved ==
    [][\A d \in DriftIds :
         drift[d].status \in ResolvedStatus => drift'[d].status = drift[d].status]_vars

(* Once an approval or a correction is about to publish, every held event  *)
(* whose fields its version will know gets out of quarantine: the whole    *)
(* pile, not one event of it.  Only the death of a request from then on    *)
(* excuses it, one that died before does not.                              *)
ApprovalEmptiesThePile ==
    \A e \in Events, k \in 0 .. MaxFailures :
        (/\ failures = k
         /\ event[e].status = "quarantined"
         /\ \E t \in Threads :
              /\ th[t].pc = "version"
              /\ Carries[e] \subseteq mapping[th[t].base].fields \cup th[t].answer)
        ~> (event[e].status = "normalized" \/ failures > k)
=============================================================================
