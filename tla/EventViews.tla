----------------------------- MODULE EventViews -----------------------------
(***************************************************************************)
(* Reading the event table while it changes: the exports with their counts *)
(* and pages, the grouping of held events, and the batch runs that own     *)
(* rows.  Every query is a step of its own, so ingestion, retries and      *)
(* purges fall between the pages of one download.                          *)
(***************************************************************************)
EXTENDS Integers, Sequences, FiniteSets, FiniteSetsExt, SequencesExt

CONSTANTS
    Arrivals,       \* what may be ingested: [env, shape, status] of a new event
    Filters,        \* what a client may ask for: [env, statuses, batch]
    Pinned,         \* the id lists a client may pin an export to
    Limits,         \* the limits a client may give, NoLimit among them
    NoLimit,
    Chunk,          \* rows a page holds (_CHUNK and _GROUP_SCAN_CHUNK, 2000)
    GroupIdsCap,    \* ids a group lists (_GROUP_IDS_CAP, 10000)
    BatchSizes,     \* how many lines a batch may have
    NoEnv,          \* what a reader without a request, and a deleted row, is about
    MaxRows,        \* bound on events
    MaxRuns         \* bound on batch runs

Held == {"quarantined", "dlq"}
Status == {"normalized"} \cup Held

ASSUME ArrivalAssumption == \A a \in Arrivals : a.status \in Status
ASSUME FilterAssumption == \A f \in Filters : f.statuses \subseteq Status /\ f.batch \in Nat
ASSUME PinnedAssumption == Pinned \subseteq Seq(1 .. MaxRows)
ASSUME LimitAssumption == NoLimit \notin Nat /\ Limits \subseteq Nat \cup {NoLimit}
ASSUME ViewBoundAssumption ==
    /\ Chunk \in Nat \ {0} /\ GroupIdsCap \in Nat \ {0}
    /\ BatchSizes \subseteq Nat \ {0}
    /\ MaxRows \in Nat /\ MaxRuns \in Nat

VARIABLES
    rows,       \* the Event rows in id order; a deleted one leaves Gone in its place
    runs,       \* the committed BatchRun rows in id order
    bt,         \* the batch request in progress
    rd          \* the reader in progress

viewVars == <<rows, runs, bt, rd>>

-----------------------------------------------------------------------------
(* Rows and queries *)

RowIds == 1 .. Len(rows)

(* A row knows the run it is listed under, and the run that stored it (the *)
(* second for RunOwnsItsRows only).                                        *)
NewRow(a, by) == [env |-> a.env, shape |-> a.shape, status |-> a.status,
                  batch |-> 0, by |-> by, live |-> TRUE]
Gone == [env |-> NoEnv, shape |-> NoEnv, status |-> "dlq", batch |-> 0, by |-> 0, live |-> FALSE]

_base_filters(f, r) ==
    /\ r.live
    /\ r.env = f.env
    /\ f.statuses = {} \/ r.status \in f.statuses
    /\ f.batch = 0 \/ r.batch = f.batch

(* A pinned export looks at the ids and the batch and at nothing else. *)
PinnedRow(f, r) == r.live /\ (f.batch = 0 \/ r.batch = f.batch)

(* The ids of a set, newest first, and oldest first. *)
NewestFirst(S) ==
    CHOOSE s \in [1 .. Cardinality(S) -> S] : \A i, j \in DOMAIN s : i < j => s[i] > s[j]
OldestFirst(S) == Reverse(NewestFirst(S))

(* OFFSET k LIMIT n *)
Slice(s, k, n) == SubSeq(s, k + 1, Min({k + n, Len(s)}))
FirstOf(s, n) == Slice(s, 0, n)

LimitTo(n) == IF rd.limit = NoLimit THEN n ELSE Min({n, rd.limit})
Normalized(S) == {d \in S : rows[d].status = "normalized"}

(* A reader: what it was asked, where it is, what it counted, the ids it   *)
(* shipped in order, its groups; and, to state what it promises, the rows  *)
(* that matched ever since it began and whether anything changed.          *)
NoReader == [op |-> "none", pc |-> "idle", filter |-> [env |-> NoEnv, statuses |-> {}, batch |-> 0],
             ids |-> <<>>, limit |-> NoLimit, total |-> 0, normalized |-> 0,
             last |-> 0, offset |-> 0, shipped |-> <<>>, groups |-> <<>>,
             steady |-> {}, quiet |-> TRUE]

Wanted == IF rd.limit = NoLimit THEN rd.ids ELSE FirstOf(rd.ids, rd.limit)

(* The rows a reader is after, as the table is now. *)
Matching(r) ==
    IF r.op = "ids" THEN {d \in RowIds : d \in Range(Wanted) /\ PinnedRow(r.filter, rows[d])}
    ELSE {d \in RowIds : _base_filters(r.filter, rows[d])}

(* A batch: how many lines it has and how many are left, the rows it       *)
(* stored, the lines the engine did not fail on, and its BatchRun once a   *)
(* commit has written it.                                                  *)
NoBatch == [pc |-> "idle", lines |-> 0, left |-> 0, mine |-> {}, processed |-> 0, run |-> 0]

ViewsInit ==
    /\ rows = <<>>
    /\ runs = <<>>
    /\ bt = NoBatch
    /\ rd = NoReader

(* A commit of somebody else: a reader's steady rows are those that still  *)
(* match.                                                                  *)
Commit(new) ==
    /\ rows' = new
    /\ rd' = IF rd.pc = "idle" THEN rd
             ELSE [rd EXCEPT !.quiet = @ /\ (rd.pc = "total" \/ new = rows),
                             !.steady = {d \in @ :
                                 IF rd.op = "ids" THEN PinnedRow(rd.filter, new[d])
                                 ELSE _base_filters(rd.filter, new[d])}]

-----------------------------------------------------------------------------
(* Exports *)

(* _run_export, up to the counts: pinned to ids, or by filters. *)
_run_export(f, ids, lim, op) ==
    /\ rd.pc = "idle"
    /\ rd' = [NoReader EXCEPT !.op = op, !.pc = "total", !.filter = f, !.ids = ids, !.limit = lim]
    /\ UNCHANGED <<rows, runs, bt>>

(* _count_matching: two queries, the limit applied to each number.  A      *)
(* pinned export is limited by cutting the list of ids, before the query.  *)
CountTotal ==
    /\ rd.pc = "total"
    /\ rd' = [rd EXCEPT !.pc = "normalized", !.quiet = TRUE, !.steady = Matching(rd),
                        !.total = LimitTo(Cardinality(Matching(rd)))]
    /\ UNCHANGED <<rows, runs, bt>>

CountNormalized ==
    /\ rd.pc = "normalized"
    /\ rd' = [rd EXCEPT !.pc = "page",
                        !.normalized = LimitTo(Cardinality(Normalized(Matching(rd))))]
    /\ UNCHANGED <<rows, runs, bt>>

(* Mutant: pages by offset instead of by the last id. *)
PageByOffset ==
    LET page == Slice(NewestFirst(Matching(rd)), rd.offset, Chunk)
        room == IF rd.limit = NoLimit THEN Len(page) ELSE rd.limit - Len(rd.shipped)
        out == FirstOf(page, room)
    IN  /\ rd.pc = "page"
        /\ rd.op = "export"
        /\ rd' = IF page = <<>> \/ Len(out) < Len(page)
                 THEN [rd EXCEPT !.pc = "done", !.shipped = @ \o out]
                 ELSE [rd EXCEPT !.shipped = @ \o out, !.offset = @ + Len(page)]
        /\ UNCHANGED <<rows, runs, bt>>

(* _iter_record_dicts by filters: the next rows below the last one, until  *)
(* a page is empty or the limit is reached within one.                     *)
NextPage ==
    LET below == {d \in Matching(rd) : rd.last = 0 \/ d < rd.last}
        page == FirstOf(NewestFirst(below), Chunk)
        room == IF rd.limit = NoLimit THEN Len(page) ELSE rd.limit - Len(rd.shipped)
        out == FirstOf(page, room)
    IN  /\ rd.pc = "page"
        /\ rd.op = "export"
        /\ rd' = IF page = <<>> \/ Len(out) < Len(page)
                 THEN [rd EXCEPT !.pc = "done", !.shipped = @ \o out]
                 ELSE [rd EXCEPT !.shipped = @ \o out, !.last = Last(page)]
        /\ UNCHANGED <<rows, runs, bt>>

(* _iter_record_dicts by ids: a stretch of the list at a time, each newest *)
(* first.                                                                  *)
NextPinned ==
    LET part == Slice(Wanted, rd.offset, Chunk)
    IN  /\ rd.pc = "page"
        /\ rd.op = "ids"
        /\ rd' = IF part = <<>> THEN [rd EXCEPT !.pc = "done"]
                 ELSE [rd EXCEPT !.offset = @ + Len(part),
                                 !.shipped = @ \o NewestFirst(Matching(rd) \cap Range(part))]
        /\ UNCHANGED <<rows, runs, bt>>

(* The client has read its file, or its page of groups. *)
Close ==
    /\ rd.pc = "done"
    /\ rd' = NoReader
    /\ UNCHANGED <<rows, runs, bt>>

-----------------------------------------------------------------------------
(* Groups of held events *)

(* event_groups begins: held rows of one environment. *)
event_groups(f) ==
    /\ rd.pc = "idle"
    /\ f.statuses = {"quarantined"} /\ f.batch = 0
    /\ rd' = LET r == [NoReader EXCEPT !.op = "groups", !.pc = "scan", !.filter = f]
             IN  [r EXCEPT !.steady = Matching(r)]
    /\ UNCHANGED <<rows, runs, bt>>

(* The buckets by shape, with the rows of a page: what a bucket counts, and *)
(* the ids it lists in the order they were read, up to the cap.             *)
Bucketed(groups, new) ==
    LET Had(s) == IF s \in DOMAIN groups THEN groups[s] ELSE [ids |-> <<>>, count |-> 0]
        More(s) == {d \in new : rows[d].shape = s}
    IN  [s \in DOMAIN groups \cup {rows[d].shape : d \in new} |->
            [ids |-> FirstOf(Had(s).ids \o NewestFirst(More(s)), GroupIdsCap),
             count |-> Had(s).count + Cardinality(More(s))]]

(* Mutant: a full page is taken for the last one. *)
StopAtFullPage ==
    LET page == Slice(NewestFirst(Matching(rd)), rd.offset, Chunk)
    IN  /\ rd.pc = "scan"
        /\ rd' = [rd EXCEPT !.groups = Bucketed(@, Range(page)),
                            !.shipped = @ \o page,
                            !.offset = @ + Len(page), !.pc = "done"]
        /\ UNCHANGED <<rows, runs, bt>>

(* A page of the scan, by offset into the rows that match now; a page that *)
(* is not full is the last one.                                            *)
ScanPage ==
    LET page == Slice(NewestFirst(Matching(rd)), rd.offset, Chunk)
    IN  /\ rd.pc = "scan"
        /\ rd' = [rd EXCEPT !.groups = Bucketed(@, Range(page)),
                            !.shipped = @ \o page,
                            !.offset = @ + Len(page),
                            !.pc = IF Len(page) < Chunk THEN "done" ELSE "scan"]
        /\ UNCHANGED <<rows, runs, bt>>

(* The rows of a run by shape, oldest first up to the cap. *)
ByShape(S) ==
    LET Of(s) == {d \in S : rows[d].shape = s}
    IN  [s \in {rows[d].shape : d \in S} |->
            [ids |-> FirstOf(OldestFirst(Of(s)), GroupIdsCap), count |-> Cardinality(Of(s))]]

(* batch_groups: the rows of one run by shape, in one query, oldest first; *)
(* a group may be downloaded afterwards, pinned to the ids it listed.      *)
batch_groups(k) ==
    /\ rd.pc = "idle"
    /\ rd' = LET r == [NoReader EXCEPT !.op = "types", !.pc = "done", !.filter = [@ EXCEPT !.batch = k]]
                 all == {d \in RowIds : PinnedRow(r.filter, rows[d])}
             IN  [r EXCEPT !.groups = ByShape(all), !.shipped = OldestFirst(all)]
    /\ UNCHANGED <<rows, runs, bt>>

DownloadType(g, lim) ==
    /\ rd.op = "types"
    /\ rd' = [NoReader EXCEPT !.op = "ids", !.pc = "total", !.filter = rd.filter,
                              !.ids = g.ids, !.limit = lim]
    /\ UNCHANGED <<rows, runs, bt>>

(* list_batches: what is left of a run now. *)
list_batches(k) ==
    LET mine(S) == Cardinality({d \in RowIds : rows[d].batch = k /\ rows[d].live
                                             /\ rows[d].status \in S})
    IN  [live_normalized |-> mine({"normalized"}), live_held |-> mine(Held)]

-----------------------------------------------------------------------------
(* Batches and the runs they leave behind *)

Processed(b) == [b EXCEPT !.left = @ - 1, !.processed = @ + 1]

(* process_batch up to the engine: the run is flushed, not committed. *)
process_batch(n) ==
    /\ bt.pc = "idle"
    /\ Len(runs) < MaxRuns
    /\ bt' = [NoBatch EXCEPT !.pc = "lines", !.left = n, !.lines = n]
    /\ UNCHANGED <<rows, runs, rd>>

(* A commit of the batch's session writes its run, still without numbers. *)
RunCommitted ==
    IF bt.run = 0
    THEN runs' = Append(runs, [total |-> 0, processed |-> 0, ended |-> FALSE])
    ELSE UNCHANGED runs

RunId == IF bt.run = 0 THEN Len(runs) + 1 ELSE bt.run

(* A line that is stored.  Checkpoints are taken to fall after every line: *)
(* each one commits the rows so far and the run.                           *)
StoreLine(a) ==
    /\ bt.pc = "lines" /\ bt.left > 0
    /\ Len(rows) < MaxRows
    /\ RunCommitted
    /\ Commit(Append(rows, NewRow(a, RunId)))
    /\ bt' = Processed([bt EXCEPT !.run = RunId, !.mine = @ \cup {Len(rows) + 1}])

(* Mutant: a replayed event counts as stored by this run. *)
AdoptReplay(d) ==
    /\ bt.pc = "lines" /\ bt.left > 0
    /\ rows[d].live
    /\ bt' = Processed([bt EXCEPT !.mine = @ \cup {d}])
    /\ UNCHANGED <<rows, runs, rd>>

(* A line that repeats a stored event: counted, not stored. *)
ReplayLine(d) ==
    /\ bt.pc = "lines" /\ bt.left > 0
    /\ rows[d].live
    /\ bt' = Processed(bt)
    /\ UNCHANGED <<rows, runs, rd>>

(* A line the engine raises on is answered as failed. *)
FailLine ==
    /\ bt.pc = "lines" /\ bt.left > 0
    /\ bt' = [bt EXCEPT !.left = @ - 1]
    /\ UNCHANGED <<rows, runs, rd>>

(* The rows the run stored join it, and the run gets its numbers. *)
FinishBatch ==
    /\ bt.pc = "lines" /\ bt.left = 0
    /\ Commit([d \in RowIds |-> IF d \in bt.mine /\ rows[d].live
                                THEN [rows[d] EXCEPT !.batch = RunId] ELSE rows[d]])
    /\ LET row == [total |-> bt.lines, processed |-> bt.processed, ended |-> TRUE]
       IN  runs' = IF bt.run = 0 THEN Append(runs, row) ELSE [runs EXCEPT ![bt.run] = row]
    /\ bt' = NoBatch

(* The process dies in the middle: what was committed stays. *)
BatchDies ==
    /\ bt.pc = "lines"
    /\ bt' = NoBatch
    /\ UNCHANGED <<rows, runs, rd>>

-----------------------------------------------------------------------------
(* Other requests, each a commit *)

Ingest(a) ==
    /\ Len(rows) < MaxRows
    /\ Commit(Append(rows, NewRow(a, 0)))
    /\ UNCHANGED <<runs, bt>>

(* retry_event, and batch_retry_events for each id: only held events.  The *)
(* engine normalizes the event, or finds it unknown again.                 *)
retry_event(d, status) ==
    /\ rows[d].live
    /\ rows[d].status \in Held
    /\ Commit([rows EXCEPT ![d].status = status])
    /\ UNCHANGED <<runs, bt>>

(* batch_delete_events: whatever rows of the list there are, in one commit. *)
batch_delete_events(S) ==
    /\ S # {}
    /\ \A d \in S : rows[d].live
    /\ Commit([d \in RowIds |-> IF d \in S THEN Gone ELSE rows[d]])
    /\ UNCHANGED <<runs, bt>>

-----------------------------------------------------------------------------
ViewsNext ==
    \/ \E f \in Filters, lim \in Limits : _run_export(f, <<>>, lim, "export")
    \/ \E f \in Filters, lim \in Limits, ids \in Pinned : _run_export(f, ids, lim, "ids")
    \/ CountTotal \/ CountNormalized \/ NextPage \/ NextPinned \/ Close
    \/ \E f \in Filters : event_groups(f)
    \/ ScanPage
    \/ \E k \in DOMAIN runs : batch_groups(k)
    \/ \E g \in Range(rd.groups), lim \in Limits : DownloadType(g, lim)
    \/ \E n \in BatchSizes : process_batch(n)
    \/ \E a \in Arrivals : StoreLine(a) \/ Ingest(a)
    \/ \E d \in RowIds : ReplayLine(d) \/ \E s \in {"normalized", "quarantined"} : retry_event(d, s)
    \/ FailLine \/ FinishBatch \/ BatchDies
    \/ \E S \in SUBSET RowIds : batch_delete_events(S)

ViewsSpec == ViewsInit /\ [][ViewsNext]_viewVars

-----------------------------------------------------------------------------
(* Properties *)

Row == [env : {a.env : a \in Arrivals}, shape : {a.shape : a \in Arrivals}, status : Status,
        batch : Nat, by : Nat, live : {TRUE}] \cup {Gone}

ViewsTypeOK ==
    /\ rows \in Seq(Row)
    /\ runs \in Seq([total : Nat, processed : Nat, ended : BOOLEAN])
    /\ bt.pc \in {"idle", "lines"} /\ bt.mine \subseteq RowIds /\ bt.run \in 0 .. Len(runs)
    /\ rd.pc \in {"idle", "total", "normalized", "page", "scan", "done"}
    /\ rd.steady \subseteq RowIds /\ Range(rd.shipped) \subseteq RowIds

(* An export walks the table once, newest first: whatever is ingested,     *)
(* resolved or purged between its pages, no event is in it twice, and      *)
(* without a limit it misses none that matched from its count to its end.  *)
ExportIsOneWalk ==
    /\ rd.op = "export" =>
           \A i, j \in DOMAIN rd.shipped : i < j => rd.shipped[i] > rd.shipped[j]
    /\ rd.pc = "done" /\ rd.op \in {"export", "ids"} /\ (rd.op = "export" => rd.limit = NoLimit)
           => rd.steady \subseteq Range(rd.shipped)

(* The counts in a download's name and headers are the rows in it, as long *)
(* as nothing changed after they were taken; the normalized count is left  *)
(* out of exports by filter with a limit.                                  *)
CountsAgree ==
    rd.pc = "done" /\ rd.quiet /\ rd.op \in {"export", "ids"} /\ IsInjective(rd.ids)
        => /\ rd.total = Len(rd.shipped)
           /\ rd.op = "ids" \/ rd.limit = NoLimit
                => rd.normalized = Cardinality(Normalized(Range(rd.shipped)))

(* Grouping a table nobody changes puts every held row in the group of its *)
(* shape, with exact counts and the newest rows listed.                    *)
GroupsAreExact ==
    rd.pc = "done" /\ rd.quiet /\ rd.op = "groups" =>
        /\ DOMAIN rd.groups = {rows[d].shape : d \in Matching(rd)}
        /\ \A s \in DOMAIN rd.groups :
             LET same == {d \in Matching(rd) : rows[d].shape = s}
             IN  /\ rd.groups[s].count = Cardinality(same)
                 /\ rd.groups[s].ids = FirstOf(NewestFirst(same), GroupIdsCap)

QuietReadsAreExact == CountsAgree /\ GroupsAreExact

(* A run lists rows it stored and no others; once it has ended it lists    *)
(* all of them, so the rows under it are never more than its lines.        *)
RunOwnsItsRows ==
    /\ \A d \in RowIds : rows[d].batch \in {0, rows[d].by}
    /\ \A k \in DOMAIN runs :
         runs[k].ended =>
            /\ \A d \in RowIds : rows[d].by = k => rows[d].batch = k
            /\ list_batches(k).live_normalized + list_batches(k).live_held <= runs[k].processed
            /\ runs[k].processed <= runs[k].total
=============================================================================
