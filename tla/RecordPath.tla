----------------------------- MODULE RecordPath -----------------------------
(***************************************************************************)
(* What becomes of one line of a source: it is ingested alone or as a      *)
(* piece of an upload, flattened, compared with the source's mapping, and  *)
(* normalized and rendered through its profile, or held, or dead-lettered; *)
(* operators publish and extend the mapping and retry what is held; and    *)
(* exports show the row as stored, through a version, or as a document.    *)
(*                                                                         *)
(* A tree (normalized, output, a view) is a function from paths to         *)
(* scalars, as a dictionary is; an empty dictionary is a leaf of its own.  *)
(***************************************************************************)
EXTENDS RecordFormats

CONSTANTS
    Contents,    \* what is uploaded (see RecordFormats)
    Hints,       \* formats a request may name, and NoHint
    Baselines,   \* mappings a human may publish
    Keyword,     \* Keyword[n]: the path KEYWORD_RULES give the name, or NoPath
    Similar,     \* pairs <<new, old>> of names of a likeness of 0.55 or more
    Remembered,  \* Remembered[n]: the path another source's mapping gave, or NoPath
    Taught,      \* Taught[n]: paths an operator may give the name
    Profiles,    \* output profiles: [all, fields]
    Fallback,    \* Fallback[n]: the paths the fallback view gives the name
    MaxFields    \* bound on the fields of a mapping

VARIABLES
    mapping,     \* fields of the active mapping, in their order; none: no mapping
    profile,     \* the profile bound to the source's recipe, or NoProfile
    row          \* the stored event in view, or NoRow

vars == <<mapping, profile, row>>

NoChange == <<>>
NoProfile == [all |-> FALSE, fields |-> <<>>, bound |-> FALSE]
NoRow == [is |-> "none"]

Lines == UNION {LinesOf(c) : c \in Contents}
Fields(l, hint) ==
    LET format == detect_format(l, hint) IN extract_fields(parse(format, l), format)
Names == UNION {DOMAIN Fields(l, hint) : l \in Lines, hint \in Hints \cup {NoHint}}

IsMapping(m) ==
    /\ m \in Seq(Range(m))
    /\ \A k \in DOMAIN m : {m[k].input, m[k].semantic} \subseteq Path \ {NoPath}
IsProfile(p) ==
    /\ p.fields \in Seq(Range(p.fields))
    /\ \A k \in DOMAIN p.fields : {p.fields[k].output, p.fields[k].from} \subseteq Path \ {NoPath}

ASSUME LineAssumption == \A l \in Lines : IsLine(l)
ASSUME HintAssumption == Hints \subseteq Formats \cup {NoHint}
ASSUME MappingAssumption ==
    (\A m \in Baselines : IsMapping(m)) /\ (\A p \in Profiles : IsProfile(p))
ASSUME NameAssumption ==
    /\ IsFiniteSet(Names)
    /\ \A n \in Names : {Keyword[n], Remembered[n]} \cup Taught[n] \subseteq Path

-----------------------------------------------------------------------------
(* Trees *)

Below(t, p) == {q \in DOMAIN t : IsPrefix(p, q)}
Comparable(p, q) == IsPrefix(p, q) \/ IsPrefix(q, p)

get_path(t, p) ==
    IF Below(t, p) = {} THEN Missing
    ELSE [r \in {Rest(p, q) : q \in Below(t, p)} |-> t[p \o r]]

(* The exports and the fallback replace what is at the path or below it,   *)
(* and a leaf on the way by a dictionary.                                  *)
_set_path(t, p, v) ==
    Over([q \in {p \o r : r \in DOMAIN v} |-> v[Rest(p, q)]],
         Restrict(t, {q \in DOMAIN t : ~Comparable(p, q)}))

(* setdefault does not replace a leaf on the way: the engines' walk raises *)
(* unless it is an empty dictionary.                                       *)
set_path(t, p, v) ==
    IF t.ok /\ \A q \in DOMAIN t.at : IsStrictPrefix(q, p) => t.at[q] = EmptyDict
    THEN [ok |-> TRUE, at |-> _set_path(t.at, p, v)]
    ELSE [ok |-> FALSE, at |-> t.at]

EmptyTree == [ok |-> TRUE, at |-> Nothing]

(* The writes of an engine, in their order, to an empty tree. *)
WriteAll(writes) ==
    LET tree[k \in 0 .. Len(writes)] ==
            IF k = 0 THEN EmptyTree
            ELSE IF writes[k].some
                 THEN set_path(tree[k - 1], writes[k].path, writes[k].value)
            ELSE tree[k - 1]
    IN  tree[Len(writes)]

-----------------------------------------------------------------------------
(* The mapping engine *)

META_KEYS == {K(w) : w \in {"timestamp", "hostname", "pri", "message", "event_id",
                            "received_at", "id"}}
INTERNAL_KEYS == {K(w) : w \in {"normalized", "output", "parsed", "provenance", "raw_hash",
                                "raw_ref", "status", "views", "source", "source_id"}}

meaningful_fields(f) == DOMAIN f \ (META_KEYS \cup INTERNAL_KEYS)

Inputs(m) == {m[k].input : k \in DOMAIN m}

(* The new fields; empty: no drift. *)
detect_drift(f, m) == meaningful_fields(f) \ Inputs(m)

(* A dictionary or a list cannot be looked up: the change raises. *)
Changes(v, change) == change = NoChange \/ ~IsDictionary(v)
apply_transformation(v, change) ==
    IF change = NoChange \/ IsDictionary(v) THEN v
    ELSE IF v[NoPath] \in DOMAIN change THEN Val(change[v[NoPath]])
    ELSE IF "_default" \in DOMAIN change THEN Val(change["_default"])
    ELSE v

(* A field is found by its first part, and within a dictionary by the rest. *)
FieldValue(f, name) ==
    IF K(Head(name)) \in DOMAIN f THEN get_path(f[K(Head(name))], Tail(name)) ELSE Missing

(* The fields of m at the places D, from the field map f. *)
ApplyFields(f, m, D) ==
    LET value == [k \in DOMAIN m |-> FieldValue(f, m[k].input)]
        placed == {k \in D : value[k] # Missing}
        tree == WriteAll([k \in DOMAIN m |->
                    [some |-> k \in placed, path |-> m[k].semantic,
                     value |-> apply_transformation(value[k], m[k].change)]])
        last(p) == Max({k \in placed : m[k].semantic = p})
    IN  [ok |-> tree.ok /\ \A k \in placed : Changes(value[k], m[k].change),
         at |-> tree.at,
         by |-> [p \in {m[k].semantic : k \in placed} |->
                    [input |-> m[last(p)].input, value |-> value[last(p)]]]]

(* Mutant: the fields that a change applies to are left where they are. *)
ApplyUnchangedOnly(f, m) == ApplyFields(f, m, {k \in DOMAIN m : m[k].change = NoChange})

apply_mapping_with_provenance(f, m) == ApplyFields(f, m, DOMAIN m)

apply_output_profile(normalized, p) ==
    LET value == [k \in DOMAIN p.fields |-> get_path(normalized, p.fields[k].from)]
    IN  IF p.all THEN [ok |-> TRUE, at |-> normalized]
        ELSE WriteAll([k \in DOMAIN p.fields |->
                 [some |-> value[k] # Missing,
                  path |-> p.fields[k].output, value |-> value[k]]])

-----------------------------------------------------------------------------
(* The engine *)

None == [some |-> FALSE, at |-> Nothing]

Row(l, hint, format, parsed, status) ==
    [is |-> "row", line |-> l, hint |-> hint, format |-> format, parsed |-> parsed,
     status |-> status, normalized |-> None, by |-> Nothing, output |-> None,
     used |-> <<>>, asked |-> {}]

Raised == [is |-> "raised"]

Normalized(r, f, m, p) ==
    LET result == apply_mapping_with_provenance(f, m)
        out == apply_output_profile(result.at, p)
    IN  IF ~result.ok \/ (p.bound /\ ~out.ok) THEN Raised
        ELSE [r EXCEPT !.status = IF p.bound THEN "output" ELSE "normalized",
                       !.normalized = [some |-> TRUE, at |-> result.at],
                       !.by = result.by, !.used = m,
                       !.output = IF p.bound THEN [some |-> TRUE, at |-> out.at] ELSE None]

_compute(l, hint, m, p) ==
    LET format == detect_format(l, hint)
        parsed == parse(format, l)
        field_map == extract_fields(parsed, format)
        new == detect_drift(field_map, m)
        held == Row(l, hint, format, parsed, "quarantined")
    IN  IF parsed.is = "failed"
        THEN Row(l, hint, format, Result("none", Nothing, Nothing), "dlq")
        ELSE IF parsed.is = "none" \/ m = <<>> THEN held
        ELSE IF new # {} THEN [held EXCEPT !.asked = new, !.used = m]
        ELSE Normalized(held, field_map, m, p)

(* A session that raises is rolled back: the row stays as it was. *)
Stored(r, computed) == IF computed = Raised THEN r ELSE computed

-----------------------------------------------------------------------------
(* Views and exports of the row *)

(* Names with a path are placed, the others go under log.fields, the text  *)
(* under log.original.                                                     *)
PlacedFields(flat, known) ==
    FoldLeft(LAMBDA t, n : FoldLeft(LAMBDA u, p : _set_path(u, p, flat[n]), t, Fallback[n]),
             Nothing, SetToSeq(known))

build_nested_fallback(r) ==
    LET flat == _flat_fields(r.parsed)
        known == {n \in DOMAIN flat : flat[n] # Missing /\ Fallback[n] # <<>>}
        left == Restrict(flat, DOMAIN flat \ known)
        placed == PlacedFields(flat, known)
        kept == IF DOMAIN left = {} THEN placed
                ELSE _set_path(placed, <<"log", "fields">>, Dict(left))
        shown == _set_path(_set_path(kept, <<"log", "original">>, Val("raw")),
                           <<"log", "format">>, Val(r.format))
    IN  IF Below(shown, K("event")) # {} THEN shown
        ELSE _set_path(shown, K("event"), Val(EmptyDict))

(* Mutant: a payload is shown though there is nothing in it. *)
ViewOfAnyPayload(r) ==
    IF r.normalized.some THEN r.normalized.at
    ELSE IF r.output.some THEN r.output.at
    ELSE build_nested_fallback(r)

nested_view(r) ==
    IF r.normalized.some /\ DOMAIN r.normalized.at # {} THEN r.normalized.at
    ELSE IF r.output.some /\ DOMAIN r.output.at # {} THEN r.output.at
    ELSE build_nested_fallback(r)

(* The columns of a slim row, the payload that was asked for among them. *)
_slim_record(r, payload) ==
    IF payload = "output"
    THEN [r EXCEPT !.output = IF r.output.some THEN r.output ELSE r.normalized,
                   !.normalized = None]
    ELSE [r EXCEPT !.output = None]

SlimMarkdown(r, payload) ==
    LET slim == _slim_record(r, payload)
        value == IF payload = "output" THEN slim.output ELSE slim.normalized
    IN  IF value.some THEN [slim EXCEPT !.normalized = value]
        ELSE [slim EXCEPT !.normalized = [some |-> TRUE, at |-> nested_view(r)],
                          !.output = r.output]

(* What a document shows of the row, in full or slim. *)
Documents(r) ==
    {nested_view(r)} \cup {nested_view(SlimMarkdown(r, k)) : k \in {"normalized", "output"}}

(* A slot that is missing or null is set to null. *)
FillGaps(t, slots) ==
    LET filled[k \in 0 .. Len(slots)] ==
            IF k = 0 THEN t
            ELSE IF get_path(filled[k - 1], slots[k]) = Missing
                 THEN _set_path(filled[k - 1], slots[k], Missing)
            ELSE filled[k - 1]
    IN  filled[Len(slots)]

Semantics(m) == [k \in DOMAIN m |-> m[k].semantic]

(* Mutant: a slot that cannot be filled is left out. *)
RenderFilledOnly(r, m) ==
    LET f == IF r.parsed.is = "dict" THEN extract_fields(r.parsed, r.format) ELSE Nothing
    IN  apply_mapping_with_provenance(f, m).at

_render_against_version(r, m) ==
    LET f == IF r.parsed.is = "dict" THEN extract_fields(r.parsed, r.format) ELSE Nothing
        result == apply_mapping_with_provenance(f, m)
    IN  FillGaps(IF result.ok THEN result.at ELSE Nothing, Semantics(m))

_render_against_profile(normalized, p) ==
    LET out == apply_output_profile(normalized, p)
        slots == [k \in DOMAIN p.fields |-> p.fields[k].output]
    IN  FillGaps(IF out.ok THEN out.at ELSE Nothing, slots)

-----------------------------------------------------------------------------
(* Requests *)

Init == mapping = <<>> /\ profile = NoProfile /\ row = NoRow

ingest(c, hint) ==
    /\ ~RefusedAsSeveral(c, hint)
    /\ row' = Stored(row, _compute(c.whole, hint, mapping, profile))
    /\ UNCHANGED <<mapping, profile>>

process_batch(c) ==
    /\ \E k \in DOMAIN split_batch_content(c) :
          row' = Stored(row, _compute(split_batch_content(c)[k], NoHint, mapping, profile))
    /\ UNCHANGED <<mapping, profile>>

(* Reprocessing reads the raw text again, and not what it was sent as. *)
Reprocessed(m, p) == Stored(row, _compute(row.line, NoHint, m, p))
IsHeld == row # NoRow /\ row.status = "quarantined"

retry_event ==
    /\ row # NoRow /\ row.status \in {"dlq", "quarantined"}
    /\ row' = Reprocessed(mapping, profile)
    /\ UNCHANGED <<mapping, profile>>

(* Publishing releases the events that are held. *)
approve_onboarding ==
    /\ mapping' \in Baselines
    /\ row' = IF IsHeld THEN Reprocessed(mapping', profile) ELSE row
    /\ UNCHANGED profile

(* The heuristic, then the memory of what humans taught elsewhere. *)
Suggested(n, m, missing) ==
    LET renamed == {k \in DOMAIN m : m[k].input \in missing /\ <<n, m[k].input>> \in Similar}
    IN  IF Keyword[n] # NoPath THEN {Keyword[n]}
        ELSE IF renamed # {} THEN {m[k].semantic : k \in renamed}
        ELSE {Remembered[n]}

Field(n, path) == [input |-> n, semantic |-> path, change |-> NoChange]

(* The elements of s at the places D, in their order. *)
Kept(s, D) ==
    LET kept[k \in 0 .. Len(s)] ==
            IF k = 0 THEN <<>>
            ELSE IF k \in D THEN Append(kept[k - 1], s[k]) ELSE kept[k - 1]
    IN  kept[Len(s)]

(* The baseline, less what is redefined, then the names that got a path. *)
_create_versioned_mapping(m, names, path) ==
    Kept(m, {k \in DOMAIN m : m[k].input \notin Range(names)})
        \o Kept([k \in DOMAIN names |-> Field(names[k], path[names[k]])],
                {k \in DOMAIN names : path[names[k]] # NoPath})

Publish(m) ==
    /\ Len(m) <= MaxFields
    /\ mapping' = m
    /\ row' = Reprocessed(m, profile)
    /\ UNCHANGED profile

IsAsked == IsHeld /\ row.asked # {}

Orders(S) == Injection(1 .. Cardinality(S), S)

(* The provider goes through the names in the order of the alphabet, which *)
(* may be any.                                                             *)
approve_drift ==
    /\ IsAsked
    /\ LET field_map == extract_fields(row.parsed, row.format)
           missing == Inputs(row.used) \ meaningful_fields(field_map)
       IN  \E path \in [row.asked -> UNION {Suggested(n, row.used, missing) : n \in row.asked}] :
              /\ \A n \in row.asked : path[n] \in Suggested(n, row.used, missing)
              /\ \E names \in Orders(row.asked) :
                    Publish(_create_versioned_mapping(row.used, names, path))

correct_drift ==
    /\ IsAsked
    /\ \E given \in (SUBSET row.asked) \ {{}} :
          \E path \in [given -> UNION {Taught[n] : n \in given}] :
             /\ \A n \in given : path[n] \in Taught[n]
             /\ \E names \in Orders(given) :
                   Publish(_create_versioned_mapping(row.used, names, path))

bind_profile ==
    /\ mapping # <<>>
    /\ profile' \in Profiles \cup {NoProfile}
    /\ UNCHANGED <<mapping, row>>

Next ==
    \/ \E c \in Contents : process_batch(c) \/ \E h \in Hints : ingest(c, h)
    \/ retry_event
    \/ approve_onboarding
    \/ approve_drift
    \/ correct_drift
    \/ bind_profile

Spec == Init /\ [][Next]_vars

-----------------------------------------------------------------------------
(* Properties *)

IsRead == row # NoRow /\ row.parsed.is = "dict"
IsNormalized == row # NoRow /\ row.normalized.some
FieldMap == extract_fields(row.parsed, row.format)

Apart(m) == \A j, k \in DOMAIN m : Comparable(m[j].semantic, m[k].semantic) => j = k

(* The mapping pipeline flattens by the format that was detected, the      *)
(* groups, shapes and views by the look of the parsed dictionary: they     *)
(* find the same fields ("wizard, pipeline, and downloads agree on what a  *)
(* shape is"), but for documents that use the parsers' own keys and for a  *)
(* syslog header without a host.                                           *)
FieldsAgree ==
    IsRead /\ Given(row.line, K("hostname")) # Val(EmptyText)
        /\ ~(row.format \in {"json", "xml"} /\ ReservedKeys \cap DOMAIN row.parsed.at # {})
    => FieldMap = _flat_fields(row.parsed)

(* An event gets past quarantine only with every field of it, by whatever  *)
(* versions and corrections the mapping came about: each has a place in    *)
(* the normalized payload that holds its value, changed as the mapping     *)
(* says, and provenance names the field there.  Fields with a dot in their *)
(* name and fields that two mapped paths contend for are the exceptions.   *)
NothingIsDropped ==
    IsNormalized =>
        \A n \in meaningful_fields(FieldMap) :
            \/ Len(n) > 1 \/ FieldMap[n] = Missing
            \/ \E k \in DOMAIN row.used :
                  /\ row.used[k].input = n
                  /\ \/ \E j \in DOMAIN row.used \ {k} :
                            Comparable(row.used[j].semantic, row.used[k].semantic)
                     \/ /\ get_path(row.normalized.at, row.used[k].semantic)
                              = apply_transformation(FieldMap[n], row.used[k].change)
                        /\ row.by[row.used[k].semantic] = [input |-> n, value |-> FieldMap[n]]

(* A document ("always lossless") shows of every row what it was           *)
(* normalized or rendered to, or else its raw text, whichever columns the  *)
(* export was asked for: never an empty payload.                           *)
MarkdownShowsTheLine ==
    row # NoRow =>
        \A shown \in Documents(row) :
            \/ get_path(shown, <<"log", "original">>) = Val("raw")
            \/ DOMAIN shown # {} /\ shown \in {row.normalized.at, row.output.at}

HasSlot(t, p) == \E q \in DOMAIN t : IsPrefix(p, q)

(* Rendering a row against a mapping version gives each slot of the        *)
(* version, filled or null ("never a dropped key"); against the version it *)
(* was normalized with, the stored payload and nulls beside it; and        *)
(* through any profile after that, each field of the profile.              *)
RerenderIsFaithful ==
    row # NoRow =>
        /\ \A m \in Baselines \cup {mapping} :
              LET t == _render_against_version(row, m)
              IN  /\ \A k \in DOMAIN m : HasSlot(t, m[k].semantic)
                  /\ \A p \in Profiles : \A k \in DOMAIN p.fields :
                        HasSlot(_render_against_profile(t, p), p.fields[k].output)
        /\ IsNormalized /\ Apart(row.used) =>
              LET t == _render_against_version(row, row.used)
                  stored == row.normalized.at
              IN  /\ DOMAIN stored \subseteq DOMAIN t
                  /\ \A q \in DOMAIN t :
                        t[q] = IF q \in DOMAIN stored THEN stored[q] ELSE NoValue

====
