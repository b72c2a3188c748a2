--------------------------- MODULE RecordFormats ----------------------------
(***************************************************************************)
(* From text to fields: how an upload is split into events, how the format *)
(* of a line is detected, what the parser of each format makes of it, and  *)
(* the two places that flatten a parsed line to named fields.              *)
(*                                                                         *)
(* A line is what these functions can tell of a text:                      *)
(*   starts    how it begins                                               *)
(*   doc       it is well-formed JSON or XML                               *)
(*   columns   two lines or more with one number of delimiters each        *)
(*   table     csv.Sniffer finds its delimiter                             *)
(*   complete  a CEF or LEEF header with all its parts                     *)
(*   header    the fields of its header                                    *)
(*   body      its key=value words, members, or first row of cells         *)
(* The name of a field and a path in a document are the sequence of their  *)
(* parts between dots.                                                     *)
(*                                                                         *)
(* A value is a function from paths to scalars: a scalar stands at the     *)
(* path of no parts, a dictionary has its scalars where they are in it.    *)
(* Members of a dictionary that a parser makes have their names as paths.  *)
(***************************************************************************)
EXTENDS Naturals, FiniteSets, Sequences, SequencesExt

Path == Seq(STRING)
NoPath == <<>>
K(word) == <<word>>
Rest(p, q) == SubSeq(q, Len(p) + 1, Len(q))

NoValue == "None"
EmptyText == "empty"
EmptyDict == "{}"
NoHint == "none"

(* Words the parsers and the views put into paths. *)
Keys == {"pri", "message", "timestamp", "hostname", "fields", "cef", "extensions", "version",
         "leef", "header", "rows", "text", "raw_text", "log", "original", "format", "event"}
ASSUME KeyAssumption == Keys \subseteq STRING

Nothing == [n \in {} |-> NoValue]
One(name, value) == [n \in {name} |-> value]
Over(f, g) == [n \in DOMAIN f \cup DOMAIN g |-> IF n \in DOMAIN f THEN f[n] ELSE g[n]]
Both(a, v, b, w) == Over(One(K(a), v), One(K(b), w))

Val(scalar) == One(NoPath, scalar)
Missing == Val(NoValue)

(* The dictionary of some named values. *)
Dict(f) ==
    LET Leaves == UNION {{<<n, q>> : q \in DOMAIN f[n]} : n \in DOMAIN f}
        Leaf(p) == CHOOSE leaf \in Leaves : leaf[1] \o leaf[2] = p
    IN  IF DOMAIN f = {} THEN Val(EmptyDict)
        ELSE [p \in {leaf[1] \o leaf[2] : leaf \in Leaves} |-> f[Leaf(p)[1]][Leaf(p)[2]]]

IsFunction(f) == f = [x \in DOMAIN f |-> f[x]]
IsValue(v) == IsFunction(v) /\ DOMAIN v # {} /\ DOMAIN v \subseteq Path
IsFieldMap(f) ==
    /\ IsFunction(f) /\ DOMAIN f \subseteq Path \ {NoPath}
    /\ \A n \in DOMAIN f : IsValue(f[n])

IsDictionary(v) == v = Val(EmptyDict) \/ NoPath \notin DOMAIN v
NonNull(f) == Restrict(f, {n \in DOMAIN f : f[n] # Missing})

(* The value of the first test that holds. *)
FirstOf(tests) == tests[Min({k \in DOMAIN tests : tests[k][1]})][2]

Given(l, name) == IF name \in DOMAIN l.header THEN l.header[name] ELSE Missing

(* A syslog header's time and priority are never empty text. *)
IsLine(l) ==
    /\ IsFieldMap(l.body) /\ IsFieldMap(l.header)
    /\ \A w \in {"timestamp", "pri"} : Given(l, K(w)) # Val(EmptyText)

-----------------------------------------------------------------------------
(* Detection: a configured format first, then what the text looks like. *)

Formats == {"unknown", "json", "xml", "csv", "syslog", "cef", "leef", "raw"}

detect_format(l, hint) ==
    FirstOf(<<
        <<l.starts = "blank", "unknown">>,
        <<hint # NoHint, hint>>,
        <<l.starts = "cef", "cef">>,
        <<l.starts = "leef", "leef">>,
        <<l.starts \in {"[", "{"} /\ l.doc, "json">>,
        <<l.starts = "<" /\ l.doc, "xml">>,
        <<l.starts \in {"pri", "iso"}, "syslog">>,
        <<l.columns, "csv">>,
        <<l.starts = "mon", "syslog">>,
        <<TRUE, "raw">>>>)

-----------------------------------------------------------------------------
(* Parsing: a dictionary, a list, nothing (no parser), or an exception. *)

parse_key_values(l) == Dict(l.body)

parse_syslog(l) ==
    Over(Both("pri", Given(l, K("pri")), "message", Val("text")),
         Over(One(K("fields"), parse_key_values(l)),
              Restrict(l.header, {K("timestamp"), K("hostname")} \cap DOMAIN l.header)))

(* Without all seven parts there is neither a header nor an extension. *)
parse_cef(l) ==
    IF l.complete
    THEN Both("cef", Dict(l.header), "extensions", parse_key_values(l))
    ELSE Both("cef", Dict(One(K("version"), Missing)), "extensions", Dict(Nothing))

parse_leef(l) ==
    Both("leef", Dict(l.header),
         "fields", IF l.complete THEN parse_key_values(l) ELSE Dict(Nothing))

parse_csv(l) ==
    Both("header", Val("columns"), "rows", Val(IF DOMAIN l.body = {} THEN "[]" ELSE "rows"))

parse_raw(l) ==
    IF DOMAIN l.body # {} THEN One(K("fields"), parse_key_values(l))
                          ELSE One(K("text"), Val("text"))

(* first: the first of the rows *)
Result(is, at, first) == [is |-> is, at |-> at, first |-> first]
Failed == Result("failed", Nothing, Nothing)

parse(format, l) ==
    LET As(dict) == Result("dict", dict, Nothing)
    IN  CASE format = "unknown" -> Result("none", Nothing, Nothing)
          [] format = "json" -> IF l.starts \notin {"[", "{"} \/ ~l.doc THEN Failed
                                ELSE IF l.starts = "[" THEN Result("list", Nothing, Nothing)
                                ELSE As(l.body)
          [] format = "xml" -> IF l.starts = "<" /\ l.doc THEN As(l.body) ELSE Failed
          [] format = "csv" -> IF l.table THEN Result("dict", parse_csv(l), l.body) ELSE Failed
          [] format = "syslog" -> As(parse_syslog(l))
          [] format = "cef" -> As(parse_cef(l))
          [] format = "leef" -> As(parse_leef(l))
          [] format = "raw" -> As(parse_raw(l))

-----------------------------------------------------------------------------
(* Flattening: by the format, for mapping; by the shape, for views.        *)

IsDict(p, k) == K(k) \in DOMAIN p.at /\ IsDictionary(p.at[K(k)])

Within(p, k) ==
    IF IsDict(p, k) /\ p.at[K(k)] # Val(EmptyDict)
    THEN [n \in DOMAIN p.at[K(k)] |-> Val(p.at[K(k)][n])]
    ELSE Nothing

MetaNames == {K(w) : w \in {"timestamp", "hostname", "pri"}}
Meta(p) == NonNull(Restrict(p.at, MetaNames \cap DOMAIN p.at))
NonEmpty(f) == Restrict(f, {n \in DOMAIN f : f[n] # Val(EmptyText)})

RawText(p) == IF K("text") \in DOMAIN p.at THEN One(K("raw_text"), Val("text")) ELSE Nothing
FieldsOrText(p) ==
    IF DOMAIN Within(p, "fields") # {} THEN Within(p, "fields") ELSE RawText(p)

(* Mutant: the header of a CEF line is laid over its extensions. *)
ExtractHeaderFirst(p, format) ==
    CASE format = "syslog" -> Over(Within(p, "fields"), NonEmpty(Meta(p)))
      [] format = "cef" -> Over(NonNull(Within(p, "cef")), Within(p, "extensions"))
      [] format = "leef" -> Over(Within(p, "fields"), NonNull(Within(p, "leef")))
      [] format = "csv" -> p.first
      [] format \in {"json", "xml"} -> IF p.is = "dict" THEN p.at ELSE Nothing
      [] format = "raw" -> FieldsOrText(p)
      [] OTHER -> Nothing

extract_fields(p, format) ==
    CASE format = "syslog" -> Over(Within(p, "fields"), NonEmpty(Meta(p)))
      [] format = "cef" -> Over(Within(p, "extensions"), NonNull(Within(p, "cef")))
      [] format = "leef" -> Over(Within(p, "fields"), NonNull(Within(p, "leef")))
      [] format = "csv" -> p.first
      [] format \in {"json", "xml"} -> IF p.is = "dict" THEN p.at ELSE Nothing
      [] format = "raw" -> FieldsOrText(p)
      [] OTHER -> Nothing

_flat_fields(p) ==
    IF p.is # "dict" THEN Nothing ELSE FirstOf(<<
        <<IsDict(p, "fields") /\ {K("message"), K("hostname")} \cap DOMAIN p.at # {},
            Over(Within(p, "fields"), Meta(p))>>,
        <<IsDict(p, "extensions"),
            Over(Within(p, "extensions"), NonNull(Within(p, "cef")))>>,
        <<K("leef") \in DOMAIN p.at /\ IsDict(p, "fields"),
            Over(Within(p, "fields"), NonNull(Within(p, "leef")))>>,
        <<DOMAIN p.at \subseteq {K("fields"), K("text")}, FieldsOrText(p)>>,
        <<K("rows") \in DOMAIN p.at /\ p.at[K("rows")] = Val("rows"), p.first>>,
        <<TRUE, Restrict(p.at, DOMAIN p.at \ {K("header"), K("rows")})>>>>)

(* Keys of a document by which _flat_fields takes it for another format's. *)
ReservedKeys == {K(w) : w \in {"fields", "text", "extensions", "leef", "rows", "header"}}

-----------------------------------------------------------------------------
(* Splitting an upload.  A content is its text read as one line (whole),   *)
(* as lines, and as items: the elements of a JSON array, or the rows under *)
(* the first one when csv.reader reads it as a table (even: of one width). *)

SplitLines(c) == c.lines

_try_json_array(c) ==
    LET there == SelectSeq(c.items, LAMBDA i : ~i.null)
    IN  IF c.whole.starts = "[" /\ c.whole.doc
        THEN [k \in DOMAIN there |-> there[k].line] ELSE <<>>

_try_single_json_object(c) ==
    IF c.whole.starts = "{" /\ c.whole.doc THEN <<c.whole>> ELSE <<>>

_try_single_xml(c) ==
    IF c.whole.starts = "<" /\ c.whole.doc THEN <<c.whole>> ELSE <<>>

(* A row is written with the header above it; a quoted delimiter in a cell *)
(* makes the two lines differ in their number of delimiters.               *)
_try_csv_rows(c) ==
    IF Len(c.lines) >= 2 /\ c.whole.table /\ c.even
    THEN [k \in DOMAIN c.items |-> [c.items[k].line EXCEPT !.columns = ~c.items[k].quoted]]
    ELSE <<>>

split_batch_content(c) ==
    LET readings == <<_try_json_array(c), _try_single_json_object(c), _try_single_xml(c),
                      _try_csv_rows(c), SplitLines(c)>>
    IN  IF c.whole.starts = "blank" THEN <<>>
        ELSE readings[SelectInSeq(readings, LAMBDA r : r # <<>>)]

(* POST /ingest takes one event: unless the client names the format, it    *)
(* refuses what is several by its look.                                    *)
RefusedAsSeveral(c, hint) ==
    LET format == detect_format(c.whole, NoHint)
    IN  /\ hint = NoHint
        /\ \/ format = "json" /\ c.whole.starts = "["
           \/ Len(c.lines) > 1 /\ format \in {"syslog", "cef", "leef", "raw"}
           \/ Len(c.lines) > 1 /\ format = "csv" /\ Len(c.items) > 1

(* What can become an event of its own. *)
LinesOf(c) == {c.whole} \cup Range(split_batch_content(c))
=============================================================================
