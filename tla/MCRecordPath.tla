---------------------------- MODULE MCRecordPath ----------------------------
(* Values of the constants of RecordPath. *)
EXTENDS RecordPath, TLC

Line(starts, doc, header, body) ==
    [starts |-> starts, doc |-> doc, columns |-> FALSE, table |-> FALSE, complete |-> TRUE,
     header |-> header, body |-> body]

SrcIs(v) == K("src") :> Val(v)
ActIs(v) == K("act") :> Val(v)
VendorIs(v) == K("device_vendor") :> Val(v)
HeaderOf(host) ==
    (K("pri") :> Val("13")) @@ (K("timestamp") :> Val("t")) @@ (K("hostname") :> Val(host))

SyslogLine == Line("pri", FALSE, HeaderOf("fw1"), SrcIs("1") @@ ActIs("permit"))
HostlessLine == Line("pri", FALSE, HeaderOf(EmptyText), <<>>)
CefLine == Line("cef", FALSE, VendorIs("V"), SrcIs("1") @@ (K("device_vendor") :> Val("W")))
CutCefLine == [CefLine EXCEPT !.complete = FALSE]
LeefLine == Line("leef", FALSE, (K("event_id") :> Val("e1")) @@ VendorIs("V"), ActIs("drop"))
JsonLine == Line("{", TRUE, <<>>,
    SrcIs("1") @@ (<<"src", "ip">> :> Val("2")) @@ (K("net") :> Dict(ActIs("drop")))
        @@ (K("id") :> Val("7")) @@ (K("user") :> Val(NoValue)))
ReservedLine == Line("{", TRUE, <<>>, (K("fields") :> Dict(ActIs("drop"))) @@ SrcIs("1"))
BrokenJsonLine == Line("{", FALSE, <<>>, <<>>)
XmlLine == Line("<", TRUE, <<>>, ActIs("permit"))
WordsLine == Line("other", FALSE, <<>>, SrcIs("1"))
TextLine == Line("other", FALSE, <<>>, <<>>)
BlankLine == Line("blank", FALSE, <<>>, <<>>)
EmptyArray == Line("[", TRUE, <<>>, <<>>)

RowLine == [Line("other", FALSE, <<>>, SrcIs("1") @@ ActIs("permit"))
                EXCEPT !.columns = TRUE, !.table = TRUE]
ColumnsOnly == [RowLine EXCEPT !.table = FALSE]

Alone(l) == [whole |-> l, lines |-> <<l>>, items |-> <<>>, even |-> FALSE]
Item(l) == [line |-> l, null |-> FALSE, quoted |-> FALSE]

Table == [whole |-> RowLine, lines |-> <<TextLine, TextLine, TextLine>>, even |-> TRUE,
          items |-> <<Item(RowLine), [Item(RowLine) EXCEPT !.quoted = TRUE]>>]
Array == [whole |-> EmptyArray, lines |-> <<EmptyArray>>, even |-> FALSE,
          items |-> <<Item(JsonLine), [Item(TextLine) EXCEPT !.null = TRUE], Item(TextLine)>>]
Firehose == [whole |-> SyslogLine, lines |-> <<SyslogLine, CefLine, JsonLine>>, even |-> FALSE,
             items |-> <<>>]

MCContents ==
    {Alone(l) : l \in {SyslogLine, HostlessLine, CefLine, CutCefLine, LeefLine, ReservedLine,
                       BrokenJsonLine, XmlLine, WordsLine, TextLine, BlankLine, EmptyArray,
                       ColumnsOnly}}
        \cup {Table, Array, Firehose}

MCNames == {K(w) : w \in {"src", "act", "device_vendor", "net", "user", "raw_text", "fields",
                          "version", "id", "hostname", "timestamp", "pri", "event_id"}}
               \cup {<<"src", "ip">>}
SourceIp == <<"source", "ip">>
Action == <<"network", "action">>
At(some) == [n \in MCNames |-> IF n \in DOMAIN some THEN some[n] ELSE NoPath]

MCKeyword == At((K("src") :> SourceIp) @@ (<<"src", "ip">> :> SourceIp))
MCSimilar == {<<K("net"), K("act")>>}
MCRemembered == At(K("raw_text") :> <<"log", "original">>)
MCTaught == [n \in MCNames |->
    CASE n = K("act") -> {Action}
      [] n = K("src") -> {SourceIp, K("network")}
      [] n = K("device_vendor") -> {<<"device", "vendor">>}
      [] n = K("raw_text") -> {<<"log", "original">>}
      [] OTHER -> {}]
MCFallback == [n \in MCNames |->
    CASE n = K("src") -> <<SourceIp>>
      [] n = K("act") -> <<Action>>
      [] n = K("raw_text") -> <<<<"log", "original">>>>
      [] n = K("hostname") -> <<<<"observer", "hostname">>, <<"source", "hostname">>>>
      [] OTHER -> <<>>]

Words == ("permit" :> "allowed") @@ ("drop" :> NoValue) @@ ("_default" :> "denied")
MCBaselines ==
    {<<Field(K("src"), SourceIp), [Field(K("act"), Action) EXCEPT !.change = Words]>>,
     <<Field(K("src"), K("network"))>>,
     <<Field(K("net"), <<"custom", "net">>), Field(K("src"), SourceIp),
       Field(<<"src", "ip">>, <<"source", "port">>), Field(K("user"), <<"custom", "net", "user">>)>>}
MCProfiles ==
    {[all |-> TRUE, fields |-> <<>>, bound |-> TRUE],
     [all |-> FALSE, bound |-> TRUE, fields |-> <<[output |-> K("ip"), from |-> SourceIp],
                                                  [output |-> <<"act", "is">>, from |-> Action]>>]}
=============================================================================
