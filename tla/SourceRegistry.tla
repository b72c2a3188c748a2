--------------------------- MODULE SourceRegistry ---------------------------
(***************************************************************************)
(* Who a log line belongs to: environments, sources and their versions,    *)
(* registered when they are first seen, and the knowledge and events kept  *)
(* under a source's name.  A request looks up its source and commits in a  *)
(* later step, so registrations, publications and the removal of a whole   *)
(* connection interleave.  The database enforces foreign keys.             *)
(***************************************************************************)
EXTENDS Integers, Sequences, FiniteSets, FiniteSetsExt, Functions

CONSTANTS
    Threads,        \* request threads
    EnvNames,       \* values of the X-Environment header
    Lower,          \* a header value in lower case
    Seeded,         \* the name of the environment a new database has
    BatchEnv,       \* the environment every batch is of
    Names,          \* names of sources
    NoName,         \* an event without a source
    MaxRequests     \* bound on requests

ASSUME LowerAssumption == DOMAIN Lower = EnvNames
ASSUME SeededAssumption == Seeded \in EnvNames
ASSUME BatchAssumption == BatchEnv \in EnvNames
ASSUME NoNameAssumption == NoName \notin Names
ASSUME BoundAssumption == MaxRequests \in Nat

VARIABLES
    envs,           \* the names of the Environment rows, in id order
    sources,        \* Source rows
    versions,       \* SourceVersion rows: <<source id, n>> for the label vn
    mappings,       \* published Mapping rows
    recipes,        \* Recipe rows: the mapping bound to a name
    drifts,         \* DriftRecord rows, with their mapping and whether a job refers to them
    batches,        \* BatchRun rows, with the ids of the events that refer to them
    events,         \* Event rows
    onboardings,    \* Onboarding rows, in id order
    next,           \* the next id of each table, and of the requests
    thr,            \* what each request is doing
    alone           \* requests are served one at a time

vars == <<envs, sources, versions, mappings, recipes, drifts, batches, events, onboardings, next, thr, alone>>
knowledge == <<versions, mappings, recipes, drifts, batches>>

-----------------------------------------------------------------------------
(* Looking things up *)

MinOf(S) == IF S = {} THEN 0 ELSE Min(S)
MaxOf(S) == IF S = {} THEN 0 ELSE Max(S)

(* environment_row_id: the first row of that name, case ignored, or 0. *)
environment_row_id(name) ==
    MinOf({k \in DOMAIN envs : Lower[envs[k]] = Lower[name]})

SourcesOf(name, envRow) == {s \in sources : s.name = name /\ s.env = envRow}

(* Mutant: a source is looked for by its name alone. *)
FindInAnyEnvironment(name, env) == MinOf({s.id : s \in {x \in sources : x.name = name}})

(* The source a request means, or 0: the first of its environment. *)
FindSource(name, env) == MinOf({s.id : s \in SourcesOf(name, environment_row_id(env))})

Held(S) == {e \in S : e.status = "quarantined"}
OpenDriftOf(name) == {d \in drifts : d.name = name /\ d.open}
KnowledgeOf(name) == {m \in mappings : m.name = name}

-----------------------------------------------------------------------------
(* Writing them: values of the tables, for the commit of a request *)

(* resolve_environment with what was found: a new row under the name given. *)
EnvsWith(env, row) == IF row = 0 THEN Append(envs, env) ELSE envs
EnvRow(row) == IF row = 0 THEN Len(envs) + 1 ELSE row

(* get_or_create_source with what was found: a new source begins with v1.  *)
SourcesWith(r) ==
    IF r.source # 0 THEN sources
    ELSE sources \cup {[id |-> next.source, name |-> r.name, env |-> EnvRow(r.envRow)]}
SourceId(r) == IF r.source = 0 THEN next.source ELSE r.source
VersionsWith(r) == IF r.source = 0 THEN versions \cup {<<next.source, 1>>} ELSE versions

(* Mutant: the mapping is published under the newest version there is. *)
NewestVersion(r) == MaxOf({v[2] : v \in {x \in VersionsWith(r) : x[1] = SourceId(r)}})

(* next_version: v1 for a name without knowledge, else the first free one. *)
next_version(r) ==
    LET taken == {v[2] : v \in {x \in VersionsWith(r) : x[1] = SourceId(r)}}
    IN  IF \E m \in mappings : m.name = r.name
        THEN Min((2 .. Cardinality(taken) + 2) \ taken)
        ELSE Min(taken)

(* publish_mapping_knowledge: a version, a mapping, and the recipe bound to *)
(* it.                                                                      *)
publish_mapping_knowledge(r) ==
    LET v == <<SourceId(r), next_version(r)>>
    IN  /\ versions' = VersionsWith(r) \cup {v}
        /\ mappings' = mappings \cup {[id |-> next.mapping, name |-> r.name, version |-> v]}
        /\ recipes' = {b \in recipes : b.name # r.name}
                          \cup {[name |-> r.name, mapping |-> next.mapping]}

(* What a commit must find still there. *)
Intact(r) ==
    r.source # 0 => \E s \in sources : s.id = r.source

Register(r) ==
    /\ envs' = EnvsWith(r.env, r.envRow)
    /\ sources' = SourcesWith(r)

NextIds(r, event, mapping) ==
    [next EXCEPT !.source = IF r.source = 0 THEN @ + 1 ELSE @,
                 !.event = @ + event, !.mapping = @ + mapping]

-----------------------------------------------------------------------------
(* Requests *)

Nothing == [sources |-> {}, events |-> {}, mappings |-> {}, drifts |-> {}, recipes |-> {},
            batches |-> {}]
Idle == [op |-> "none", env |-> NoName, name |-> NoName, envRow |-> 0, source |-> 0,
         target |-> 0, found |-> Nothing]

(* The migration that links the events of before: per distinct name and    *)
(* environment it finds or inserts a source, then links every event of     *)
(* that name which has none yet, of whatever environment.                  *)
LinkPair(db, p) ==
    LET home == {k \in DOMAIN envs : Lower[envs[k]] = Lower[p.env]}
        row == IF home = {} THEN 1 ELSE Min(home)
        have == {s.id : s \in {x \in db.sources : x.name = p.name /\ x.env = row}}
        id == IF have = {} THEN Cardinality(db.sources) + 1 ELSE Min(have)
    IN  [sources |-> db.sources \cup {[id |-> id, name |-> p.name, env |-> row]},
         events |-> {IF e.name = p.name /\ e.source = 0 THEN [e EXCEPT !.source = id] ELSE e :
                        e \in db.events}]

backfill(rows, order) ==
    LET db[k \in 0 .. Len(order)] ==
            IF k = 0 THEN [sources |-> {}, events |-> rows] ELSE LinkPair(db[k - 1], order[k])
    IN  db[Len(order)]

(* What an older version left, if anything: two events, no catalogue (the  *)
(* bound on it; requests are then served one at a time).                   *)
LegacyRows ==
    {{}} \cup {{[id |-> k, env |-> f[k], name |-> n, source |-> 0, status |-> "quarantined",
                 old |-> TRUE] : k \in {1, 2}} : f \in [{1, 2} -> EnvNames], n \in Names}

Orders(S) == {f \in [1 .. Cardinality(S) -> S] : IsInjective(f)}

Init ==
    /\ envs = <<Seeded>>
    /\ \E rows \in LegacyRows :
         \E order \in Orders({[name |-> e.name, env |-> e.env] : e \in rows}) :
            LET db == backfill(rows, order)
            IN  /\ sources = db.sources
                /\ events = db.events
                /\ versions = {<<s.id, 1>> : s \in db.sources}
                /\ next = [source |-> Cardinality(db.sources) + 1, mapping |-> 1,
                           event |-> Cardinality(rows) + 1, drift |-> 1,
                           request |-> 1]
    /\ mappings = {}
    /\ recipes = {}
    /\ drifts = {}
    /\ batches = {}
    /\ onboardings = <<>>
    /\ thr = [t \in Threads |-> Idle]
    /\ alone \in BOOLEAN
    /\ events # {} => alone

(* A request is taken; alone, when no other is under way. *)
Request ==
    /\ next.request <= MaxRequests
    /\ alone => \A t \in Threads : thr[t].op = "none"
    /\ next' = [next EXCEPT !.request = @ + 1]

(* A request begins: it resolves its environment and its source. *)
Begin(t, op, env, name, target) ==
    /\ thr[t].op = "none"
    /\ Request
    /\ thr' = [thr EXCEPT ![t] =
                 [Idle EXCEPT !.op = op, !.env = env, !.name = name, !.target = target,
                     !.envRow = environment_row_id(env),
                     !.source = IF name = NoName THEN 0 ELSE FindSource(name, env)]]
    /\ UNCHANGED <<envs, sources, knowledge, events, onboardings, alone>>

(* An integrity error, or an exception: the session is rolled back. *)
Fail(t) ==
    /\ thr[t].op # "none"
    /\ thr' = [thr EXCEPT ![t] = Idle]
    /\ UNCHANGED <<envs, sources, knowledge, events, onboardings, next, alone>>

(* The answer of a request. *)
Done(t) == thr' = [thr EXCEPT ![t] = Idle]

(* A batch's own row, numbered like the event it stored. *)
BatchRow(r) == [id |-> next.event, name |-> r.name, events |-> {next.event}]
BatchesWith(r) == IF r.op = "batch" THEN batches \cup {BatchRow(r)} ELSE batches

(* process_payload, or a batch of one line: the source is registered with  *)
(* the event.  Where there is knowledge under the name, of which any may   *)
(* be in force, the event normalizes or raises a request about it; without *)
(* any it only waits.                                                      *)
process_payload(t, status) ==
    LET r == thr[t]
    IN  /\ r.op \in {"event", "batch"} /\ r.name # NoName
        /\ Intact(r)
        /\ status = "normalized" => \E m \in mappings : m.name = r.name
        /\ Register(r)
        /\ versions' = VersionsWith(r)
        /\ events' = events \cup {[id |-> next.event, env |-> r.env, name |-> r.name,
                                   source |-> SourceId(r), status |-> status, old |-> FALSE]}
        /\ IF status = "quarantined" /\ KnowledgeOf(r.name) # {} /\ OpenDriftOf(r.name) = {}
           THEN /\ \E m \in KnowledgeOf(r.name) :
                     drifts' = drifts \cup {[id |-> next.drift, name |-> r.name, open |-> TRUE,
                                            job |-> FALSE, mapping |-> m.id]}
                /\ next' = [NextIds(r, 1, 0) EXCEPT !.drift = @ + 1]
           ELSE /\ next' = NextIds(r, 1, 0)
                /\ UNCHANGED drifts
        /\ batches' = BatchesWith(r)
        /\ Done(t)
        /\ UNCHANGED <<mappings, recipes, onboardings, alone>>

(* An event of nobody is held. *)
ProcessAnonymous(t) ==
    /\ thr[t].op \in {"event", "batch"} /\ thr[t].name = NoName
    /\ events' = events \cup {[id |-> next.event, env |-> thr[t].env, name |-> NoName,
                               source |-> 0, status |-> "quarantined", old |-> FALSE]}
    /\ next' = [next EXCEPT !.event = @ + 1]
    /\ batches' = BatchesWith(thr[t])
    /\ Done(t)
    /\ UNCHANGED <<envs, sources, versions, mappings, recipes, drifts, onboardings, alone>>

(* create_onboarding; the sample may name no source. *)
create_onboarding(t) ==
    LET r == thr[t]
    IN  /\ r.op = "sample"
        /\ IF r.name = NoName
           THEN /\ envs' = EnvsWith(r.env, r.envRow)
                /\ UNCHANGED <<sources, versions, next>>
           ELSE /\ Intact(r)
                /\ Register(r)
                /\ versions' = VersionsWith(r)
                /\ next' = NextIds(r, 0, 0)
        /\ onboardings' = Append(onboardings,
             [env |-> EnvRow(r.envRow), status |-> "pending",
              source |-> IF r.name = NoName THEN 0 ELSE SourceId(r)])
        /\ Done(t)
        /\ UNCHANGED <<mappings, recipes, drifts, batches, events, alone>>

(* The commit is made; the held events with these ids are still to follow. *)
ReleaseFrom(t, ids) ==
    thr' = [thr EXCEPT ![t] = [Idle EXCEPT !.op = "release", !.found.events = ids]]

(* analyze_onboarding_by_id: to review, whatever the sample was before. *)
analyze_onboarding(k) ==
    /\ Request
    /\ onboardings' = [onboardings EXCEPT ![k].status = "review"]
    /\ UNCHANGED <<envs, sources, knowledge, events, thr, alone>>

(* approve_onboarding: refused once approved; the knowledge is published   *)
(* under the name given.  Held events of the name follow afterwards.       *)
BeginApproval(t, k, env, name) ==
    /\ onboardings[k].status # "approved"
    /\ Begin(t, "approve", env, name, k)

approve_onboarding(t) ==
    LET r == thr[t]
    IN  /\ r.op = "approve"
        /\ Intact(r)
        /\ Register(r)
        /\ publish_mapping_knowledge(r)
        /\ onboardings' = [onboardings EXCEPT ![r.target].status = "approved",
                                              ![r.target].source = SourceId(r)]
        /\ next' = NextIds(r, 0, 1)
        /\ ReleaseFrom(t, {e.id : e \in {x \in Held(events) : x.name = r.name}})
        /\ UNCHANGED <<drifts, batches, events, alone>>

(* reprocess_quarantined: every event that was held under the name, in any *)
(* environment; reprocess links it to the source of its own.               *)
Release(t, e) ==
    LET r == [Idle EXCEPT !.name = e.name, !.env = e.env, !.envRow = environment_row_id(e.env),
                          !.source = FindSource(e.name, e.env)]
    IN  /\ thr[t].op = "release"
        /\ e \in events /\ e.id \in thr[t].found.events
        /\ Intact(r)
        /\ Register(r)
        /\ versions' = VersionsWith(r)
        /\ next' = NextIds(r, 0, 0)
        /\ events' = (events \ {e}) \cup
             {[e EXCEPT !.source = SourceId(r), !.old = FALSE,
                        !.status = IF \E m \in mappings : m.name = e.name THEN "normalized" ELSE @]}
        /\ thr' = [thr EXCEPT ![t].found.events = @ \ {e.id}]
        /\ UNCHANGED <<mappings, recipes, drifts, batches, onboardings, alone>>

(* onboard_event: a held event is given a home and its identity, and is    *)
(* then reprocessed.                                                       *)
BeginAdoption(t, e, name) ==
    /\ e.status = "quarantined"
    /\ Begin(t, "adopt", e.env, name, e.id)

onboard_event(t) ==
    LET r == thr[t]
    IN  /\ r.op = "adopt"
        /\ \E e \in events : e.id = r.target
        /\ Intact(r)
        /\ Register(r)
        /\ publish_mapping_knowledge(r)
        /\ events' = {IF e.id = r.target
                      THEN [e EXCEPT !.name = r.name, !.source = SourceId(r), !.old = FALSE]
                      ELSE e : e \in events}
        /\ next' = NextIds(r, 0, 1)
        /\ ReleaseFrom(t, {r.target})
        /\ UNCHANGED <<drifts, batches, onboardings, alone>>

(* create_environment looks for the exact name only. *)
create_environment(name) ==
    /\ Request
    /\ \A k \in DOMAIN envs : envs[k] # name
    /\ Len(envs) < Cardinality(EnvNames)
    /\ envs' = Append(envs, name)
    /\ UNCHANGED <<sources, knowledge, events, onboardings, thr, alone>>

(* approve_drift and reject_drift close an open request; a synthesis job   *)
(* of an open one keeps referring to it.                                   *)
MarkDrift(d, marked) ==
    /\ Request
    /\ d.open
    /\ drifts' = (drifts \ {d}) \cup {marked}
    /\ UNCHANGED <<envs, sources, versions, mappings, recipes, batches, events, onboardings,
                   thr, alone>>

CloseDrift(d) == MarkDrift(d, [d EXCEPT !.open = FALSE])
create_synthesis_job(d) == MarkDrift(d, [d EXCEPT !.job = TRUE])

-----------------------------------------------------------------------------
(* Connections *)

EventsOf(name, env) == {e \in events : e.name = name /\ e.env = env}

(* The names of the list: those with events in the environment, and those  *)
(* with a mapping among the names it registered or has events of.          *)
Listed(env) ==
    LET catalog == {s.name : s \in {x \in sources : x.env = environment_row_id(env)}}
        seen == {e.name : e \in {x \in events : x.env = env}} \ {NoName}
    IN  seen \cup {m.name : m \in {x \in mappings : x.name \in catalog \cup seen}}

NotFound(name, env) == KnowledgeOf(name) = {} /\ EventsOf(name, env) = {}

(* delete_connection, up to the commit: the rows it is going to delete; of *)
(* the knowledge, those of the name in every environment.                  *)
delete_connection(t, name, env) ==
    LET mine == SourcesOf(name, environment_row_id(env))
    IN  /\ thr[t].op = "none"
        /\ Request
        /\ ~NotFound(name, env) \/ mine # {}
        /\ thr' = [thr EXCEPT ![t] =
             [Idle EXCEPT !.op = "delete", !.env = env, !.name = name,
                 !.envRow = environment_row_id(env),
                 !.found = [sources |-> {s.id : s \in mine},
                            events |-> {e.id : e \in EventsOf(name, env)},
                            mappings |-> {m.id : m \in KnowledgeOf(name)},
                            drifts |-> {d.id : d \in {x \in drifts : x.name = name}},
                            recipes |-> {b.name : b \in {x \in recipes : x.name = name}},
                            batches |-> {b.id : b \in {x \in batches : x.name = name}}]]]
        /\ UNCHANGED <<envs, sources, knowledge, events, onboardings, alone>>

(* A mapping whose version goes with its source loses the reference. *)
Unversioned(m, gone) == IF m.version[1] \in gone THEN [m EXCEPT !.version = <<0, 0>>] ELSE m

(* What the database refuses to remove: a row that one which stays refers  *)
(* to.  Those are the events and the samples of a source, the events of a  *)
(* batch, the requests about a mapping and the jobs about a request.       *)
Referenced(f) ==
    \/ \E e \in events : e.id \notin f.events /\ e.source \in f.sources
    \/ \E k \in DOMAIN onboardings : onboardings[k].source \in f.sources
    \/ \E b \in batches : b.id \in f.batches /\ \E e \in events :
                                                e.id \in b.events \ f.events
    \/ \E d \in drifts : IF d.id \in f.drifts THEN d.job ELSE d.mapping \in f.mappings

(* Mutant: only the knowledge of the name is removed. *)
CommitKnowledgeOnly(t) ==
    LET f == thr[t].found
    IN  /\ thr[t].op = "delete"
        /\ envs' = EnvsWith(thr[t].env, thr[t].envRow)
        /\ mappings' = {m \in mappings : m.id \notin f.mappings}
        /\ recipes' = {b \in recipes : b.name \notin f.recipes}
        /\ drifts' = {d \in drifts : d.id \notin f.drifts}
        /\ thr' = [thr EXCEPT ![t].op = "removed", ![t].found = Nothing]
        /\ UNCHANGED <<sources, versions, batches, events, onboardings, next, alone>>

(* The commit, unless something that stays refers to a row that goes. *)
CommitDelete(t) ==
    LET f == thr[t].found
    IN  /\ thr[t].op = "delete"
        /\ ~Referenced(f)
        /\ envs' = EnvsWith(thr[t].env, thr[t].envRow)
        /\ sources' = {s \in sources : s.id \notin f.sources}
        /\ versions' = {v \in versions : v[1] \notin f.sources}
        /\ events' = {e \in events : e.id \notin f.events}
        /\ batches' = {b \in batches : b.id \notin f.batches}
        /\ mappings' = {Unversioned(m, f.sources) : m \in {x \in mappings : x.id \notin f.mappings}}
        /\ recipes' = {b \in recipes : b.name \notin f.recipes}
        /\ drifts' = {d \in drifts : d.id \notin f.drifts}
        /\ thr' = [thr EXCEPT ![t].op = "removed", ![t].found = Nothing]
        /\ UNCHANGED <<onboardings, next, alone>>

(* The last steps of a request: caches are dropped, the action is audited. *)
Answer(t) ==
    /\ thr[t].op \in {"removed", "release"}
    /\ thr[t].found.events \cap {e.id : e \in events} = {}
    /\ Done(t)
    /\ UNCHANGED <<envs, sources, knowledge, events, onboardings, next, alone>>

-----------------------------------------------------------------------------
Next ==
    \/ \E t \in Threads, env \in EnvNames :
         \/ \E n \in Names \cup {NoName}, op \in {"event", "sample"} : Begin(t, op, env, n, 0)
         \/ \E k \in DOMAIN onboardings, n \in Names : BeginApproval(t, k, env, n)
         \/ \E n \in Names : delete_connection(t, n, env)
    \/ \E t \in Threads :
         \/ \E n \in Names \cup {NoName} : Begin(t, "batch", BatchEnv, n, 0)
         \/ \E s \in {"normalized", "quarantined"} : process_payload(t, s)
         \/ \E e \in events, n \in Names : BeginAdoption(t, e, n)
         \/ \E e \in events : Release(t, e)
         \/ ProcessAnonymous(t) \/ create_onboarding(t) \/ approve_onboarding(t)
         \/ onboard_event(t) \/ CommitDelete(t) \/ Answer(t) \/ Fail(t)
    \/ \E k \in DOMAIN onboardings : analyze_onboarding(k)
    \/ \E e \in EnvNames : create_environment(e)
    \/ \E d \in drifts : CloseDrift(d) \/ create_synthesis_job(d)

Spec == Init /\ [][Next]_vars

-----------------------------------------------------------------------------
(* Properties *)

TypeOK ==
    /\ envs \in Seq(EnvNames)
    /\ \A s \in sources : s.id \in 1 .. next.source - 1 /\ s.name \in Names /\ s.env \in DOMAIN envs
    /\ \A v \in versions : \E s \in sources : s.id = v[1]
    /\ \A e \in events : e.id \in 1 .. next.event - 1 /\ e.env \in EnvNames
    /\ \A m \in mappings : m.id \in 1 .. next.mapping - 1

(* An event is listed under the source it is stored for: same name, and    *)
(* the environment it came for, however its name is written.  Events an    *)
(* older version stored are linked by name only.                           *)
EventsKnowTheirSource ==
    \A e \in events :
        /\ e.name # NoName => \E s \in sources :
             /\ s.id = e.source /\ s.name = e.name
             /\ e.old \/ Lower[envs[s.env]] = Lower[e.env]
        /\ e.name = NoName => e.source = 0

(* Requests one after the other register a source once per environment,    *)
(* each with a version of its own for every mapping it published.          *)
RegisteredOnce ==
    alone =>
        /\ \A s, u \in sources : s.name = u.name /\ s.env = u.env => s = u
        /\ \A m, n \in mappings : m.version = n.version => m = n
        /\ \A m \in mappings : m.version \in versions

(* Removing a connection on its own removes all of it: nothing is listed   *)
(* under the name any more, and nothing is known of it.                    *)
Removed(t) ==
    thr[t].op = "delete" /\ thr'[t].op = "removed" =>
        LET name == thr[t].name
            env == thr[t].env
        IN  /\ name \notin Listed(env)'
            /\ NotFound(name, env)'
            /\ SourcesOf(name, environment_row_id(env))' = {}
            /\ ~\E b \in recipes' : b.name = name
            /\ ~\E d \in drifts' : d.name = name
            /\ ~\E b \in batches' : b.name = name
RemovedIsGone == [][alone => \A t \in Threads : Removed(t)]_vars
=============================================================================
