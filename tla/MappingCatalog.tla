--------------------------- MODULE MappingCatalog ---------------------------
(***************************************************************************)
(* The mappings of one source: their lifecycle, the recipe that binds the  *)
(* source to one of them, the drift requests that will version from one,   *)
(* and the cache that remembers which one is active.                       *)
(*                                                                         *)
(* Handlers of different requests interleave between their reads, commits  *)
(* and invalidations.  Events and the content of mappings are those of     *)
(* DriftLifecycle.                                                         *)
(***************************************************************************)
EXTENDS Integers, Sequences, FiniteSetsExt

CONSTANTS
    Threads,        \* requests in flight
    Ops,            \* the operations the instance has
    Targets,        \* the statuses a client asks for (update_mapping_status)
    ForeignKeys,    \* TRUE: the database refuses dangling references (Postgres)
    MaxMappings,    \* bound on mapping rows
    MaxRequests,    \* bound on drift requests
    MaxFailures     \* bound on handlers that die half-way

Operations == {"create", "update", "delete", "publish", "approve", "recipe",
               "unbind", "resolve", "raise", "reject"}
_LIFECYCLE_ORDER == <<"draft", "testing", "approved", "published", "deprecated">>
MappingStatus == {_LIFECYCLE_ORDER[k] : k \in 1 .. 5}

ASSUME OpsAssumption == Ops \subseteq Operations
ASSUME TargetsAssumption == Targets \subseteq MappingStatus
ASSUME ForeignKeysAssumption == ForeignKeys \in BOOLEAN
ASSUME BoundsAssumption ==
    MaxMappings \in Nat /\ MaxRequests \in Nat /\ MaxFailures \in Nat

VARIABLES
    mapping,    \* the Mapping rows, in id order; live: committed and not deleted
    labels,     \* the version labels of the source (SourceVersion rows)
    recipe,     \* the mapping the recipe names, 0 without a recipe
    request,    \* the drift requests: the mapping each is about (0: none), open or not
    cache,      \* the mapping the cache remembers as active, 0 when it is cold
    th,         \* what each thread holds
    failures,   \* handlers that died so far
    owed        \* history: one died before it invalidated the entry there still is

vars == <<mapping, labels, recipe, request, cache, th, failures, owed>>

-----------------------------------------------------------------------------
(* Rows *)

MapIds == 1 .. Len(mapping)
LiveIds == {m \in MapIds : mapping[m].live}
MappingRow == [status : MappingStatus, version : Nat, made : {"client", "onboarding", "approval"}, live : BOOLEAN]
RequestRow == [map : Nat, open : BOOLEAN]

Rank(s) == CHOOSE k \in 1 .. 5 : _LIFECYCLE_ORDER[k] = s

_ACTIVE_STATUSES == {"approved", "published"}

IsActive(m) == m \in LiveIds /\ mapping[m].status \in _ACTIVE_STATUSES

(* The newest active mapping, 0 when there is none. *)
find_active_mapping == Max({0} \cup {m \in MapIds : IsActive(m)})

OpenOn(m) == {q \in DOMAIN request : request[q].open /\ request[q].map = m}

(* A thread: its next step; the mapping and the status or version number   *)
(* it works with; the recipe and the requests it has read.                 *)
Idle == [pc |-> "idle", op |-> "none", map |-> 0, to |-> "draft", n |-> 0,
         saw |-> FALSE, refs |-> {}]

Become(t, r) == th' = [th EXCEPT ![t] = r]
GoTo(t, pc) == Become(t, [th[t] EXCEPT !.pc = pc])
Starts(t, op) == op \in Ops /\ th[t].pc = "idle"

(* A step that fails on a constraint or a vanished row ends its handler.   *)
Aborts(t) == Become(t, Idle) /\ UNCHANGED <<mapping, labels, recipe, request>>

Init ==
    /\ mapping = <<>>
    /\ labels = {}
    /\ recipe = 0
    /\ request = <<>>
    /\ cache = 0
    /\ th = [t \in Threads |-> Idle]
    /\ failures = 0
    /\ owed = FALSE

Forgets(t, pc) ==
    /\ cache' = 0
    /\ GoTo(t, pc)
    /\ UNCHANGED <<mapping, labels, recipe, request, failures>>

-----------------------------------------------------------------------------
(* The mapping handlers *)

create_mapping(t) ==
    /\ Starts(t, "create")
    /\ Len(mapping) < MaxMappings
    /\ mapping' = Append(mapping, [status |-> "draft", version |-> 1, made |-> "client", live |-> TRUE])
    /\ UNCHANGED <<labels, recipe, request, cache, th, failures>>

(* The order of the lifecycle is checked on the row as it is loaded. *)
LoadStatus(t) ==
    /\ Starts(t, "update")
    /\ \E m \in LiveIds, s \in Targets :
         /\ Rank(s) >= Rank(mapping[m].status)
         /\ Become(t, [Idle EXCEPT !.pc = "setStatus", !.op = "update", !.map = m, !.to = s,
                                   !.saw = (mapping[m].status # s)])
    /\ UNCHANGED <<mapping, labels, recipe, request, cache, failures>>

(* Mutant: publishing leaves the cache alone. *)
SetStatusOnly(t) ==
    LET m == th[t].map
    IN  /\ th[t].pc = "setStatus"
        /\ m \in LiveIds
        /\ mapping' = [mapping EXCEPT ![m].status = th[t].to]
        /\ Become(t, Idle)
        /\ UNCHANGED <<labels, recipe, request, cache, failures>>

(* The row is written only when the loaded status differs; a deleted row   *)
(* fails the commit.                                                       *)
update_mapping_status(t) ==
    LET m == th[t].map
    IN  /\ th[t].pc = "setStatus"
        /\ \/ /\ th[t].saw /\ m \notin LiveIds
              /\ Aborts(t)
           \/ /\ th[t].saw => m \in LiveIds
              /\ mapping' = IF th[t].saw THEN [mapping EXCEPT ![m].status = th[t].to] ELSE mapping
              /\ IF th[t].to = "published" THEN GoTo(t, "forget") ELSE Become(t, Idle)
              /\ UNCHANGED <<labels, recipe, request>>
        /\ UNCHANGED <<cache, failures>>

(* Mutant: open requests do not keep a mapping. *)
CountNothing(t) ==
    /\ Starts(t, "delete")
    /\ \E m \in LiveIds :
         Become(t, [Idle EXCEPT !.pc = "collect", !.op = "delete", !.map = m])
    /\ UNCHANGED <<mapping, labels, recipe, request, cache, failures>>

(* delete_mapping: refused while open requests are about the mapping.      *)
CountOpenRefs(t) ==
    /\ Starts(t, "delete")
    /\ \E m \in LiveIds :
         /\ OpenOn(m) = {}
         /\ Become(t, [Idle EXCEPT !.pc = "collect", !.op = "delete", !.map = m])
    /\ UNCHANGED <<mapping, labels, recipe, request, cache, failures>>

(* The recipe and the requests to take along are read. *)
CollectRefs(t) ==
    LET m == th[t].map
    IN  /\ th[t].pc = "collect"
        /\ Become(t, [th[t] EXCEPT !.pc = "delete", !.saw = (recipe = m),
                        !.refs = {q \in DOMAIN request : request[q].map = m}])
        /\ UNCHANGED <<mapping, labels, recipe, request, cache, failures>>

(* One commit deletes the recipe row read (whatever it names by now),      *)
(* detaches the requests read and deletes the mapping.  A foreign key      *)
(* refuses it when something refers to the mapping all the same.           *)
delete_mapping(t) ==
    LET m == th[t].map
        left(q) == IF q \in th[t].refs THEN [request[q] EXCEPT !.map = 0] ELSE request[q]
        stillRefers == \/ recipe = m /\ ~th[t].saw
                       \/ \E q \in DOMAIN request : left(q).map = m
    IN  /\ th[t].pc = "delete"
        /\ \/ /\ ForeignKeys /\ stillRefers
              /\ Aborts(t)
           \/ /\ ~(ForeignKeys /\ stillRefers)
              /\ mapping' = [mapping EXCEPT ![m].live = FALSE]
              /\ recipe' = IF th[t].saw THEN 0 ELSE recipe
              /\ request' = [q \in DOMAIN request |-> left(q)]
              /\ GoTo(t, "forget")
              /\ UNCHANGED labels
        /\ UNCHANGED <<cache, failures>>

(* invalidate_active_mapping after the commit: the handler is done. *)
Forget(t) == th[t].pc = "forget" /\ Forgets(t, "idle")

-----------------------------------------------------------------------------
(* Publishing: a client's onboarding, an operator's approval of a request *)

(* The label of the next version: v1 for a source without mappings, else   *)
(* the first from v2 on that is not taken.                                 *)
next_version ==
    IF LiveIds = {} THEN 1 ELSE Min((2 .. MaxMappings + 2) \ labels)

(* publish_mapping_knowledge in the open transaction: the mapping has its  *)
(* id, nobody else sees it, and the cache is invalidated already.          *)
FlushKnowledge(t) ==
    /\ Starts(t, "publish")
    /\ Len(mapping) < MaxMappings
    /\ mapping' = Append(mapping, [status |-> "published", version |-> next_version,
                                   made |-> "onboarding", live |-> FALSE])
    /\ cache' = 0
    /\ Become(t, [Idle EXCEPT !.pc = "publish", !.op = "publish", !.map = Len(mapping) + 1,
                              !.n = next_version, !.saw = (recipe # 0)])
    /\ UNCHANGED <<labels, recipe, request, failures>>

(* The commit.  A label or a recipe somebody else has inserted meanwhile,  *)
(* or the recipe somebody has deleted, fails it.                           *)
(* approve_onboarding invalidates again; onboard_event does not.           *)
publish_mapping_knowledge(t) ==
    LET clash == (th[t].n # 1 /\ th[t].n \in labels) \/ th[t].saw # (recipe # 0)
    IN  /\ th[t].pc = "publish"
        /\ \/ clash /\ Aborts(t)
           \/ /\ ~clash
              /\ mapping' = [mapping EXCEPT ![th[t].map].live = TRUE]
              /\ labels' = labels \cup {1, th[t].n}
              /\ recipe' = th[t].map
              /\ GoTo(t, "forget") \/ Become(t, Idle)
              /\ UNCHANGED request
        /\ UNCHANGED <<cache, failures>>

(* Mutant: the version counts from the baseline. *)
ReadBaselineVersion(t) ==
    /\ Starts(t, "approve")
    /\ \E q \in DOMAIN request :
         /\ request[q].open
         /\ request[q].map \in LiveIds
         /\ Become(t, [Idle EXCEPT !.pc = "version", !.op = "approve", !.refs = {q},
                         !.n = mapping[request[q].map].version + 1])
    /\ UNCHANGED <<mapping, labels, recipe, request, cache, failures>>

(* approve_drift: the baseline of an open request, and the highest version *)
(* number plus one.                                                        *)
ReadBaseline(t) ==
    /\ Starts(t, "approve")
    /\ \E q \in DOMAIN request :
         /\ request[q].open
         /\ request[q].map \in LiveIds
         /\ Become(t, [Idle EXCEPT !.pc = "version", !.op = "approve", !.refs = {q},
                         !.n = Max({0} \cup {mapping[m].version : m \in LiveIds}) + 1])
    /\ UNCHANGED <<mapping, labels, recipe, request, cache, failures>>

(* _create_versioned_mapping commits the version, then invalidates. *)
_create_versioned_mapping(t) ==
    /\ th[t].pc = "version"
    /\ Len(mapping) < MaxMappings
    /\ mapping' = Append(mapping, [status |-> "published", version |-> th[t].n,
                                   made |-> "approval", live |-> TRUE])
    /\ Become(t, [th[t] EXCEPT !.pc = "forgetVersion", !.map = Len(mapping) + 1])
    /\ UNCHANGED <<labels, recipe, request, cache, failures>>

ForgetVersion(t) == th[t].pc = "forgetVersion" /\ Forgets(t, "readRecipe")

(* _rebind_recipe_to_mapping invalidates with the recipe still to commit.  *)
ReadRecipe(t) ==
    /\ th[t].pc = "readRecipe"
    /\ cache' = IF recipe = 0 THEN cache ELSE 0
    /\ Become(t, [th[t] EXCEPT !.pc = "rebind", !.saw = (recipe # 0)])
    /\ UNCHANGED <<mapping, labels, recipe, request, failures>>

(* The commit that rebinds the recipe and closes the request. *)
ApproveRequest(t) ==
    LET q == CHOOSE p \in th[t].refs : TRUE
        clash == (th[t].saw /\ recipe = 0) \/ (ForeignKeys /\ th[t].map \notin LiveIds)
    IN  /\ th[t].pc = "rebind"
        /\ \/ clash /\ Aborts(t)
           \/ /\ ~clash
              /\ recipe' = IF th[t].saw THEN th[t].map ELSE recipe
              /\ request' = [request EXCEPT ![q].open = FALSE]
              /\ Become(t, Idle)
              /\ UNCHANGED <<mapping, labels>>
        /\ UNCHANGED <<cache, failures>>

-----------------------------------------------------------------------------
(* Recipes *)

(* create_recipe: the mapping must exist; any status will do. *)
ValidateBinding(t) ==
    /\ Starts(t, "recipe")
    /\ \E m \in LiveIds : Become(t, [Idle EXCEPT !.pc = "bind", !.op = "recipe", !.map = m,
                                                 !.saw = (recipe # 0)])
    /\ UNCHANGED <<mapping, labels, recipe, request, cache, failures>>

create_recipe(t) ==
    LET clash == th[t].saw # (recipe # 0) \/ (ForeignKeys /\ th[t].map \notin LiveIds)
    IN  /\ th[t].pc = "bind"
        /\ \/ clash /\ Aborts(t)
           \/ /\ ~clash
              /\ recipe' = th[t].map
              /\ GoTo(t, "forget")
              /\ UNCHANGED <<mapping, labels, request>>
        /\ UNCHANGED <<cache, failures>>

delete_recipe(t) ==
    /\ Starts(t, "unbind")
    /\ recipe # 0
    /\ recipe' = 0
    /\ Become(t, [Idle EXCEPT !.pc = "forget", !.op = "unbind"])
    /\ UNCHANGED <<mapping, labels, request, cache, failures>>

-----------------------------------------------------------------------------
(* The engine resolves a mapping for an event of the source *)

(* _lookup_mapping: the recipe's mapping, else through the cache; without  *)
(* a mapping the event raises no request.                                  *)
_lookup_mapping(t) ==
    /\ Starts(t, "resolve")
    /\ \/ /\ recipe # 0
          /\ IF recipe \in LiveIds
             THEN Become(t, [Idle EXCEPT !.pc = "resolved", !.op = "resolve", !.map = recipe])
             ELSE UNCHANGED th
       \/ recipe = 0 /\ Become(t, [Idle EXCEPT !.pc = "lookup", !.op = "resolve"])
    /\ UNCHANGED <<mapping, labels, recipe, request, cache, failures>>

(* A remembered mapping counts while it is active; else the table does. *)
find_cached_or_lookup(t) ==
    /\ th[t].pc = "lookup"
    /\ LET found == find_active_mapping
       IN  Become(t, IF IsActive(cache) THEN [th[t] EXCEPT !.pc = "resolved", !.map = cache]
                     ELSE IF found # 0 THEN [th[t] EXCEPT !.pc = "fill", !.map = found]
                     ELSE Idle)
    /\ UNCHANGED <<mapping, labels, recipe, request, cache, failures>>

cache_active_mapping_id(t) ==
    /\ th[t].pc = "fill"
    /\ cache' = th[t].map
    /\ GoTo(t, "resolved")
    /\ UNCHANGED <<mapping, labels, recipe, request, failures>>

(* The event matched the mapping, or it raises a request about it          *)
(* (create_drift), a new one or an open one, re-pointed.                   *)
UseMapping(t) ==
    /\ th[t].pc = "resolved"
    /\ Become(t, Idle)
    /\ UNCHANGED <<mapping, labels, recipe, request, cache, failures>>

create_drift(t) ==
    LET m == th[t].map
    IN  /\ th[t].pc = "resolved"
        /\ "raise" \in Ops
        /\ ~(ForeignKeys /\ m \notin LiveIds)
        /\ \/ /\ Len(request) < MaxRequests
              /\ request' = Append(request, [map |-> m, open |-> TRUE])
           \/ \E q \in DOMAIN request : /\ request[q].open
                                        /\ request' = [request EXCEPT ![q].map = m]
        /\ Become(t, Idle)
        /\ UNCHANGED <<mapping, labels, recipe, cache, failures>>

(* An operator rejects an open request. *)
reject_drift(t) ==
    /\ Starts(t, "reject")
    /\ \E q \in DOMAIN request : /\ request[q].open
                                 /\ request' = [request EXCEPT ![q].open = FALSE]
    /\ UNCHANGED <<mapping, labels, recipe, cache, th, failures>>

-----------------------------------------------------------------------------
(* Mutant: an entry never expires. *)
NeverExpires == FALSE /\ UNCHANGED <<mapping, labels, recipe, request, cache, th, failures>>

(* CACHE_TTL has gone by. *)
Expire ==
    /\ cache # 0
    /\ cache' = 0
    /\ UNCHANGED <<mapping, labels, recipe, request, th, failures>>

(* A handler dies: what it committed and invalidated stays. *)
Fail(t) ==
    /\ th[t].pc # "idle"
    /\ failures < MaxFailures
    /\ failures' = failures + 1
    /\ Become(t, Idle)
    /\ UNCHANGED <<mapping, labels, recipe, request, cache>>

Work(t) ==
    \/ update_mapping_status(t) \/ CollectRefs(t) \/ delete_mapping(t) \/ Forget(t)
    \/ publish_mapping_knowledge(t)
    \/ _create_versioned_mapping(t) \/ ForgetVersion(t) \/ ReadRecipe(t) \/ ApproveRequest(t)
    \/ create_recipe(t)
    \/ find_cached_or_lookup(t) \/ cache_active_mapping_id(t) \/ UseMapping(t) \/ create_drift(t)

Begin(t) ==
    \/ create_mapping(t) \/ LoadStatus(t) \/ CountOpenRefs(t) \/ FlushKnowledge(t)
    \/ ReadBaseline(t) \/ ValidateBinding(t) \/ delete_recipe(t)
    \/ _lookup_mapping(t) \/ reject_drift(t)

(* Whoever dies between a commit and the invalidation that follows it owes *)
(* the latter, until the entry is overwritten with nothing or expires.     *)
DiesOwing(t) ==
    /\ th[t].pc \in {"forget", "forgetVersion"}
    /\ th'[t].pc = "idle"
    /\ failures' # failures

Owing == owed' = (cache' # 0 /\ (owed \/ \E t \in Threads : DiesOwing(t)))

Next ==
    /\ Expire \/ \E t \in Threads : Begin(t) \/ Work(t) \/ Fail(t)
    /\ Owing

Spec == Init /\ [][Next]_vars

(* Handlers go on to their end, and time passes. *)
FairSpec ==
    Spec /\ WF_vars(Expire /\ Owing) /\ \A t \in Threads : WF_vars(Work(t) /\ Owing)

-----------------------------------------------------------------------------
(* Properties *)

Steps == {"idle", "setStatus", "collect", "delete", "forget", "publish", "version",
          "forgetVersion", "readRecipe", "rebind", "bind", "lookup", "fill", "resolved"}

(* Every variable keeps its type. *)
TypeOK ==
    /\ mapping \in Seq(MappingRow) /\ Len(mapping) <= MaxMappings
    /\ labels \subseteq 1 .. MaxMappings + 2
    /\ recipe \in 0 .. Len(mapping)
    /\ request \in Seq(RequestRow) /\ Len(request) <= MaxRequests
    /\ cache \in 0 .. Len(mapping)
    /\ \A t \in Threads : /\ th[t].pc \in Steps
                          /\ th[t].map \in 0 .. Len(mapping)
                          /\ th[t].to \in MappingStatus
                          /\ th[t].refs \subseteq DOMAIN request
    /\ failures \in 0 .. MaxFailures
    /\ owed \in BOOLEAN

(* The baseline every open request's approval would version from is there: *)
(* a deletion, refused while open requests are about the mapping, never    *)
(* takes it away, and requests are only raised and re-pointed to mappings  *)
(* that are there (delete_mapping, create_drift).                          *)
BaselineExists == \A q \in DOMAIN request : request[q].open => request[q].map \in LiveIds

Quiet == \A t \in Threads : th[t].pc = "idle"

IsPublished(m) == m \in LiveIds /\ mapping[m].status = "published"

(* When nobody is half-way, an event resolved through the cache gets no    *)
(* mapping that a newer published one has superseded: onboardings,         *)
(* approvals of requests and publications by hand all invalidate the entry *)
(* (mapping_cache).  Only a handler that died before it did leaves one; a  *)
(* mapping set to approved by hand, which is active too, is not promised.  *)
CacheIsFresh ==
    Quiet /\ ~owed /\ IsActive(cache) => \A m \in MapIds : IsPublished(m) => m <= cache

(* No two approvals, and no two onboardings, publish mappings of the       *)
(* source with the same version number (next_version,                      *)
(* _create_versioned_mapping), whatever is deleted or published in between.*)
(* An approval and an onboarding may: they count differently.              *)
PublishedApart ==
    \A l, m \in LiveIds :
        /\ mapping[l].made = mapping[m].made /\ mapping[l].made # "client"
        /\ mapping[l].version = mapping[m].version
        => l = m

(* Once the newest active mapping stays the same, the cache ends up with   *)
(* it or without an entry, also when a slow request filled it with an      *)
(* older one or a handler died before it invalidated (CACHE_TTL).          *)
CacheCatchesUp ==
    \A m \in 1 .. MaxMappings :
        <>[](find_active_mapping = m) => <>[](cache \in {0, m})
=============================================================================
