------------------------ MODULE MappingCatalogProofs ------------------------
(***************************************************************************)
(* For any number of requests in flight and of rows: types.  For handlers  *)
(* that do not overlap, whichever of them die half-way and with either     *)
(* database: open requests keep their baseline, versions are apart, and    *)
(* the cache never hides a published mapping.                              *)
(***************************************************************************)
EXTENDS MappingCatalog, SequenceTheorems, FiniteNumbers, TLAPS

-----------------------------------------------------------------------------
(* Types, whatever interleaves and whichever database                      *)

(* A thread's memory, in full. *)
FullRow == [pc : Steps, op : Operations \cup {"none"}, map : Nat, to : MappingStatus,
            n : Nat, saw : BOOLEAN, refs : SUBSET Nat]

(* What a thread remembers exists; a flushed row has the number its commit *)
(* will enter as a label.                                                  *)
Remembers(t) ==
    /\ th[t].map <= Len(mapping)
    /\ th[t].refs \subseteq DOMAIN request
    /\ th[t].pc = "publish" => /\ th[t].map \in MapIds
                               /\ th[t].n \in 1 .. MaxMappings + 2
                               /\ mapping[th[t].map].version = th[t].n

(* The numbers of the rows.  A label beyond the first is some row's, which *)
(* leaves the next one within the bound.                                   *)
TypeInv ==
    /\ mapping \in Seq(MappingRow) /\ Len(mapping) <= MaxMappings
    /\ labels \subseteq 1 .. MaxMappings + 2
    /\ labels \subseteq {1} \cup {mapping[m].version : m \in MapIds}
    /\ recipe \in 0 .. Len(mapping)
    /\ cache \in 0 .. Len(mapping)
    /\ request \in Seq(RequestRow) /\ Len(request) <= MaxRequests
    /\ th \in [Threads -> FullRow]
    /\ \A t \in Threads : Remembers(t)
    /\ failures \in 0 .. MaxFailures

LEMMA FunIsSeq ==
    ASSUME NEW S, NEW n \in Nat, NEW f, f = [k \in 1 .. n |-> f[k]], \A k \in 1 .. n : f[k] \in S
    PROVE  f \in Seq(S)
  OBVIOUS

LEMMA IdleParts ==
    /\ Idle.pc = "idle" /\ Idle.map = 0 /\ Idle.to = "draft" /\ Idle.n = 0
    /\ Idle.saw = FALSE /\ Idle.refs = {} /\ "draft" \in MappingStatus
    /\ "published" \in MappingStatus
  BY DEF Idle, MappingStatus, _LIFECYCLE_ORDER

(* No row goes, and each keeps its number. *)
Grows ==
    /\ mapping' \in Seq(MappingRow)
    /\ Len(mapping) <= Len(mapping') /\ Len(mapping') <= MaxMappings
    /\ \A m \in MapIds : mapping'[m].version = mapping[m].version

Bounded ==
    /\ recipe' \in 0 .. Len(mapping')
    /\ cache' \in 0 .. Len(mapping')
    /\ request' \in Seq(RequestRow)
    /\ Len(request) <= Len(request') /\ Len(request') <= MaxRequests
    /\ failures' \in 0 .. MaxFailures

Fits(r) ==
    /\ r \in FullRow
    /\ r.map <= Len(mapping')
    /\ r.refs \subseteq DOMAIN request'
    /\ r.pc = "publish" => /\ r.map \in MapIds'
                           /\ r.n \in 1 .. MaxMappings + 2
                           /\ mapping'[r.map].version = r.n

LEMMA TypeFacts ==
    ASSUME TypeInv
    PROVE  /\ Len(mapping) \in Nat /\ MapIds = 1 .. Len(mapping)
           /\ Len(request) \in Nat /\ DOMAIN request = 1 .. Len(request)
           /\ \A m \in MapIds : mapping[m] \in MappingRow
           /\ \A q \in DOMAIN request : request[q] \in RequestRow
           /\ LiveIds \subseteq MapIds /\ 0 \notin LiveIds
           /\ \A t \in Threads : th[t] \in FullRow
           /\ MaxMappings \in Nat /\ MaxRequests \in Nat /\ MaxFailures \in Nat
           /\ failures \in Nat
  BY BoundsAssumption DEF TypeInv, MapIds, LiveIds, BoundsAssumption

LEMMA IdleFits == Idle \in FullRow /\ ((TypeInv /\ Len(mapping') \in Nat) => Fits(Idle))
  <1>1. /\ Idle \in FullRow /\ Idle.map = 0 /\ Idle.refs = {} /\ Idle.pc = "idle"
    BY DEF Idle, FullRow, Steps, MappingStatus, _LIFECYCLE_ORDER
  <1>2. QED
    BY <1>1 DEF Fits

LEMMA TypeStep ==
    ASSUME TypeInv, NEW t \in Threads, NEW r, Become(t, r), Fits(r), Grows, Bounded,
           labels' \subseteq labels \cup {1} \cup
                             {l \in 1 .. MaxMappings + 2 : \E m \in MapIds' : mapping'[m].version = l}
    PROVE  TypeInv' /\ th'[t] = r /\ \A u \in Threads : u # t => th'[u] = th[u]
  <1>1. /\ th' \in [Threads -> FullRow] /\ th'[t] = r
        /\ \A u \in Threads : u # t => th'[u] = th[u]
    BY DEF TypeInv, Become, Fits
  <1>2. MapIds \subseteq MapIds' /\ DOMAIN request \subseteq DOMAIN request'
    <2>1. /\ Len(mapping) \in Nat /\ Len(mapping') \in Nat
          /\ Len(request) \in Nat /\ DOMAIN request = 1 .. Len(request)
          /\ Len(request') \in Nat /\ DOMAIN request' = 1 .. Len(request')
      BY TypeFacts DEF Grows, Bounded
    <2>2. QED
      BY <2>1 DEF Grows, Bounded, MapIds
  <1>3. \A u \in Threads : Remembers(u)'
    <2> SUFFICES ASSUME NEW u \in Threads PROVE Remembers(u)'
      OBVIOUS
    <2>1. CASE u = t
      BY <1>1, <2>1 DEF Fits, Remembers
    <2>2. CASE u # t
      <3>1. Remembers(u) /\ th'[u] = th[u]
        BY <1>1, <2>2 DEF TypeInv
      <3>2. /\ Len(mapping) \in Nat /\ Len(mapping') \in Nat /\ th[u].map \in Nat
            /\ Len(mapping) <= Len(mapping')
        BY TypeFacts DEF Grows, FullRow
      <3>3. th[u].pc = "publish" => mapping'[th[u].map].version = mapping[th[u].map].version
        BY <3>1 DEF Remembers, Grows
      <3>4. th'[u].map <= Len(mapping')
        BY <3>1, <3>2 DEF Remembers
      <3>5. QED
        BY <1>2, <3>1, <3>3, <3>4 DEF Remembers
    <2>3. QED
      BY <2>1, <2>2
  <1>4. /\ labels' \subseteq 1 .. MaxMappings + 2
        /\ labels' \subseteq {1} \cup {mapping'[m].version : m \in MapIds'}
    <2>1. 1 \in 1 .. MaxMappings + 2
      BY TypeFacts
    <2>2. \A l \in labels : l # 1 => \E m \in MapIds' : mapping'[m].version = l
      BY <1>2 DEF TypeInv, Grows
    <2>3. QED
      BY <2>1, <2>2 DEF TypeInv
  <1>5. QED
    BY <1>1, <1>3, <1>4 DEF TypeInv, Grows, Bounded

(* Nothing but the thread's memory, and what TypeStep is told, changes. *)
LEMMA SameRows == ASSUME TypeInv, UNCHANGED mapping PROVE Grows /\ MapIds' = MapIds /\ LiveIds' = LiveIds
  <1>1. Len(mapping) <= Len(mapping')
    BY TypeFacts
  <1>2. QED
    BY <1>1 DEF TypeInv, Grows, MapIds, LiveIds

LEMMA SameRefsBounded ==
    ASSUME TypeInv, Grows, recipe' \in {0, recipe}, cache' \in {0, cache}, UNCHANGED <<request, failures>>
    PROVE  Bounded
  <1>1. /\ Len(mapping) \in Nat /\ Len(mapping') \in Nat /\ Len(mapping) <= Len(mapping')
        /\ Len(request) <= Len(request')
    BY TypeFacts DEF Grows
  <1>2. QED
    BY <1>1 DEF TypeInv, Bounded

(* The effect of an added and of a replaced row. *)
Added(r) ==
    /\ Len(mapping') = Len(mapping) + 1 /\ MapIds' = MapIds \cup {Len(mapping) + 1}
    /\ Len(mapping) + 1 \notin MapIds
    /\ mapping'[Len(mapping) + 1] = r
    /\ \A m \in MapIds : mapping'[m] = mapping[m]
    /\ LiveIds' = LiveIds \cup (IF r.live THEN {Len(mapping) + 1} ELSE {})

Replaced(k, r) ==
    /\ Len(mapping') = Len(mapping) /\ MapIds' = MapIds
    /\ mapping'[k] = r
    /\ \A m \in MapIds : m # k => mapping'[m] = mapping[m]
    /\ \A m : m # k => (m \in LiveIds' <=> m \in LiveIds)
    /\ k \in LiveIds' <=> r.live

LEMMA RowAdded ==
    ASSUME TypeInv, NEW r \in MappingRow, mapping' = Append(mapping, r), Len(mapping) < MaxMappings
    PROVE  Grows /\ Added(r)
  <1>1. /\ mapping' \in Seq(MappingRow) /\ Len(mapping') = Len(mapping) + 1
        /\ \A m \in 1 .. Len(mapping) : mapping'[m] = mapping[m]
        /\ mapping'[Len(mapping) + 1] = r
    BY AppendProperties DEF TypeInv
  <1>2. Len(mapping) \in Nat /\ MaxMappings \in Nat /\ MapIds = 1 .. Len(mapping)
    BY TypeFacts
  <1>3. /\ MapIds' = MapIds \cup {Len(mapping) + 1} /\ Len(mapping) + 1 \notin MapIds
        /\ Len(mapping) <= Len(mapping') /\ Len(mapping') <= MaxMappings
    BY <1>1, <1>2 DEF MapIds
  <1>4. LiveIds' = LiveIds \cup (IF r.live THEN {Len(mapping) + 1} ELSE {})
    BY <1>1, <1>2, <1>3 DEF LiveIds
  <1>5. QED
    BY <1>1, <1>2, <1>3, <1>4 DEF Grows, Added

LEMMA RowReplaced ==
    ASSUME TypeInv, NEW k \in MapIds, NEW r \in MappingRow, r.version = mapping[k].version,
           mapping' = [mapping EXCEPT ![k] = r]
    PROVE  Grows /\ Replaced(k, r)
  <1>1. Len(mapping) \in Nat /\ MaxMappings \in Nat /\ MapIds = 1 .. Len(mapping)
    BY TypeFacts
  <1>2. /\ mapping' \in Seq(MappingRow) /\ Len(mapping') = Len(mapping)
        /\ mapping'[k] = r
        /\ \A m \in MapIds : m # k => mapping'[m] = mapping[m]
    BY <1>1, ExceptSeq DEF TypeInv
  <1>3. /\ MapIds' = MapIds
        /\ Len(mapping) <= Len(mapping') /\ Len(mapping') <= MaxMappings
    BY <1>1, <1>2 DEF MapIds, TypeInv
  <1>4. (\A m : m # k => (m \in LiveIds' <=> m \in LiveIds)) /\ (k \in LiveIds' <=> r.live)
    BY <1>2, <1>3 DEF LiveIds
  <1>5. QED
    BY <1>2, <1>3, <1>4 DEF Grows, Replaced

-----------------------------------------------------------------------------
(* What each step does *)

Moved(t, r) == th'[t] = r /\ \A u \in Threads : u # t => th'[u] = th[u]

LEMMA CreateStep ==
    ASSUME TypeInv, NEW t \in Threads, create_mapping(t)
    PROVE  /\ TypeInv'
           /\ Added([status |-> "draft", version |-> 1, made |-> "client", live |-> TRUE])
           /\ UNCHANGED <<labels, recipe, request, cache, th>>
  <1> DEFINE r == [status |-> "draft", version |-> 1, made |-> "client", live |-> TRUE]
  <1>1. /\ mapping' = Append(mapping, r) /\ Len(mapping) < MaxMappings
        /\ UNCHANGED <<labels, recipe, request, cache, th, failures>>
    BY DEF create_mapping
  <1>2. r \in MappingRow
    BY IdleParts DEF MappingRow
  <1>3. Grows /\ Added(r)
    BY <1>1, <1>2, RowAdded
  <1>4. Bounded
    BY <1>1, <1>3, SameRefsBounded
  <1>5. th[t] \in FullRow /\ Become(t, th[t])
    BY <1>1, TypeFacts DEF Become, TypeInv
  <1>6. Fits(th[t])
    <2>1. Remembers(t) /\ th[t].map \in Nat
      BY <1>5 DEF TypeInv, FullRow
    <2>2. Len(mapping) \in Nat /\ Len(mapping') \in Nat /\ MapIds \subseteq MapIds'
      BY <1>3, TypeFacts DEF Added, Grows
    <2>3. th[t].pc = "publish" => mapping'[th[t].map].version = mapping[th[t].map].version
      BY <1>3, <2>1 DEF Remembers, Grows
    <2>4. th[t].map <= Len(mapping')
      BY <1>3, <2>1, <2>2 DEF Remembers, Grows
    <2>5. QED
      BY <1>1, <1>5, <2>1, <2>2, <2>3, <2>4 DEF Fits, Remembers
  <1>7. TypeInv'
    BY <1>1, <1>3, <1>4, <1>5, <1>6, TypeStep
  <1>8. QED
    BY <1>1, <1>3, <1>7

(* A step that changes nothing but what a thread remembers, or drops the   *)
(* recipe or the cache entry on its way.                                   *)
LEMMA MoveStep ==
    ASSUME TypeInv, NEW t \in Threads, NEW r \in FullRow, Become(t, r), r.pc # "publish",
           r.map <= Len(mapping), r.refs \subseteq DOMAIN request,
           recipe' \in {0, recipe, r.map}, cache' \in {0, cache, r.map},
           UNCHANGED <<mapping, labels, request, failures>>
    PROVE  TypeInv' /\ Moved(t, r) /\ LiveIds' = LiveIds /\ MapIds' = MapIds
  <1>1. Grows /\ MapIds' = MapIds /\ LiveIds' = LiveIds
    BY SameRows
  <1>2. Fits(r)
    BY <1>1 DEF Fits
  <1>3. Bounded
    <2>1. Len(request) <= Len(request') /\ r.map \in Nat
      BY TypeFacts DEF FullRow
    <2>2. QED
      BY <2>1 DEF Bounded, TypeInv
  <1>4. QED
    BY <1>1, <1>2, <1>3, TypeStep DEF Moved

LEMMA EndStep ==
    ASSUME TypeInv, NEW t \in Threads, Become(t, Idle), UNCHANGED <<mapping, labels, request, recipe, cache>>,
           failures' \in 0 .. MaxFailures
    PROVE  TypeInv' /\ Moved(t, Idle) /\ LiveIds' = LiveIds /\ MapIds' = MapIds
  <1>1. Grows /\ MapIds' = MapIds /\ LiveIds' = LiveIds
    BY SameRows
  <1>2. Fits(Idle)
    BY TypeFacts, IdleFits
  <1>3. Bounded
    BY TypeFacts DEF Bounded, TypeInv
  <1>4. QED
    BY <1>1, <1>2, <1>3, TypeStep DEF Moved

LEMMA Starting ==
    ASSUME NEW pc \in Steps, NEW op \in Operations, NEW map \in Nat, NEW to \in MappingStatus, NEW n \in Nat,
           NEW saw \in BOOLEAN, NEW refs \in SUBSET Nat
    PROVE  LET r == [Idle EXCEPT !.pc = pc, !.op = op, !.map = map, !.to = to, !.n = n,
                                 !.saw = saw, !.refs = refs]
           IN  /\ r \in FullRow /\ r.pc = pc /\ r.map = map /\ r.refs = refs /\ r.n = n /\ r.to = to
               /\ r.saw = saw
  BY DEF Idle, FullRow

LEMMA LoadStep ==
    ASSUME TypeInv, NEW t \in Threads, LoadStatus(t)
    PROVE  /\ TypeInv' /\ th[t].pc = "idle"
           /\ th'[t].pc = "setStatus" /\ th'[t].to \in Targets
           /\ UNCHANGED <<mapping, labels, recipe, request, cache>>
  <1>1. PICK m \in LiveIds, s \in Targets :
          /\ Rank(s) >= Rank(mapping[m].status)
          /\ Become(t, [Idle EXCEPT !.pc = "setStatus", !.op = "update", !.map = m, !.to = s,
                                    !.saw = (mapping[m].status # s)])
    BY DEF LoadStatus
  <1> DEFINE saw == mapping[m].status # s
             r == [Idle EXCEPT !.pc = "setStatus", !.op = "update", !.map = m, !.to = s, !.saw = saw]
  <1>2. s \in MappingStatus
    BY TargetsAssumption DEF TargetsAssumption
  <1>3. m \in 1 .. Len(mapping) /\ Len(mapping) \in Nat
    BY TypeFacts
  <1>4. saw \in BOOLEAN
    OBVIOUS
  <1> HIDE DEF saw
  <1>5. r \in FullRow /\ r.pc = "setStatus" /\ r.to = s /\ r.map = m /\ r.refs = {}
    <2>1. m \in Nat /\ "setStatus" \in Steps /\ "update" \in Operations
      BY <1>3 DEF Steps, Operations
    <2>2. QED
      BY <1>2, <1>4, <2>1 DEF Idle, FullRow
  <1>6. Become(t, r) /\ UNCHANGED <<mapping, labels, recipe, request, cache, failures>> /\ th[t].pc = "idle"
    BY <1>1 DEF LoadStatus, Starts, saw
  <1> HIDE DEF r
  <1>7. TypeInv' /\ Moved(t, r)
    BY <1>3, <1>5, <1>6, MoveStep
  <1>8. QED
    BY <1>5, <1>6, <1>7 DEF Moved

LEMMA UpdateStep ==
    ASSUME TypeInv, NEW t \in Threads, update_mapping_status(t)
    PROVE  /\ TypeInv' /\ th[t].pc = "setStatus" /\ MapIds' = MapIds /\ LiveIds' = LiveIds
           /\ \/ mapping' = mapping
              \/ /\ th[t].map \in LiveIds
                 /\ Replaced(th[t].map, [mapping[th[t].map] EXCEPT !.status = th[t].to])
           /\ \/ mapping' = mapping /\ th'[t].pc = "idle"
              \/ th[t].to = "published" /\ th'[t].pc = "forget"
              \/ th[t].to # "published" /\ th'[t].pc = "idle"
           /\ UNCHANGED <<labels, recipe, request, cache>>
  <1> DEFINE k == th[t].map
             m == [mapping[k] EXCEPT !.status = th[t].to]
             r == [th[t] EXCEPT !.pc = "forget"]
  <1>1. /\ th[t].pc = "setStatus" /\ UNCHANGED <<labels, recipe, request, cache, failures>>
        /\ mapping' = mapping \/ (k \in LiveIds /\ mapping' = [mapping EXCEPT ![k].status = th[t].to])
    BY DEF update_mapping_status, Aborts
  <1>2. \/ mapping' = mapping /\ Become(t, Idle)
        \/ th[t].to = "published" /\ Become(t, r)
        \/ th[t].to # "published" /\ Become(t, Idle)
    BY DEF update_mapping_status, Aborts, GoTo
  <1>3. th[t] \in FullRow /\ Remembers(t)
    BY TypeFacts DEF TypeInv
  <1>4. /\ r \in FullRow /\ r.pc = "forget" /\ r.map = k /\ r.refs = th[t].refs
    BY <1>3 DEF FullRow, Steps
  <1>5. /\ Grows /\ MapIds' = MapIds /\ LiveIds' = LiveIds
        /\ mapping' = mapping \/ (k \in LiveIds /\ Replaced(k, m))
    <2>1. CASE mapping' = mapping
      BY <2>1, SameRows
    <2>2. CASE k \in LiveIds /\ mapping' = [mapping EXCEPT ![k].status = th[t].to]
      <3>1. k \in MapIds /\ mapping[k] \in MappingRow /\ th[t].to \in MappingStatus /\ mapping[k].live
        BY <1>3, <2>2, TypeFacts DEF LiveIds, FullRow
      <3>2. m \in MappingRow /\ m.version = mapping[k].version /\ m.live
        BY <3>1 DEF MappingRow
      <3>3. mapping' = [mapping EXCEPT ![k] = m]
        BY <2>2
      <3> HIDE DEF m, k
      <3>4. Grows /\ Replaced(k, m)
        BY <3>1, <3>2, <3>3, RowReplaced
      <3>5. LiveIds' = LiveIds
        <4>1. k \in LiveIds /\ k \in LiveIds' /\ \A l : l # k => (l \in LiveIds' <=> l \in LiveIds)
          BY <2>2, <3>2, <3>4 DEF Replaced
        <4>2. QED
          BY <4>1
      <3>6. QED
        BY <2>2, <3>4, <3>5 DEF Replaced
    <2>3. QED
      BY <1>1, <2>1, <2>2
  <1>6. Bounded
    BY <1>1, <1>5, SameRefsBounded
  <1>7. Fits(r) /\ Fits(Idle)
    <2>1. Len(mapping) \in Nat /\ Len(mapping') \in Nat /\ k \in Nat /\ Len(mapping) <= Len(mapping')
      BY <1>3, <1>5, TypeFacts DEF Grows, FullRow
    <2>2. r.map <= Len(mapping') /\ r.refs \subseteq DOMAIN request'
      BY <1>1, <1>3, <1>4, <2>1 DEF Remembers
    <2>3. QED
      BY <1>4, <2>1, <2>2, IdleFits DEF Fits
  <1> HIDE DEF r, m, k
  <1>8. TypeInv' /\ (\/ mapping' = mapping /\ th'[t] = Idle
                     \/ th[t].to = "published" /\ th'[t] = r
                     \/ th[t].to # "published" /\ th'[t] = Idle)
    BY <1>1, <1>2, <1>5, <1>6, <1>7, TypeStep
  <1>9. QED
    BY <1>1, <1>4, <1>5, <1>8, IdleParts DEF m, k

(* delete_mapping *)
LEMMA CountStep ==
    ASSUME TypeInv, NEW t \in Threads, CountOpenRefs(t)
    PROVE  /\ TypeInv' /\ th[t].pc = "idle" /\ th'[t].pc = "collect" /\ OpenOn(th'[t].map) = {}
           /\ UNCHANGED <<mapping, labels, recipe, request, cache>>
  <1>1. PICK m \in LiveIds :
          /\ OpenOn(m) = {}
          /\ Become(t, [Idle EXCEPT !.pc = "collect", !.op = "delete", !.map = m])
    BY DEF CountOpenRefs
  <1> DEFINE r == [Idle EXCEPT !.pc = "collect", !.op = "delete", !.map = m]
  <1>2. m \in Nat /\ m <= Len(mapping)
    BY TypeFacts
  <1>3. r \in FullRow /\ r.pc = "collect" /\ r.map = m /\ r.refs = {}
    BY <1>2, IdleParts DEF Idle, FullRow, Steps, Operations
  <1>4. Become(t, r) /\ UNCHANGED <<mapping, labels, recipe, request, cache, failures>> /\ th[t].pc = "idle"
    BY <1>1 DEF CountOpenRefs, Starts
  <1> HIDE DEF r
  <1>5. TypeInv' /\ Moved(t, r)
    BY <1>2, <1>3, <1>4, MoveStep
  <1>6. QED
    BY <1>1, <1>3, <1>4, <1>5 DEF Moved

LEMMA CollectStep ==
    ASSUME TypeInv, NEW t \in Threads, CollectRefs(t)
    PROVE  /\ TypeInv' /\ th[t].pc = "collect" /\ th'[t].pc = "delete" /\ th'[t].map = th[t].map
           /\ th'[t].refs = {q \in DOMAIN request : request[q].map = th[t].map}
           /\ UNCHANGED <<mapping, labels, recipe, request, cache>>
  <1> DEFINE refs == {q \in DOMAIN request : request[q].map = th[t].map}
             saw == recipe = th[t].map
             r == [th[t] EXCEPT !.pc = "delete", !.saw = saw, !.refs = refs]
  <1>1. /\ Become(t, r) /\ UNCHANGED <<mapping, labels, recipe, request, cache, failures>>
        /\ th[t].pc = "collect"
    BY DEF CollectRefs
  <1>2. th[t] \in FullRow /\ Remembers(t) /\ saw \in BOOLEAN
    BY TypeFacts DEF TypeInv
  <1>3. refs \subseteq DOMAIN request /\ refs \in SUBSET Nat
    BY TypeFacts
  <1>4. refs = {q \in DOMAIN request : request[q].map = th[t].map}
    OBVIOUS
  <1> HIDE DEF refs, saw
  <1>5. r \in FullRow /\ r.pc = "delete" /\ r.map = th[t].map /\ r.refs = refs
    BY <1>2, <1>3 DEF FullRow, Steps
  <1>6. r.map <= Len(mapping)
    BY <1>2, <1>5 DEF Remembers
  <1> HIDE DEF r
  <1>7. TypeInv' /\ Moved(t, r)
    BY <1>1, <1>3, <1>5, <1>6, MoveStep
  <1>8. QED
    BY <1>1, <1>4, <1>5, <1>7 DEF Moved

(* The rows of the requests, after some have been detached. *)
LEMMA DeleteStep ==
    ASSUME TypeInv, NEW t \in Threads, delete_mapping(t)
    PROVE  /\ TypeInv' /\ th[t].pc = "delete" /\ MapIds' = MapIds /\ LiveIds' \subseteq LiveIds
           /\ \A m \in LiveIds' : mapping'[m] = mapping[m]
           /\ DOMAIN request' = DOMAIN request
           /\ \A q \in DOMAIN request : /\ request'[q].open = request[q].open
                                        /\ q \notin th[t].refs => request'[q] = request[q]
           /\ \/ th'[t].pc = "idle" /\ UNCHANGED <<mapping, recipe, request>>
              \/ /\ th'[t].pc = "forget" /\ recipe' \in {0, recipe}
                 /\ \A m \in LiveIds : m # th[t].map => m \in LiveIds'
                 /\ \A q \in DOMAIN request : request'[q].map \in {0, request[q].map}
                 /\ ForeignKeys => /\ recipe' = 0 \/ recipe' # th[t].map
                                   /\ \A q \in DOMAIN request : request'[q].map # th[t].map
           /\ UNCHANGED <<labels, cache>>
  <1> DEFINE k == th[t].map
             left(q) == IF q \in th[t].refs THEN [request[q] EXCEPT !.map = 0] ELSE request[q]
             m == [mapping[k] EXCEPT !.live = FALSE]
             r == [th[t] EXCEPT !.pc = "forget"]
  <1>1. CASE Aborts(t) /\ UNCHANGED <<cache, failures>> /\ th[t].pc = "delete"
    <2>1. Become(t, Idle) /\ UNCHANGED <<mapping, labels, request, recipe, cache, failures>> /\ th[t].pc = "delete"
      BY <1>1 DEF Aborts
    <2>2. failures' \in 0 .. MaxFailures
      BY <2>1 DEF TypeInv
    <2>3. TypeInv' /\ Moved(t, Idle) /\ LiveIds' = LiveIds /\ MapIds' = MapIds
      BY <2>1, <2>2, EndStep
    <2>4. QED
      BY <2>1, <2>3, IdleParts, TypeFacts DEF Moved
  <1>2. CASE /\ mapping' = [mapping EXCEPT ![k].live = FALSE]
             /\ recipe' = IF th[t].saw THEN 0 ELSE recipe
             /\ ForeignKeys => /\ ~(recipe = k /\ ~th[t].saw)
                               /\ ~\E q \in DOMAIN request : left(q).map = k
             /\ request' = [q \in DOMAIN request |-> left(q)]
             /\ Become(t, r) /\ UNCHANGED <<labels, cache, failures>> /\ th[t].pc = "delete"
    <2>1. th[t] \in FullRow /\ Remembers(t)
      BY TypeFacts DEF TypeInv
    <2>2. r \in FullRow /\ r.pc = "forget" /\ r.map = k /\ r.refs = th[t].refs
      BY <2>1 DEF FullRow, Steps
    <2>3. /\ Grows /\ MapIds' = MapIds /\ LiveIds' \subseteq LiveIds
          /\ \A l \in LiveIds' : mapping'[l] = mapping[l]
          /\ \A l \in LiveIds : l # k => l \in LiveIds'
      <3>1. CASE k \in MapIds
        <4>1. mapping[k] \in MappingRow
          BY <3>1, TypeFacts
        <4>2. m \in MappingRow /\ m.version = mapping[k].version /\ ~m.live
          BY <4>1 DEF MappingRow
        <4>3. mapping' = [mapping EXCEPT ![k] = m]
          BY <1>2
        <4> HIDE DEF m, k
        <4>4. Grows /\ Replaced(k, m)
          BY <3>1, <4>2, <4>3, RowReplaced
        <4>5. LiveIds' \subseteq MapIds
          BY <4>4 DEF Replaced, LiveIds
        <4>6. QED
          BY <4>2, <4>4, <4>5 DEF Replaced
      <3>2. CASE k \notin MapIds
        <4>1. mapping' = mapping
          BY <1>2, <3>2, TypeFacts DEF TypeInv
        <4>2. QED
          BY <4>1, SameRows
      <3>3. QED
        BY <3>1, <3>2
    <2>4. \A q \in DOMAIN request :
             /\ left(q) \in RequestRow /\ left(q).open = request[q].open
             /\ q \notin th[t].refs => left(q) = request[q]
             /\ left(q).map \in {0, request[q].map}
      BY TypeFacts DEF RequestRow
    <2>5. /\ request' = [q \in DOMAIN request |-> request'[q]]
          /\ \A q \in DOMAIN request : request'[q] = left(q)
      BY <1>2
    <2>6. /\ recipe' \in {0, recipe}
          /\ ForeignKeys => /\ recipe' = 0 \/ recipe' # k
                            /\ \A q \in DOMAIN request : left(q).map # k
      BY <1>2
    <2>7. th[t].map = k
      OBVIOUS
    <2> HIDE DEF left, r, m, k
    <2>8. /\ request' \in Seq(RequestRow) /\ DOMAIN request' = DOMAIN request
          /\ Len(request') = Len(request)
      <3>1. DOMAIN request = 1 .. Len(request) /\ Len(request) \in Nat
        BY TypeFacts
      <3>2. request' = [q \in 1 .. Len(request) |-> request'[q]]
        BY <2>5, <3>1
      <3>3. \A q \in 1 .. Len(request) : request'[q] \in RequestRow
        BY <2>4, <2>5, <3>1
      <3>4. request' \in Seq(RequestRow)
        BY <3>1, <3>2, <3>3, FunIsSeq
      <3>5. Len(request') = Len(request)
        BY <3>1, <3>2, <3>4
      <3>6. QED
        BY <2>5, <3>4, <3>5
    <2>9. Bounded
      <3>1. recipe' \in {0, recipe} /\ Len(mapping) <= Len(mapping') /\ Len(mapping) \in Nat /\ Len(mapping') \in Nat
        BY <1>2, <2>3, TypeFacts DEF Grows
      <3>2. Len(request) <= Len(request') /\ Len(request') <= MaxRequests
        BY <2>8, TypeFacts DEF TypeInv
      <3>3. QED
        BY <1>2, <2>8, <3>1, <3>2 DEF Bounded, TypeInv
    <2>10. Fits(r)
      <3>1. k \in Nat /\ k <= Len(mapping) /\ Len(mapping) <= Len(mapping') /\ Len(mapping) \in Nat /\ Len(mapping') \in Nat
        BY <2>1, <2>3, TypeFacts DEF Remembers, Grows, FullRow, k
      <3>2. r.map <= Len(mapping') /\ r.refs \subseteq DOMAIN request'
        BY <2>1, <2>2, <2>8, <3>1 DEF Remembers
      <3>3. QED
        BY <2>2, <3>2 DEF Fits
    <2>11. TypeInv' /\ th'[t] = r
      BY <1>2, <2>3, <2>9, <2>10, TypeStep
    <2>12. QED
      BY <1>2, <2>2, <2>3, <2>4, <2>5, <2>8, <2>11, <2>6, <2>7
  <1>3. QED
    BY <1>1, <1>2 DEF delete_mapping, GoTo

LEMMA ForgetStep ==
    ASSUME TypeInv, NEW t \in Threads, NEW pc \in Steps \ {"publish"}, Forgets(t, pc)
    PROVE  /\ TypeInv' /\ cache' = 0 /\ UNCHANGED <<mapping, labels, recipe, request>>
           /\ th'[t].pc = pc /\ th'[t].map = th[t].map /\ th'[t].n = th[t].n
  <1> DEFINE r == [th[t] EXCEPT !.pc = pc]
  <1>1. Become(t, r) /\ cache' = 0 /\ UNCHANGED <<mapping, labels, recipe, request, failures>>
    BY DEF Forgets, GoTo
  <1>2. th[t] \in FullRow /\ Remembers(t)
    BY TypeFacts DEF TypeInv
  <1>3. r \in FullRow /\ r.pc = pc /\ r.map = th[t].map /\ r.refs = th[t].refs /\ r.n = th[t].n
    BY <1>2 DEF FullRow
  <1> HIDE DEF r
  <1>4. TypeInv' /\ Moved(t, r)
    BY <1>1, <1>2, <1>3, MoveStep DEF Remembers
  <1>5. QED
    BY <1>1, <1>3, <1>4 DEF Moved

-----------------------------------------------------------------------------
(* Publishing *)

(* There are more numbers within the bound than rows: one is free. *)
LEMMA NextVersion ==
    ASSUME TypeInv, Len(mapping) < MaxMappings
    PROVE  /\ next_version \in 1 .. MaxMappings + 2
           /\ LiveIds # {} => next_version # 1 /\ next_version \notin labels
  <1> DEFINE Free == (2 .. MaxMappings + 2) \ labels
  <1>1. Len(mapping) \in Nat /\ MaxMappings \in Nat /\ MapIds = 1 .. Len(mapping)
    BY TypeFacts
  <1>2. Free # {}
    <2> SUFFICES ASSUME Free = {} PROVE FALSE
      OBVIOUS
    <2> DEFINE f == [m \in MapIds |-> mapping[m].version]
               V == {f[m] : m \in MapIds}
    <2>1. IsFiniteSet(V) /\ Cardinality(V) <= Len(mapping)
      <3> HIDE DEF f
      <3>1. MapIds \in SUBSET (1 .. Len(mapping))
        BY <1>1
      <3>2. QED
        BY <1>1, <3>1, ValuesOfRows
    <2>2. (2 .. MaxMappings + 2) \subseteq V
      <3>1. V = {mapping[m].version : m \in MapIds}
        OBVIOUS
      <3> HIDE DEF V
      <3>2. labels \subseteq {1} \cup V
        BY <3>1 DEF TypeInv
      <3>3. QED
        BY <3>2
    <2> HIDE DEF V
    <2>3. Cardinality(2 .. MaxMappings + 2) = MaxMappings + 1
      BY <1>1, FS_Interval
    <2>4. Cardinality(2 .. MaxMappings + 2) <= Cardinality(V)
      BY <2>1, <2>2, FS_Subset
    <2>5. Cardinality(V) \in Nat
      BY <2>1, FS_CardinalityType
    <2>6. QED
      BY <1>1, <2>1, <2>3, <2>4, <2>5
  <1>3. Free \in SUBSET Nat
    BY <1>1
  <1>4. Min(Free) \in Free
    <2> HIDE DEF Free
    <2>1. QED
      BY <1>2, <1>3, NumbersHaveMin
  <1>5. next_version = IF LiveIds = {} THEN 1 ELSE Min(Free)
    BY DEF next_version
  <1>6. Min(Free) \in 2 .. MaxMappings + 2 /\ Min(Free) \notin labels
    BY <1>4
  <1> HIDE DEF Free
  <1>7. QED
    BY <1>1, <1>5, <1>6

LEMMA FlushStep ==
    ASSUME TypeInv, NEW t \in Threads, FlushKnowledge(t)
    PROVE  /\ TypeInv' /\ th[t].pc = "idle" /\ th'[t].pc = "publish"
           /\ Added([status |-> "published", version |-> next_version, made |-> "onboarding", live |-> FALSE])
           /\ th'[t].n = next_version /\ th'[t].map = Len(mapping) + 1
           /\ LiveIds # {} => next_version # 1 /\ next_version \notin labels
           /\ cache' = 0 /\ UNCHANGED <<labels, recipe, request>>
  <1> DEFINE v == next_version
             m == [status |-> "published", version |-> v, made |-> "onboarding", live |-> FALSE]
             n == Len(mapping) + 1
             saw == recipe # 0
             r == [Idle EXCEPT !.pc = "publish", !.op = "publish", !.map = n, !.n = v, !.saw = saw]
  <1>1. /\ mapping' = Append(mapping, m) /\ Become(t, r) /\ Len(mapping) < MaxMappings
        /\ cache' = 0 /\ UNCHANGED <<labels, recipe, request, failures>> /\ th[t].pc = "idle"
    BY DEF FlushKnowledge, Starts
  <1>2. /\ v \in 1 .. MaxMappings + 2
        /\ LiveIds # {} => v # 1 /\ v \notin labels
    BY <1>1, NextVersion
  <1>3. Len(mapping) \in Nat /\ MaxMappings \in Nat
    BY TypeFacts
  <1>4. saw \in BOOLEAN /\ v \in Nat /\ n \in Nat /\ n \in 1 .. n
    BY <1>2, <1>3
  <1> HIDE DEF v, saw, n
  <1>5. r \in FullRow /\ r.pc = "publish" /\ r.map = n /\ r.n = v /\ r.refs = {}
    BY <1>4, IdleParts DEF Idle, FullRow, Steps, Operations
  <1>6. m \in MappingRow /\ m.version = v /\ ~m.live
    BY <1>4, IdleParts DEF MappingRow
  <1> HIDE DEF r
  <1>7. Grows /\ Added(m)
    <2> HIDE DEF m
    <2>1. QED
      BY <1>1, <1>6, RowAdded
  <1>8. Bounded
    BY <1>1, <1>7, SameRefsBounded
  <1>9. Fits(r)
    <2> HIDE DEF m
    <2>1. Len(mapping') = n /\ n \in MapIds' /\ mapping'[n] = m
      BY <1>3, <1>7 DEF Added, n
    <2>2. QED
      BY <1>2, <1>4, <1>5, <1>6, <2>1 DEF Fits
  <1>10. TypeInv' /\ th'[t] = r
    BY <1>1, <1>7, <1>8, <1>9, TypeStep
  <1>11. QED
    BY <1>1, <1>2, <1>5, <1>7, <1>10 DEF v, n, m

LEMMA PublishStep ==
    ASSUME TypeInv, NEW t \in Threads, publish_mapping_knowledge(t)
    PROVE  /\ TypeInv' /\ th[t].pc = "publish" /\ MapIds' = MapIds
           /\ th[t].map \in MapIds /\ mapping[th[t].map].version = th[t].n
           /\ th'[t].pc \in {"idle", "forget"}
           /\ UNCHANGED <<request, cache>>
           /\ \/ UNCHANGED <<mapping, labels, recipe>>
              \/ /\ th[t].n = 1 \/ th[t].n \notin labels
                 /\ Replaced(th[t].map, [mapping[th[t].map] EXCEPT !.live = TRUE])
                 /\ recipe' = th[t].map /\ recipe' \in LiveIds' /\ LiveIds \subseteq LiveIds'
                 /\ labels' = labels \cup {1, th[t].n}
  <1> DEFINE k == th[t].map
             m == [mapping[k] EXCEPT !.live = TRUE]
             r == [th[t] EXCEPT !.pc = "forget"]
  <1>1. /\ th[t] \in FullRow /\ Remembers(t) /\ th[t].pc = "publish"
        /\ UNCHANGED <<request, cache, failures>>
    BY TypeFacts DEF TypeInv, publish_mapping_knowledge, Aborts
  <1>2. k \in MapIds /\ mapping[k].version = th[t].n /\ th[t].n \in 1 .. MaxMappings + 2
    BY <1>1 DEF Remembers
  <1>3. r \in FullRow /\ r.pc = "forget" /\ r.map = k /\ r.refs = th[t].refs
    BY <1>1 DEF FullRow, Steps
  <1>4. CASE Aborts(t)
    <2>1. Become(t, Idle) /\ UNCHANGED <<mapping, labels, request, recipe, cache, failures>>
      BY <1>1, <1>4 DEF Aborts
    <2>2. failures' \in 0 .. MaxFailures
      BY <2>1 DEF TypeInv
    <2>3. TypeInv' /\ Moved(t, Idle) /\ LiveIds' = LiveIds /\ MapIds' = MapIds
      BY <2>1, <2>2, EndStep
    <2>4. QED
      BY <1>1, <1>2, <2>1, <2>3, IdleParts DEF Moved
  <1>5. CASE /\ th[t].n = 1 \/ th[t].n \notin labels
             /\ mapping' = [mapping EXCEPT ![k].live = TRUE]
             /\ labels' = labels \cup {1, th[t].n} /\ recipe' = k
             /\ Become(t, r) \/ Become(t, Idle)
    <2>1. mapping[k] \in MappingRow
      BY <1>2, TypeFacts
    <2>2. m \in MappingRow /\ m.version = mapping[k].version /\ m.live
      BY <2>1 DEF MappingRow
    <2>3. mapping' = [mapping EXCEPT ![k] = m]
      BY <1>5
    <2> HIDE DEF m, k, r
    <2>4. Grows /\ Replaced(k, m)
      BY <1>2, <2>2, <2>3, RowReplaced
    <2>5. Len(mapping') = Len(mapping) /\ MapIds' = MapIds /\ Len(mapping) \in Nat /\ k \in 1 .. Len(mapping)
      BY <1>2, <2>4, TypeFacts DEF Replaced
    <2>6. Bounded
      <3>1. Len(request) <= Len(request')
        BY <1>1, TypeFacts
      <3>2. QED
        BY <1>1, <1>5, <2>5, <3>1 DEF Bounded, TypeInv
    <2>7. Fits(r) /\ Fits(Idle)
      <3>1. r.map <= Len(mapping') /\ r.refs \subseteq DOMAIN request'
        BY <1>1, <1>3, <2>5 DEF Remembers
      <3>2. QED
        BY <1>3, <2>5, <3>1, IdleFits DEF Fits
    <2>8. \E l \in MapIds' : mapping'[l].version = th[t].n
      BY <1>2, <2>2, <2>4, <2>5 DEF Replaced
    <2>9. TypeInv' /\ (th'[t] = r \/ th'[t] = Idle)
      BY <1>2, <1>5, <2>4, <2>6, <2>7, <2>8, TypeStep
    <2>10. k \in LiveIds' /\ LiveIds \subseteq LiveIds'
      BY <2>2, <2>4 DEF Replaced
    <2>11. QED
      BY <1>1, <1>2, <1>3, <1>5, <2>4, <2>5, <2>9, <2>10, IdleParts DEF k, m
  <1>6. QED
    BY <1>4, <1>5 DEF publish_mapping_knowledge, GoTo

-----------------------------------------------------------------------------
(* Approvals *)

LEMMA HighestVersion ==
    ASSUME TypeInv
    PROVE  LET top == Max({0} \cup {mapping[m].version : m \in LiveIds})
           IN  top \in Nat /\ \A m \in LiveIds : mapping[m].version <= top
  <1> DEFINE f == [m \in LiveIds |-> mapping[m].version]
             V == {f[m] : m \in LiveIds}
             W == {mapping[m].version : m \in LiveIds}
  <1>1. Len(mapping) \in Nat /\ MapIds = 1 .. Len(mapping) /\ LiveIds \subseteq MapIds
    BY TypeFacts
  <1>2. IsFiniteSet(V)
    <2> HIDE DEF f
    <2>1. LiveIds \in SUBSET (1 .. Len(mapping))
      BY <1>1
    <2>2. QED
      BY <1>1, <2>1, ValuesOfRows
  <1>3. V = W
    OBVIOUS
  <1>4. \A m \in LiveIds : mapping[m].version \in Nat /\ mapping[m].version \in W
    BY <1>1, TypeFacts DEF MappingRow
  <1>5. W \subseteq Nat
    BY <1>4
  <1> HIDE DEF V, W
  <1>6. IsFiniteSet({0} \cup W)
    BY <1>2, <1>3, FS_Singleton, FS_Union
  <1>7. Max({0} \cup W) \in Nat /\ \A y \in {0} \cup W : y <= Max({0} \cup W)
    <2>1. {0} \cup W \in SUBSET Nat /\ {0} \cup W # {}
      BY <1>5
    <2>2. Max({0} \cup W) \in {0} \cup W /\ \A y \in {0} \cup W : y <= Max({0} \cup W)
      BY <1>6, <2>1, FiniteSetHasMax
    <2>3. QED
      BY <2>1, <2>2
  <1>8. QED
    BY <1>4, <1>7 DEF W

LEMMA BaselineStep ==
    ASSUME TypeInv, NEW t \in Threads, ReadBaseline(t)
    PROVE  /\ TypeInv' /\ th[t].pc = "idle" /\ th'[t].pc = "version"
           /\ \A m \in LiveIds : mapping[m].version < th'[t].n
           /\ UNCHANGED <<mapping, labels, recipe, request, cache>>
  <1> DEFINE top == Max({0} \cup {mapping[m].version : m \in LiveIds})
  <1>1. PICK q \in DOMAIN request :
          Become(t, [Idle EXCEPT !.pc = "version", !.op = "approve", !.refs = {q}, !.n = top + 1])
    BY DEF ReadBaseline
  <1>2. top \in Nat /\ \A m \in LiveIds : mapping[m].version <= top
    BY HighestVersion
  <1> HIDE DEF top
  <1> DEFINE r == [Idle EXCEPT !.pc = "version", !.op = "approve", !.refs = {q}, !.n = top + 1]
  <1>3. \A m \in LiveIds : mapping[m].version < top + 1
    BY <1>2, TypeFacts DEF MappingRow
  <1>4. {q} \in SUBSET Nat /\ {q} \subseteq DOMAIN request /\ top + 1 \in Nat
    BY <1>2, TypeFacts
  <1>5. r \in FullRow /\ r.pc = "version" /\ r.n = top + 1 /\ r.map = 0 /\ r.refs = {q}
    BY <1>4, IdleParts DEF Idle, FullRow, Steps, Operations
  <1>6. Become(t, r) /\ UNCHANGED <<mapping, labels, recipe, request, cache, failures>> /\ th[t].pc = "idle"
    BY <1>1 DEF ReadBaseline, Starts
  <1> HIDE DEF r
  <1>7. r.map <= Len(mapping)
    BY <1>5, TypeFacts
  <1>8. TypeInv' /\ Moved(t, r)
    BY <1>4, <1>5, <1>6, <1>7, MoveStep
  <1>9. QED
    BY <1>3, <1>5, <1>6, <1>8 DEF Moved

LEMMA VersionStep ==
    ASSUME TypeInv, NEW t \in Threads, _create_versioned_mapping(t)
    PROVE  /\ TypeInv' /\ th[t].pc = "version" /\ th'[t].pc = "forgetVersion"
           /\ Added([status |-> "published", version |-> th[t].n, made |-> "approval", live |-> TRUE])
           /\ UNCHANGED <<labels, recipe, request, cache>>
  <1> DEFINE m == [status |-> "published", version |-> th[t].n, made |-> "approval", live |-> TRUE]
             n == Len(mapping) + 1
             r == [th[t] EXCEPT !.pc = "forgetVersion", !.map = n]
  <1>1. /\ mapping' = Append(mapping, m) /\ Become(t, r) /\ Len(mapping) < MaxMappings
        /\ UNCHANGED <<labels, recipe, request, cache, failures>> /\ th[t].pc = "version"
    BY DEF _create_versioned_mapping
  <1>2. th[t] \in FullRow /\ Remembers(t) /\ Len(mapping) \in Nat
    BY TypeFacts DEF TypeInv
  <1>3. n \in Nat
    BY <1>2
  <1>4. m \in MappingRow
    BY <1>2, IdleParts DEF MappingRow, FullRow
  <1> HIDE DEF n
  <1>5. r \in FullRow /\ r.pc = "forgetVersion" /\ r.map = n /\ r.refs = th[t].refs
    BY <1>2, <1>3 DEF FullRow, Steps
  <1> HIDE DEF r
  <1>6. Grows /\ Added(m)
    <2> HIDE DEF m
    <2>1. QED
      BY <1>1, <1>4, RowAdded
  <1>7. Bounded
    BY <1>1, <1>6, SameRefsBounded
  <1>8. Fits(r)
    <2>1. r.map <= Len(mapping') /\ r.refs \subseteq DOMAIN request'
      BY <1>1, <1>2, <1>3, <1>5, <1>6 DEF Added, Remembers, n
    <2>2. QED
      BY <1>5, <2>1 DEF Fits
  <1>9. TypeInv' /\ th'[t] = r
    BY <1>1, <1>6, <1>7, <1>8, TypeStep
  <1>10. QED
    BY <1>1, <1>5, <1>6, <1>9

LEMMA RecipeStep ==
    ASSUME TypeInv, NEW t \in Threads, ReadRecipe(t)
    PROVE  /\ TypeInv' /\ th[t].pc = "readRecipe" /\ th'[t].pc = "rebind"
           /\ cache' \in {0, cache}
           /\ UNCHANGED <<mapping, labels, recipe, request>>
  <1> DEFINE saw == recipe # 0
             r == [th[t] EXCEPT !.pc = "rebind", !.saw = saw]
  <1>1. /\ Become(t, r) /\ cache' \in {0, cache} /\ th[t].pc = "readRecipe"
        /\ UNCHANGED <<mapping, labels, recipe, request, failures>>
    BY DEF ReadRecipe
  <1>2. th[t] \in FullRow /\ Remembers(t) /\ saw \in BOOLEAN
    BY TypeFacts DEF TypeInv
  <1> HIDE DEF saw
  <1>3. r \in FullRow /\ r.pc = "rebind" /\ r.map = th[t].map /\ r.refs = th[t].refs
    BY <1>2 DEF FullRow, Steps
  <1> HIDE DEF r
  <1>4. TypeInv' /\ Moved(t, r)
    BY <1>1, <1>2, <1>3, MoveStep DEF Remembers
  <1>5. QED
    BY <1>1, <1>3, <1>4 DEF Moved

(* A request is closed: nothing else of it changes. *)
Closes(q) ==
    /\ request' \in Seq(RequestRow) /\ Len(request') = Len(request) /\ DOMAIN request' = DOMAIN request
    /\ \A p \in DOMAIN request : /\ request'[p].map = request[p].map
                                 /\ request'[p].open => request[p].open
    /\ \A p \in DOMAIN request : p # q => request'[p] = request[p]

LEMMA RequestClosed ==
    ASSUME TypeInv, NEW q, request' = [request EXCEPT ![q].open = FALSE]
    PROVE  Closes(q)
  <1> DEFINE p == [request[q] EXCEPT !.open = FALSE]
  <1>1. DOMAIN request = 1 .. Len(request) /\ Len(request) \in Nat
    BY TypeFacts
  <1>2. CASE q \in DOMAIN request
    <2>1. request[q] \in RequestRow
      BY <1>2, TypeFacts
    <2>2. p \in RequestRow /\ p.map = request[q].map /\ ~p.open
      BY <2>1 DEF RequestRow
    <2>3. request' = [request EXCEPT ![q] = p]
      OBVIOUS
    <2> HIDE DEF p
    <2>4. /\ request' \in Seq(RequestRow) /\ Len(request') = Len(request)
          /\ request'[q] = p /\ \A s \in 1 .. Len(request) : s # q => request'[s] = request[s]
      <3>1. request \in Seq(RequestRow) /\ q \in 1 .. Len(request)
        BY <1>1, <1>2 DEF TypeInv
      <3>2. /\ [request EXCEPT ![q] = p] \in Seq(RequestRow)
            /\ Len([request EXCEPT ![q] = p]) = Len(request)
            /\ \A j \in 1 .. Len(request) : [request EXCEPT ![q] = p][j] = IF j = q THEN p ELSE request[j]
        BY <2>2, <3>1, ExceptSeq
      <3>3. QED
        BY <2>3, <3>1, <3>2
    <2>5. DOMAIN request' = DOMAIN request
      BY <1>1, <2>4
    <2>6. QED
      BY <1>1, <2>2, <2>4, <2>5 DEF Closes
  <1>3. CASE q \notin DOMAIN request
    <2>1. request = [s \in DOMAIN request |-> request[s]] /\ request \in Seq(RequestRow)
      BY <1>1 DEF TypeInv
    <2>2. request' = request
      BY <1>3, <2>1
    <2>3. QED
      BY <2>1, <2>2 DEF Closes
  <1>4. QED
    BY <1>2, <1>3

LEMMA ApproveStep ==
    ASSUME TypeInv, NEW t \in Threads, ApproveRequest(t)
    PROVE  /\ TypeInv' /\ th[t].pc = "rebind" /\ th'[t].pc = "idle"
           /\ UNCHANGED <<mapping, labels, cache>>
           /\ recipe' = recipe \/ (recipe' = th[t].map /\ (ForeignKeys => recipe' \in LiveIds))
           /\ DOMAIN request' = DOMAIN request
           /\ \A p \in DOMAIN request : /\ request'[p].map = request[p].map
                                        /\ request'[p].open => request[p].open
  <1> DEFINE q == CHOOSE p \in th[t].refs : TRUE
  <1>1. /\ th[t].pc = "rebind" /\ Become(t, Idle) /\ UNCHANGED <<mapping, labels, cache, failures>>
        /\ \/ UNCHANGED <<recipe, request>>
           \/ /\ recipe' = recipe \/ (recipe' = th[t].map /\ (ForeignKeys => recipe' \in LiveIds))
              /\ request' = [request EXCEPT ![q].open = FALSE]
    BY DEF ApproveRequest, Aborts
  <1> HIDE DEF q
  <1>2. request' = request \/ Closes(q)
    BY <1>1, RequestClosed
  <1>3. Grows
    BY <1>1, SameRows
  <1>4. Bounded
    <2>1. /\ request' \in Seq(RequestRow) /\ Len(request') = Len(request) /\ Len(request) \in Nat
          /\ Len(request) <= MaxRequests
      BY <1>2, TypeFacts DEF Closes, TypeInv
    <2>2. th[t].map \in 0 .. Len(mapping)
      BY TypeFacts DEF TypeInv, Remembers, FullRow
    <2>3. QED
      BY <1>1, <2>1, <2>2 DEF Bounded, TypeInv
  <1>5. Fits(Idle)
    BY <1>1, TypeFacts, IdleFits
  <1>6. TypeInv' /\ th'[t] = Idle
    BY <1>1, <1>3, <1>4, <1>5, TypeStep
  <1>7. QED
    BY <1>1, <1>2, <1>6, IdleParts DEF Closes

-----------------------------------------------------------------------------
(* Recipes *)

LEMMA ValidateStep ==
    ASSUME TypeInv, NEW t \in Threads, ValidateBinding(t)
    PROVE  /\ TypeInv' /\ th[t].pc = "idle" /\ th'[t].pc = "bind"
           /\ UNCHANGED <<mapping, labels, recipe, request, cache>>
  <1> DEFINE saw == recipe # 0
  <1>1. PICK m \in LiveIds :
          Become(t, [Idle EXCEPT !.pc = "bind", !.op = "recipe", !.map = m, !.saw = saw])
    BY DEF ValidateBinding
  <1> DEFINE r == [Idle EXCEPT !.pc = "bind", !.op = "recipe", !.map = m, !.saw = saw]
  <1>2. m \in Nat /\ m <= Len(mapping) /\ saw \in BOOLEAN
    BY TypeFacts
  <1> HIDE DEF saw
  <1>3. r \in FullRow /\ r.pc = "bind" /\ r.map = m /\ r.refs = {}
    BY <1>2, IdleParts DEF Idle, FullRow, Steps, Operations
  <1>4. Become(t, r) /\ UNCHANGED <<mapping, labels, recipe, request, cache, failures>> /\ th[t].pc = "idle"
    BY <1>1 DEF ValidateBinding, Starts
  <1> HIDE DEF r
  <1>5. TypeInv' /\ Moved(t, r)
    BY <1>2, <1>3, <1>4, MoveStep
  <1>6. QED
    BY <1>3, <1>4, <1>5 DEF Moved

LEMMA BindStep ==
    ASSUME TypeInv, NEW t \in Threads, create_recipe(t)
    PROVE  /\ TypeInv' /\ th[t].pc = "bind" /\ th'[t].pc \in {"idle", "forget"}
           /\ UNCHANGED <<mapping, labels, request, cache>>
           /\ recipe' = recipe \/ (ForeignKeys => recipe' \in LiveIds)
  <1> DEFINE r == [th[t] EXCEPT !.pc = "forget"]
  <1>1. /\ th[t].pc = "bind" /\ UNCHANGED <<mapping, labels, request, cache, failures>>
        /\ \/ Become(t, Idle) /\ recipe' = recipe
           \/ Become(t, r) /\ recipe' = th[t].map /\ (ForeignKeys => recipe' \in LiveIds)
    BY DEF create_recipe, Aborts, GoTo
  <1>2. th[t] \in FullRow /\ Remembers(t)
    BY TypeFacts DEF TypeInv
  <1>3. r \in FullRow /\ r.pc = "forget" /\ r.map = th[t].map /\ r.refs = th[t].refs
    BY <1>2 DEF FullRow, Steps
  <1> HIDE DEF r
  <1>4. CASE Become(t, Idle) /\ recipe' = recipe
    <2>1. failures' \in 0 .. MaxFailures
      BY <1>1 DEF TypeInv
    <2>2. TypeInv' /\ Moved(t, Idle)
      BY <1>1, <1>4, <2>1, EndStep
    <2>3. QED
      BY <1>1, <2>2, IdleParts DEF Moved
  <1>5. CASE Become(t, r) /\ recipe' = th[t].map /\ (ForeignKeys => recipe' \in LiveIds)
    <2>1. TypeInv' /\ Moved(t, r)
      BY <1>1, <1>2, <1>3, <1>5, MoveStep DEF Remembers
    <2>2. QED
      BY <1>1, <1>3, <1>5, <2>1 DEF Moved
  <1>6. QED
    BY <1>1, <1>4, <1>5

LEMMA UnbindStep ==
    ASSUME TypeInv, NEW t \in Threads, delete_recipe(t)
    PROVE  /\ TypeInv' /\ th[t].pc = "idle" /\ th'[t].pc = "forget"
           /\ recipe' = 0 /\ UNCHANGED <<mapping, labels, request, cache>>
  <1> DEFINE r == [Idle EXCEPT !.pc = "forget", !.op = "unbind"]
  <1>1. /\ Become(t, r) /\ recipe' = 0 /\ th[t].pc = "idle"
        /\ UNCHANGED <<mapping, labels, request, cache, failures>>
    BY DEF delete_recipe, Starts
  <1>2. r \in FullRow /\ r.pc = "forget" /\ r.map = 0 /\ r.refs = {}
    BY IdleParts DEF Idle, FullRow, Steps, Operations
  <1> HIDE DEF r
  <1>3. r.map <= Len(mapping)
    BY <1>2, TypeFacts
  <1>4. TypeInv' /\ Moved(t, r)
    BY <1>1, <1>2, <1>3, MoveStep
  <1>5. QED
    BY <1>1, <1>2, <1>4 DEF Moved

-----------------------------------------------------------------------------
(* The engine *)

LEMMA LookupStep ==
    ASSUME TypeInv, NEW t \in Threads, _lookup_mapping(t)
    PROVE  /\ TypeInv' /\ th[t].pc = "idle"
           /\ UNCHANGED <<mapping, labels, recipe, request, cache>>
           /\ \/ th'[t].pc \in {"idle", "lookup"}
              \/ th'[t].pc = "resolved" /\ th'[t].map \in LiveIds
  <1> DEFINE r == [Idle EXCEPT !.pc = "resolved", !.op = "resolve", !.map = recipe]
             s == [Idle EXCEPT !.pc = "lookup", !.op = "resolve"]
  <1>1. /\ UNCHANGED <<mapping, labels, recipe, request, cache, failures>> /\ th[t].pc = "idle"
        /\ \/ recipe \in LiveIds /\ Become(t, r)
           \/ Become(t, s)
           \/ UNCHANGED th
    BY DEF _lookup_mapping, Starts
  <1>2. recipe \in Nat /\ recipe <= Len(mapping)
    BY TypeFacts DEF TypeInv
  <1>3. r \in FullRow /\ r.pc = "resolved" /\ r.map = recipe /\ r.refs = {}
    BY <1>2, IdleParts DEF Idle, FullRow, Steps, Operations
  <1>4. s \in FullRow /\ s.pc = "lookup" /\ s.map = 0 /\ s.refs = {}
    BY IdleParts DEF Idle, FullRow, Steps, Operations
  <1> HIDE DEF r, s
  <1>5. CASE recipe \in LiveIds /\ Become(t, r)
    <2>1. TypeInv' /\ Moved(t, r)
      BY <1>1, <1>2, <1>3, <1>5, MoveStep
    <2>2. QED
      BY <1>1, <1>3, <1>5, <2>1 DEF Moved
  <1>6. CASE Become(t, s)
    <2>1. s.map <= Len(mapping)
      BY <1>4, TypeFacts
    <2>2. TypeInv' /\ Moved(t, s)
      BY <1>1, <1>4, <1>6, <2>1, MoveStep
    <2>3. QED
      BY <1>1, <1>4, <2>2 DEF Moved
  <1>7. CASE UNCHANGED th
    <2>1. th[t] \in FullRow /\ Remembers(t) /\ Become(t, th[t])
      BY <1>7, TypeFacts DEF Become, TypeInv
    <2>2. th[t].pc # "publish"
      BY <1>1
    <2>3. TypeInv' /\ Moved(t, th[t])
      BY <1>1, <2>1, <2>2, MoveStep DEF Remembers
    <2>4. QED
      BY <1>1, <1>7, <2>3
  <1>8. QED
    BY <1>1, <1>5, <1>6, <1>7

IsNewest(c) == \A m \in MapIds : IsActive(m) => m <= c

LEMMA FindActive ==
    ASSUME TypeInv
    PROVE  /\ find_active_mapping \in Nat /\ find_active_mapping <= Len(mapping)
           /\ IsNewest(find_active_mapping)
           /\ find_active_mapping # 0 => IsActive(find_active_mapping)
  <1> DEFINE A == {m \in MapIds : IsActive(m)}
             S == {0} \cup A
  <1>1. Len(mapping) \in Nat /\ MapIds = 1 .. Len(mapping)
    BY TypeFacts
  <1>2. A \subseteq 0 .. Len(mapping) /\ S \subseteq 0 .. Len(mapping) /\ S # {}
    BY <1>1
  <1>3. find_active_mapping = Max(S)
    BY DEF find_active_mapping
  <1>4. \A m \in MapIds : IsActive(m) => m \in S
    OBVIOUS
  <1>5. \A c : IsActive(c) => c \in MapIds /\ c # 0
    BY TypeFacts DEF IsActive
  <1>6. \A c \in S : c = 0 \/ (c \in MapIds /\ IsActive(c))
    OBVIOUS
  <1> HIDE DEF S, A
  <1>7. IsFiniteSet(S) /\ S \in SUBSET Nat
    <2>1. IsFiniteSet(0 .. Len(mapping))
      BY <1>1, FS_Interval
    <2>2. 0 .. Len(mapping) \subseteq Nat
      BY <1>1
    <2>3. QED
      BY <1>2, <2>1, <2>2, FS_Subset
  <1>8. Max(S) \in S /\ \A y \in S : y <= Max(S)
    BY <1>2, <1>7, FiniteSetHasMax
  <1> DEFINE top == Max(S)
  <1>9. top \in 0 .. Len(mapping) /\ top \in S /\ \A y \in S : y <= top
    BY <1>2, <1>8
  <1> HIDE DEF top
  <1>10. /\ find_active_mapping \in Nat /\ find_active_mapping <= Len(mapping)
         /\ IsNewest(find_active_mapping)
    <2>1. top \in Nat /\ top <= Len(mapping) /\ IsNewest(top)
      BY <1>1, <1>4, <1>9 DEF IsNewest
    <2>2. QED
      BY <1>3, <2>1 DEF top
  <1>11. find_active_mapping # 0 => IsActive(find_active_mapping)
    BY <1>3, <1>6, <1>9 DEF top
  <1>12. QED
    BY <1>10, <1>11

LEMMA FindStep ==
    ASSUME TypeInv, NEW t \in Threads, find_cached_or_lookup(t)
    PROVE  /\ TypeInv' /\ th[t].pc = "lookup"
           /\ UNCHANGED <<mapping, labels, recipe, request, cache>>
           /\ \/ th'[t].pc = "idle"
              \/ th'[t].pc = "resolved" /\ th'[t].map \in LiveIds
              \/ th'[t].pc = "fill" /\ th'[t].map \in LiveIds /\ IsNewest(th'[t].map)
  <1> DEFINE found == find_active_mapping
             r == [th[t] EXCEPT !.pc = "resolved", !.map = cache]
             s == [th[t] EXCEPT !.pc = "fill", !.map = found]
  <1>1. /\ UNCHANGED <<mapping, labels, recipe, request, cache, failures>> /\ th[t].pc = "lookup"
        /\ \/ IsActive(cache) /\ Become(t, r)
           \/ found # 0 /\ Become(t, s)
           \/ Become(t, Idle)
    BY DEF find_cached_or_lookup
  <1>2. th[t] \in FullRow /\ Remembers(t)
    BY TypeFacts DEF TypeInv
  <1>3. cache \in Nat /\ cache <= Len(mapping) /\ (IsActive(cache) => cache \in LiveIds)
    BY TypeFacts DEF TypeInv, IsActive
  <1>4. found \in Nat /\ found <= Len(mapping) /\ IsNewest(found) /\ (found # 0 => found \in LiveIds)
    BY FindActive DEF IsActive
  <1> HIDE DEF found
  <1>5. r \in FullRow /\ r.pc = "resolved" /\ r.map = cache /\ r.refs = th[t].refs
    BY <1>2, <1>3 DEF FullRow, Steps
  <1>6. s \in FullRow /\ s.pc = "fill" /\ s.map = found /\ s.refs = th[t].refs
    BY <1>2, <1>4 DEF FullRow, Steps
  <1> HIDE DEF r, s
  <1>7. CASE IsActive(cache) /\ Become(t, r)
    <2>1. TypeInv' /\ Moved(t, r)
      BY <1>1, <1>2, <1>3, <1>5, <1>7, MoveStep DEF Remembers
    <2>2. QED
      BY <1>1, <1>3, <1>5, <1>7, <2>1 DEF Moved
  <1>8. CASE found # 0 /\ Become(t, s)
    <2>1. TypeInv' /\ Moved(t, s)
      BY <1>1, <1>2, <1>4, <1>6, <1>8, MoveStep DEF Remembers
    <2>2. QED
      BY <1>1, <1>4, <1>6, <1>8, <2>1 DEF Moved
  <1>9. CASE Become(t, Idle)
    <2>1. failures' \in 0 .. MaxFailures
      BY <1>1 DEF TypeInv
    <2>2. TypeInv' /\ Moved(t, Idle)
      BY <1>1, <1>9, <2>1, EndStep
    <2>3. QED
      BY <1>1, <2>2, IdleParts DEF Moved
  <1>10. QED
    BY <1>1, <1>7, <1>8, <1>9

LEMMA FillStep ==
    ASSUME TypeInv, NEW t \in Threads, cache_active_mapping_id(t)
    PROVE  /\ TypeInv' /\ th[t].pc = "fill" /\ th'[t].pc = "resolved" /\ th'[t].map = th[t].map
           /\ cache' = th[t].map /\ UNCHANGED <<mapping, labels, recipe, request>>
  <1> DEFINE r == [th[t] EXCEPT !.pc = "resolved"]
  <1>1. /\ Become(t, r) /\ cache' = th[t].map /\ th[t].pc = "fill"
        /\ UNCHANGED <<mapping, labels, recipe, request, failures>>
    BY DEF cache_active_mapping_id, GoTo
  <1>2. th[t] \in FullRow /\ Remembers(t)
    BY TypeFacts DEF TypeInv
  <1>3. r \in FullRow /\ r.pc = "resolved" /\ r.map = th[t].map /\ r.refs = th[t].refs
    BY <1>2 DEF FullRow, Steps
  <1> HIDE DEF r
  <1>4. TypeInv' /\ Moved(t, r)
    BY <1>1, <1>2, <1>3, MoveStep DEF Remembers
  <1>5. QED
    BY <1>1, <1>3, <1>4 DEF Moved

LEMMA RaiseStep ==
    ASSUME TypeInv, NEW t \in Threads, create_drift(t)
    PROVE  /\ TypeInv' /\ th[t].pc = "resolved" /\ th'[t].pc = "idle"
           /\ UNCHANGED <<mapping, labels, recipe, cache>>
           /\ \A q \in DOMAIN request' : \/ q \in DOMAIN request /\ request'[q] = request[q]
                                         \/ request'[q].map = th[t].map
           /\ ForeignKeys => th[t].map \in LiveIds
  <1> DEFINE m == th[t].map
             p == [map |-> m, open |-> TRUE]
  <1>1. /\ th[t].pc = "resolved" /\ Become(t, Idle) /\ (ForeignKeys => m \in LiveIds)
        /\ UNCHANGED <<mapping, labels, recipe, cache, failures>>
        /\ \/ Len(request) < MaxRequests /\ request' = Append(request, p)
           \/ \E q \in DOMAIN request : request' = [request EXCEPT ![q].map = m]
    BY DEF create_drift
  <1>2. m \in Nat /\ request \in Seq(RequestRow)
    BY TypeFacts DEF FullRow, TypeInv
  <1>3. DOMAIN request = 1 .. Len(request) /\ Len(request) \in Nat /\ MaxRequests \in Nat
    BY TypeFacts
  <1> DEFINE Rest == /\ request' \in Seq(RequestRow)
                     /\ Len(request) <= Len(request') /\ Len(request') <= MaxRequests
                     /\ \A q \in DOMAIN request' : \/ q \in DOMAIN request /\ request'[q] = request[q]
                                                   \/ request'[q].map = m
  <1>4. Rest
    <2>1. CASE Len(request) < MaxRequests /\ request' = Append(request, p)
      <3>1. p \in RequestRow /\ p.map = m
        BY <1>2 DEF RequestRow
      <3> HIDE DEF p
      <3>2. /\ request' \in Seq(RequestRow) /\ Len(request') = Len(request) + 1
            /\ \A q \in 1 .. Len(request) : request'[q] = request[q]
            /\ request'[Len(request) + 1] = p
        BY <1>2, <2>1, <3>1, AppendProperties
      <3>3. \A q \in DOMAIN request' : q \in DOMAIN request \/ q = Len(request) + 1
        BY <1>3, <3>2
      <3>4. Len(request) <= Len(request') /\ Len(request') <= MaxRequests
        BY <1>3, <2>1, <3>2
      <3>5. QED
        BY <1>3, <3>1, <3>2, <3>3, <3>4
    <2>2. ASSUME NEW q \in DOMAIN request, request' = [request EXCEPT ![q].map = m] PROVE Rest
      <3> DEFINE s == [request[q] EXCEPT !.map = m]
      <3>1. request[q] \in RequestRow
        BY TypeFacts
      <3>2. s \in RequestRow /\ s.map = m
        BY <1>2, <3>1 DEF RequestRow
      <3>3. request' = [request EXCEPT ![q] = s] /\ q \in 1 .. Len(request)
        BY <1>3, <2>2
      <3> HIDE DEF s
      <3>4. /\ [request EXCEPT ![q] = s] \in Seq(RequestRow)
            /\ Len([request EXCEPT ![q] = s]) = Len(request)
            /\ \A j \in 1 .. Len(request) : [request EXCEPT ![q] = s][j] = IF j = q THEN s ELSE request[j]
        BY <1>2, <3>2, <3>3, ExceptSeq
      <3>5. /\ request' \in Seq(RequestRow) /\ Len(request') = Len(request)
            /\ \A j \in 1 .. Len(request) : request'[j] = IF j = q THEN s ELSE request[j]
        BY <3>3, <3>4
      <3>6. DOMAIN request' = 1 .. Len(request)
        BY <3>5
      <3>7. Len(request) <= MaxRequests
        BY DEF TypeInv
      <3>8. QED
        BY <1>3, <3>2, <3>5, <3>6, <3>7
    <2>3. QED
      BY <1>1, <2>1, <2>2
  <1>5. Grows
    BY <1>1, SameRows
  <1>6. Bounded
    BY <1>1, <1>4 DEF Bounded, TypeInv
  <1>7. Fits(Idle)
    BY <1>1, TypeFacts, IdleFits
  <1>8. TypeInv' /\ th'[t] = Idle
    BY <1>1, <1>5, <1>6, <1>7, TypeStep
  <1>9. QED
    BY <1>1, <1>4, <1>8, IdleParts

LEMMA RejectStep ==
    ASSUME TypeInv, NEW t \in Threads, reject_drift(t)
    PROVE  /\ TypeInv' /\ th[t].pc = "idle"
           /\ UNCHANGED <<mapping, labels, recipe, cache, th>>
           /\ DOMAIN request' = DOMAIN request
           /\ \A p \in DOMAIN request : /\ request'[p].map = request[p].map
                                        /\ request'[p].open => request[p].open
  <1>1. PICK q \in DOMAIN request : request' = [request EXCEPT ![q].open = FALSE]
    BY DEF reject_drift
  <1>2. th[t].pc = "idle" /\ UNCHANGED <<mapping, labels, recipe, cache, th, failures>>
    BY DEF reject_drift, Starts
  <1>3. Closes(q)
    BY <1>1, RequestClosed
  <1>4. Grows
    BY <1>2, SameRows
  <1>5. Bounded
    <2>1. Len(request') <= MaxRequests /\ Len(request) <= Len(request')
      BY <1>3, TypeFacts DEF Closes, TypeInv
    <2>2. QED
      BY <1>2, <1>3, <2>1 DEF Bounded, TypeInv, Closes
  <1>6. th[t] \in FullRow /\ Remembers(t) /\ Become(t, th[t])
    BY <1>2, TypeFacts DEF Become, TypeInv
  <1>7. Fits(th[t])
    BY <1>2, <1>3, <1>6 DEF Fits, Remembers, Closes
  <1>8. TypeInv'
    BY <1>2, <1>4, <1>5, <1>6, <1>7, TypeStep
  <1>9. QED
    BY <1>2, <1>3, <1>8 DEF Closes

LEMMA UseStep ==
    ASSUME TypeInv, NEW t \in Threads, UseMapping(t)
    PROVE  /\ TypeInv' /\ th[t].pc = "resolved" /\ th'[t].pc = "idle"
           /\ UNCHANGED <<mapping, labels, recipe, request, cache>>
  <1>1. /\ th[t].pc = "resolved" /\ Become(t, Idle)
        /\ UNCHANGED <<mapping, labels, recipe, request, cache, failures>>
    BY DEF UseMapping
  <1>2. failures' \in 0 .. MaxFailures
    BY <1>1 DEF TypeInv
  <1>3. QED
    BY <1>1, <1>2, EndStep, IdleParts DEF Moved

LEMMA FailStep ==
    ASSUME TypeInv, NEW t \in Threads, Fail(t)
    PROVE  /\ TypeInv' /\ MaxFailures # 0 /\ th'[t].pc = "idle"
           /\ UNCHANGED <<mapping, labels, recipe, request, cache>>
  <1>1. /\ failures < MaxFailures /\ failures' = failures + 1 /\ Become(t, Idle)
        /\ UNCHANGED <<mapping, labels, recipe, request, cache>>
    BY DEF Fail
  <1>2. failures' \in 0 .. MaxFailures /\ MaxFailures # 0
    BY <1>1, TypeFacts
  <1>3. QED
    BY <1>1, <1>2, EndStep, IdleParts DEF Moved

(* The entry expires, or nothing happens. *)
LEMMA TickStep ==
    ASSUME TypeInv, Expire \/ UNCHANGED vars
    PROVE  TypeInv' /\ cache' \in {0, cache} /\ UNCHANGED <<mapping, labels, recipe, request, th>>
  <1>1. cache' \in {0, cache} /\ UNCHANGED <<mapping, labels, recipe, request, th, failures>>
    BY DEF Expire, vars
  <1>2. Len(mapping) \in Nat
    BY TypeFacts
  <1>3. (\A t \in Threads : Remembers(t))'
    BY <1>1 DEF TypeInv, Remembers, MapIds
  <1>4. QED
    BY <1>1, <1>2, <1>3 DEF TypeInv, MapIds

LEMMA InitTypes == Init => TypeInv
  <1> SUFFICES ASSUME Init PROVE TypeInv
    OBVIOUS
  <1>1. /\ mapping = <<>> /\ labels = {} /\ recipe = 0 /\ request = <<>> /\ cache = 0
        /\ th = [t \in Threads |-> Idle] /\ failures = 0 /\ Len(<<>>) = 0 /\ DOMAIN <<>> = {}
    BY DEF Init
  <1>2. Idle \in FullRow /\ Idle.pc = "idle" /\ Idle.map = 0 /\ Idle.refs = {}
    BY IdleFits, IdleParts
  <1>3. \A t \in Threads : Remembers(t)
    BY <1>1, <1>2 DEF Remembers
  <1>4. MaxMappings \in Nat /\ MaxRequests \in Nat /\ MaxFailures \in Nat
    BY BoundsAssumption DEF BoundsAssumption
  <1>5. QED
    BY <1>1, <1>2, <1>3, <1>4 DEF TypeInv

LEMMA NextTypes == ASSUME TypeInv, [Next]_vars PROVE TypeInv'
  <1>1. CASE Expire \/ UNCHANGED vars
    BY <1>1, TickStep
  <1>2. ASSUME NEW t \in Threads, Begin(t) PROVE TypeInv'
    BY <1>2, CreateStep, LoadStep, CountStep, FlushStep, BaselineStep, ValidateStep, UnbindStep,
       LookupStep, RejectStep DEF Begin
  <1>3. ASSUME NEW t \in Threads, Work(t) PROVE TypeInv'
    <2>1. CASE Forget(t) \/ ForgetVersion(t)
      <3>1. {"idle", "readRecipe"} \subseteq Steps \ {"publish"}
        BY DEF Steps
      <3>2. QED
        BY <2>1, <3>1, ForgetStep DEF Forget, ForgetVersion
    <2>2. QED
      BY <1>3, <2>1, UpdateStep, CollectStep, DeleteStep, PublishStep, VersionStep, RecipeStep,
         ApproveStep, BindStep, FindStep, FillStep, UseStep, RaiseStep DEF Work
  <1>4. ASSUME NEW t \in Threads, Fail(t) PROVE TypeInv'
    BY <1>4, FailStep
  <1>5. QED
    BY <1>1, <1>2, <1>3, <1>4 DEF Next

(* Types of the catalogue: the next version is a number within the bound,  *)
(* the recipe and the cache name rows (next_version,                       *)
(* _create_versioned_mapping, cache_active_mapping_id).                    *)
THEOREM CatalogTypeCorrect == Spec => []TypeOK
  <1> DEFINE Inv == TypeInv /\ owed \in BOOLEAN
  <1>1. Init => Inv
    BY InitTypes DEF Init
  <1>2. Inv /\ [Next]_vars => Inv'
    BY NextTypes DEF Next, Owing, vars
  <1>3. Inv => TypeOK
    <2> SUFFICES ASSUME Inv PROVE TypeOK
      OBVIOUS
    <2>1. \A t \in Threads : th[t] \in FullRow /\ Remembers(t) /\ Len(mapping) \in Nat
      BY TypeFacts DEF TypeInv
    <2>2. \A t \in Threads : /\ th[t].pc \in Steps /\ th[t].map \in 0 .. Len(mapping)
                             /\ th[t].to \in MappingStatus /\ th[t].refs \subseteq DOMAIN request
      BY <2>1 DEF FullRow, Remembers
    <2>3. QED
      BY <2>2 DEF TypeInv, TypeOK
  <1> HIDE DEF Inv
  <1>4. QED
    BY <1>1, <1>2, <1>3, PTL DEF Spec

-----------------------------------------------------------------------------
(* One handler at a time *)

OneAtATime == \A t, u \in Threads : t = u

(* A deletion has seen that no open request is about its mapping, and      *)
(* takes along none that was not; an event is run through some mapping.    *)
DeleteIsSafe(t) ==
    /\ th[t].pc \in {"collect", "delete"} => OpenOn(th[t].map) = {}
    /\ th[t].pc = "delete" => \A q \in th[t].refs : request[q].map = th[t].map
    /\ th[t].pc \in {"fill", "resolved"} => th[t].map \in LiveIds

BaselineInv == TypeInv /\ BaselineExists /\ \A t \in Threads : DeleteIsSafe(t)

(* A step of the only handler that is between the others' commits. *)
LEMMA BaselineKept ==
    ASSUME TypeInv, NEW t \in Threads, BaselineExists, DeleteIsSafe(t), Begin(t) \/ Work(t) \/ Fail(t)
    PROVE  BaselineExists' /\ DeleteIsSafe(t)'
  <1>0. mapping' = mapping => LiveIds' = LiveIds
    BY DEF LiveIds, MapIds
  <1>1. CASE create_mapping(t)
    <2>1. LiveIds \subseteq LiveIds' /\ UNCHANGED <<request, th>>
      BY <1>1, CreateStep DEF Added
    <2>2. QED
      BY <2>1 DEF BaselineExists, DeleteIsSafe, OpenOn
  <1>2. CASE LoadStatus(t)
    BY <1>0, <1>2, LoadStep DEF BaselineExists, DeleteIsSafe
  <1>3. CASE CountOpenRefs(t)
    BY <1>0, <1>3, CountStep DEF BaselineExists, DeleteIsSafe, OpenOn
  <1>4. CASE FlushKnowledge(t)
    BY <1>4, FlushStep DEF BaselineExists, DeleteIsSafe, Added
  <1>5. CASE ReadBaseline(t)
    BY <1>0, <1>5, BaselineStep DEF BaselineExists, DeleteIsSafe
  <1>6. CASE ValidateBinding(t)
    BY <1>0, <1>6, ValidateStep DEF BaselineExists, DeleteIsSafe
  <1>7. CASE delete_recipe(t)
    BY <1>0, <1>7, UnbindStep DEF BaselineExists, DeleteIsSafe
  <1>8. CASE _lookup_mapping(t)
    BY <1>0, <1>8, LookupStep DEF BaselineExists, DeleteIsSafe
  <1>9. CASE reject_drift(t)
    BY <1>0, <1>9, RejectStep DEF BaselineExists, DeleteIsSafe
  <1>10. CASE update_mapping_status(t)
    BY <1>10, UpdateStep DEF BaselineExists, DeleteIsSafe
  <1>11. CASE CollectRefs(t)
    BY <1>0, <1>11, CollectStep DEF BaselineExists, DeleteIsSafe, OpenOn
  <1>12. CASE delete_mapping(t)
    <2>1. /\ th'[t].pc \in {"idle", "forget"} /\ DOMAIN request' = DOMAIN request
          /\ \A q \in DOMAIN request : request'[q].open = request[q].open
          /\ \A q \in DOMAIN request : q \notin th[t].refs => request'[q] = request[q]
      BY <1>12, DeleteStep
    <2>2. \A m \in LiveIds : m # th[t].map => m \in LiveIds'
      BY <1>0, <1>12, DeleteStep
    <2>3. \A q \in DOMAIN request : request[q].open => /\ q \notin th[t].refs
                                                     /\ request[q].map # th[t].map
      BY <1>12, DeleteStep DEF DeleteIsSafe, OpenOn
    <2>4. BaselineExists'
      BY <2>1, <2>2, <2>3 DEF BaselineExists
    <2>5. QED
      BY <2>1, <2>4 DEF DeleteIsSafe
  <1>13. CASE Forget(t) \/ ForgetVersion(t)
    <2>1. "idle" \in Steps \ {"publish"} /\ "readRecipe" \in Steps \ {"publish"}
      BY DEF Steps
    <2>2. UNCHANGED <<mapping, request>> /\ th'[t].pc \in {"idle", "readRecipe"}
      BY <1>13, <2>1, ForgetStep DEF Forget, ForgetVersion
    <2>3. QED
      BY <1>0, <2>2 DEF BaselineExists, DeleteIsSafe
  <1>14. CASE publish_mapping_knowledge(t)
    BY <1>0, <1>14, PublishStep DEF BaselineExists, DeleteIsSafe
  <1>15. CASE _create_versioned_mapping(t)
    BY <1>15, VersionStep DEF BaselineExists, DeleteIsSafe, Added
  <1>16. CASE ReadRecipe(t)
    BY <1>0, <1>16, RecipeStep DEF BaselineExists, DeleteIsSafe
  <1>17. CASE ApproveRequest(t)
    BY <1>0, <1>17, ApproveStep DEF BaselineExists, DeleteIsSafe
  <1>18. CASE create_recipe(t)
    BY <1>0, <1>18, BindStep DEF BaselineExists, DeleteIsSafe
  <1>19. CASE find_cached_or_lookup(t)
    BY <1>0, <1>19, FindStep DEF BaselineExists, DeleteIsSafe
  <1>20. CASE cache_active_mapping_id(t)
    BY <1>0, <1>20, FillStep DEF BaselineExists, DeleteIsSafe
  <1>21. CASE UseMapping(t)
    BY <1>0, <1>21, UseStep DEF BaselineExists, DeleteIsSafe
  <1>22. CASE create_drift(t)
    BY <1>0, <1>22, RaiseStep DEF BaselineExists, DeleteIsSafe
  <1>23. CASE Fail(t)
    BY <1>0, <1>23, FailStep DEF BaselineExists, DeleteIsSafe
  <1>24. QED
    BY <1>1, <1>2, <1>3, <1>4, <1>5, <1>6, <1>7, <1>8, <1>9, <1>10, <1>11, <1>12, <1>13, <1>14,
       <1>15, <1>16, <1>17, <1>18, <1>19, <1>20, <1>21, <1>22, <1>23 DEF Begin, Work

(* Whoever decides on a request finds the mapping to version from: with    *)
(* handlers that do not overlap, every open request's mapping is there,    *)
(* with or without foreign keys, also when handlers die half-way           *)
(* (delete_mapping, create_drift).                                         *)
THEOREM BaselineTheorem == ASSUME OneAtATime PROVE Spec => []BaselineExists
  <1>1. Init => BaselineInv
    <2> SUFFICES ASSUME Init PROVE BaselineInv
      OBVIOUS
    <2>1. \A t \in Threads : th[t].pc = "idle"
      BY IdleParts DEF Init
    <2>2. BaselineExists
      BY DEF Init, BaselineExists
    <2>3. QED
      BY <2>1, <2>2, InitTypes DEF BaselineInv, DeleteIsSafe
  <1>2. BaselineInv /\ [Next]_vars => BaselineInv'
    <2> SUFFICES ASSUME BaselineInv, [Next]_vars PROVE BaselineInv'
      OBVIOUS
    <2>1. TypeInv /\ TypeInv'
      BY NextTypes DEF BaselineInv
    <2>2. CASE Expire \/ UNCHANGED vars
      BY <2>1, <2>2, TickStep DEF BaselineInv, BaselineExists, DeleteIsSafe, OpenOn, LiveIds, MapIds
    <2>3. ASSUME NEW t \in Threads, Begin(t) \/ Work(t) \/ Fail(t) PROVE BaselineInv'
      <3>1. BaselineExists' /\ DeleteIsSafe(t)'
        BY <2>1, <2>3, BaselineKept DEF BaselineInv
      <3>2. QED
        BY <2>1, <3>1 DEF BaselineInv, OneAtATime
    <2>4. QED
      BY <2>2, <2>3 DEF Next
  <1>3. BaselineInv => BaselineExists
    BY DEF BaselineInv
  <1>4. QED
    BY <1>1, <1>2, <1>3, PTL DEF Spec

(* The number a handler read is beyond those of the versions in use, the   *)
(* label it took was free; the first one is taken when nothing is in use.  *)
NumberIsFree(t) ==
    /\ th[t].pc = "version" => \A m \in LiveIds : mapping[m].version < th[t].n
    /\ th[t].pc = "publish" => /\ mapping[th[t].map].made = "onboarding"
                               /\ th[t].n = 1 => LiveIds = {}

(* What onboardings have published is labelled. *)
OnboardedIsLabelled ==
    \A m \in LiveIds : mapping[m].made = "onboarding" => mapping[m].version \in labels

Numbered == OnboardedIsLabelled /\ PublishedApart

ApartInv == TypeInv /\ Numbered /\ \A t \in Threads : NumberIsFree(t)

(* No row appears, and no number changes. *)
LEMMA NumbersStay ==
    ASSUME Numbered, LiveIds' \subseteq LiveIds, labels' = labels,
           \A m \in LiveIds' : mapping'[m].version = mapping[m].version /\ mapping'[m].made = mapping[m].made
    PROVE  Numbered'
  <1>1. OnboardedIsLabelled'
    BY DEF Numbered, OnboardedIsLabelled
  <1>2. PublishedApart'
    BY DEF Numbered, PublishedApart
  <1>3. QED
    BY <1>1, <1>2 DEF Numbered

LEMMA SameNumbers == ASSUME Numbered, UNCHANGED <<mapping, labels>> PROVE Numbered' /\ LiveIds' = LiveIds
  <1>1. LiveIds' = LiveIds
    BY DEF LiveIds, MapIds
  <1>2. QED
    BY <1>1, NumbersStay

LEMMA AddedNumber ==
    ASSUME TypeInv, Numbered, NEW r, Added(r), r.live, labels' = labels, r.made \in {"client", "approval"},
           r.made = "approval" => \A m \in LiveIds : mapping[m].version < r.version
    PROVE  Numbered'
  <1> DEFINE n == Len(mapping) + 1
  <1>1. /\ LiveIds' = LiveIds \cup {n} /\ mapping'[n] = r /\ n \notin LiveIds
        /\ \A m \in LiveIds : mapping'[m] = mapping[m] /\ mapping[m].version \in Nat
    BY TypeFacts DEF Added, MappingRow
  <1> HIDE DEF n
  <1>2. OnboardedIsLabelled'
    BY <1>1 DEF Numbered, OnboardedIsLabelled
  <1>3. \A m \in LiveIds : r.made = "approval" => mapping[m].version # r.version
    <2> SUFFICES ASSUME NEW m \in LiveIds, r.made = "approval", mapping[m].version = r.version PROVE FALSE
      OBVIOUS
    <2>1. mapping[m].version \in Nat /\ mapping[m].version < mapping[m].version
      BY <1>1
    <2>2. QED
      BY <2>1
  <1>4. PublishedApart'
    <2> SUFFICES ASSUME NEW l \in LiveIds', NEW m \in LiveIds',
                        mapping'[l].made = mapping'[m].made, mapping'[l].made # "client",
                        mapping'[l].version = mapping'[m].version
                 PROVE  l = m
      BY DEF PublishedApart
    <2>1. CASE l \in LiveIds /\ m \in LiveIds
      BY <1>1, <2>1 DEF Numbered, PublishedApart
    <2>2. CASE l = n \/ m = n
      BY <1>1, <1>3, <2>2
    <2>3. QED
      BY <1>1, <2>1, <2>2
  <1>5. QED
    BY <1>2, <1>4 DEF Numbered

LEMMA OnboardedNumber ==
    ASSUME TypeInv, Numbered, NEW t \in Threads, NumberIsFree(t), publish_mapping_knowledge(t)
    PROVE  Numbered'
  <1> DEFINE k == th[t].map
             n == th[t].n
  <1>1. /\ k \in MapIds /\ mapping[k].version = n /\ MapIds' = MapIds
        /\ mapping[k].made = "onboarding" /\ (n = 1 => LiveIds = {})
        /\ \/ UNCHANGED <<mapping, labels>>
           \/ /\ n = 1 \/ n \notin labels
              /\ Replaced(k, [mapping[k] EXCEPT !.live = TRUE])
              /\ labels' = labels \cup {1, n}
    BY PublishStep DEF NumberIsFree
  <1> HIDE DEF k, n
  <1>2. CASE UNCHANGED <<mapping, labels>>
    BY <1>2, SameNumbers
  <1>3. CASE /\ n = 1 \/ n \notin labels
             /\ Replaced(k, [mapping[k] EXCEPT !.live = TRUE])
             /\ labels' = labels \cup {1, n}
    <2>1. /\ mapping'[k].version = n /\ mapping'[k].made = "onboarding"
          /\ \A m \in LiveIds : m # k => mapping'[m] = mapping[m]
          /\ \A m \in LiveIds' : m = k \/ m \in LiveIds
      BY <1>1, <1>3, TypeFacts DEF Replaced, MappingRow
    <2>2. OnboardedIsLabelled'
      BY <1>3, <2>1 DEF Numbered, OnboardedIsLabelled
    <2>3. \A m \in LiveIds : mapping[m].made = "onboarding" => mapping[m].version # n
      BY <1>1, <1>3 DEF Numbered, OnboardedIsLabelled
    <2>4. PublishedApart'
      <3> SUFFICES ASSUME NEW l \in LiveIds', NEW m \in LiveIds',
                          mapping'[l].made = mapping'[m].made, mapping'[l].made # "client",
                          mapping'[l].version = mapping'[m].version
                   PROVE  l = m
        BY DEF PublishedApart
      <3>1. CASE l # k /\ m # k
        <4>1. /\ l \in LiveIds /\ m \in LiveIds
              /\ mapping'[l] = mapping[l] /\ mapping'[m] = mapping[m]
          BY <2>1, <3>1
        <4>2. QED
          BY <4>1 DEF Numbered, PublishedApart
      <3>2. CASE l = k \/ m = k
        BY <2>1, <2>3, <3>2
      <3>3. QED
        BY <3>1, <3>2
    <2>5. QED
      BY <2>2, <2>4 DEF Numbered
  <1>4. QED
    BY <1>1, <1>2, <1>3

LEMMA NumbersKept ==
    ASSUME TypeInv, NEW t \in Threads, Numbered, NumberIsFree(t), Begin(t) \/ Work(t) \/ Fail(t)
    PROVE  Numbered' /\ NumberIsFree(t)'
  <1> DEFINE Other == th'[t].pc \notin {"version", "publish"}
  <1>1. CASE create_mapping(t)
    <2> DEFINE r == [status |-> "draft", version |-> 1, made |-> "client", live |-> TRUE]
    <2>1. /\ Added(r) /\ UNCHANGED <<labels, th>> /\ th[t].pc = "idle"
          /\ r.live /\ r.made = "client"
      BY <1>1, CreateStep DEF create_mapping, Starts
    <2> HIDE DEF r
    <2>2. QED
      BY <2>1, AddedNumber DEF NumberIsFree
  <1>2. CASE ReadBaseline(t)
    <2>1. UNCHANGED <<mapping, labels>> /\ th'[t].pc = "version" /\ \A m \in LiveIds : mapping[m].version < th'[t].n
      BY <1>2, BaselineStep
    <2>2. QED
      BY <2>1, SameNumbers DEF NumberIsFree
  <1>3. CASE FlushKnowledge(t)
    <2> DEFINE r == [status |-> "published", version |-> next_version, made |-> "onboarding", live |-> FALSE]
    <2>1. /\ Added(r) /\ labels' = labels /\ ~r.live /\ r.made = "onboarding"
          /\ th'[t].pc = "publish" /\ th'[t].map = Len(mapping) + 1
          /\ th'[t].n = 1 => LiveIds = {}
      BY <1>3, FlushStep
    <2> HIDE DEF r
    <2>2. LiveIds' = LiveIds /\ \A m \in LiveIds : mapping'[m] = mapping[m]
      BY <2>1, TypeFacts DEF Added
    <2>3. Numbered'
      BY <2>1, <2>2, NumbersStay
    <2>4. QED
      BY <2>1, <2>2, <2>3 DEF NumberIsFree, Added
  <1>4. CASE publish_mapping_knowledge(t)
    <2>1. Other
      BY <1>4, PublishStep
    <2>2. QED
      BY <1>4, <2>1, OnboardedNumber DEF NumberIsFree
  <1>5. CASE _create_versioned_mapping(t)
    <2> DEFINE r == [status |-> "published", version |-> th[t].n, made |-> "approval", live |-> TRUE]
    <2>1. /\ Added(r) /\ labels' = labels /\ r.live /\ r.made = "approval" /\ Other
          /\ \A m \in LiveIds : mapping[m].version < r.version
      BY <1>5, VersionStep DEF NumberIsFree
    <2> HIDE DEF r
    <2>2. QED
      BY <2>1, AddedNumber DEF NumberIsFree
  <1>6. CASE update_mapping_status(t)
    <2>1. /\ labels' = labels /\ LiveIds' = LiveIds /\ Other
          /\ \A m \in LiveIds : mapping'[m].version = mapping[m].version /\ mapping'[m].made = mapping[m].made
      <3> DEFINE k == th[t].map
                 r == [mapping[k] EXCEPT !.status = th[t].to]
      <3>1. /\ labels' = labels /\ LiveIds' = LiveIds /\ Other
            /\ mapping' = mapping \/ (k \in LiveIds /\ Replaced(k, r))
        BY <1>6, UpdateStep
      <3>2. k \in LiveIds => r.version = mapping[k].version /\ r.made = mapping[k].made
        BY TypeFacts DEF MappingRow
      <3> HIDE DEF k, r
      <3>3. \A m \in LiveIds : mapping'[m].version = mapping[m].version /\ mapping'[m].made = mapping[m].made
        BY <3>1, <3>2, TypeFacts DEF Replaced
      <3>4. QED
        BY <3>1, <3>3
    <2>2. QED
      BY <2>1, NumbersStay DEF NumberIsFree
  <1>7. CASE delete_mapping(t)
    <2>1. labels' = labels /\ LiveIds' \subseteq LiveIds /\ Other /\ \A m \in LiveIds' : mapping'[m] = mapping[m]
      BY <1>7, DeleteStep
    <2>2. QED
      BY <2>1, NumbersStay DEF NumberIsFree
  <1>8. CASE Forget(t) \/ ForgetVersion(t)
    <2>1. "idle" \in Steps \ {"publish"} /\ "readRecipe" \in Steps \ {"publish"}
      BY DEF Steps
    <2>2. UNCHANGED <<mapping, labels>> /\ Other
      BY <1>8, <2>1, ForgetStep DEF Forget, ForgetVersion
    <2>3. QED
      BY <2>2, SameNumbers DEF NumberIsFree
  <1>9. CASE LoadStatus(t) \/ CountOpenRefs(t) \/ ValidateBinding(t) \/ delete_recipe(t) \/ _lookup_mapping(t)
    <2>1. UNCHANGED <<mapping, labels>> /\ Other
      BY <1>9, LoadStep, CountStep, ValidateStep, UnbindStep, LookupStep
    <2>2. QED
      BY <2>1, SameNumbers DEF NumberIsFree
  <1>10. CASE reject_drift(t) \/ CollectRefs(t) \/ ReadRecipe(t) \/ ApproveRequest(t) \/ create_recipe(t)
    <2>1. UNCHANGED <<mapping, labels>> /\ Other
      BY <1>10, RejectStep, CollectStep, RecipeStep, ApproveStep, BindStep
    <2>2. QED
      BY <2>1, SameNumbers DEF NumberIsFree
  <1>11. CASE \/ find_cached_or_lookup(t) \/ cache_active_mapping_id(t) \/ UseMapping(t)
              \/ create_drift(t) \/ Fail(t)
    <2>1. UNCHANGED <<mapping, labels>> /\ Other
      BY <1>11, FindStep, FillStep, UseStep, RaiseStep, FailStep
    <2>2. QED
      BY <2>1, SameNumbers DEF NumberIsFree
  <1>12. QED
    BY <1>1, <1>2, <1>3, <1>4, <1>5, <1>6, <1>7, <1>8, <1>9, <1>10, <1>11 DEF Begin, Work

(* With handlers that do not overlap no two approvals and no two           *)
(* onboardings publish the same version number, also when handlers die     *)
(* half-way and mappings are deleted in between (next_version,             *)
(* _create_versioned_mapping).                                             *)
THEOREM ApartTheorem == ASSUME OneAtATime PROVE Spec => []PublishedApart
  <1>1. Init => ApartInv
    <2> SUFFICES ASSUME Init PROVE ApartInv
      OBVIOUS
    <2>1. (\A t \in Threads : th[t].pc = "idle") /\ LiveIds = {}
      BY IdleParts DEF Init, LiveIds, MapIds
    <2>2. QED
      BY <2>1, InitTypes DEF ApartInv, Numbered, OnboardedIsLabelled, PublishedApart, NumberIsFree
  <1>2. ApartInv /\ [Next]_vars => ApartInv'
    <2> SUFFICES ASSUME ApartInv, [Next]_vars PROVE ApartInv'
      OBVIOUS
    <2>1. TypeInv /\ TypeInv'
      BY NextTypes DEF ApartInv
    <2>2. CASE Expire \/ UNCHANGED vars
      <3>1. UNCHANGED <<mapping, labels, th>>
        BY <2>1, <2>2, TickStep
      <3>2. Numbered' /\ LiveIds' = LiveIds
        BY <3>1, SameNumbers DEF ApartInv
      <3>3. QED
        BY <2>1, <3>1, <3>2 DEF ApartInv, NumberIsFree
    <2>3. ASSUME NEW t \in Threads, Begin(t) \/ Work(t) \/ Fail(t) PROVE ApartInv'
      <3>1. Numbered' /\ NumberIsFree(t)'
        BY <2>1, <2>3, NumbersKept DEF ApartInv
      <3>2. QED
        BY <2>1, <3>1 DEF ApartInv, OneAtATime
    <2>4. QED
      BY <2>2, <2>3 DEF Next
  <1>3. ApartInv => PublishedApart
    BY DEF ApartInv, Numbered
  <1>4. QED
    BY <1>1, <1>2, <1>3, PTL DEF Spec

(* Between the publication of a mapping and its invalidation the cache may *)
(* be stale, and stays so when the handler dies in between; an entry is    *)
(* filled with what the table has.                                         *)
Supersedes(c) == \A m \in MapIds : IsPublished(m) => m <= c
CacheFollows == cache # 0 => Supersedes(cache)
Excused == owed \/ CacheFollows

EntryIsNewest(t) ==
    /\ th[t].pc = "publish" => cache = 0
    /\ th[t].pc = "fill" => Supersedes(th[t].map)
    /\ th[t].pc \notin {"forget", "forgetVersion"} => Excused

FreshInv == TypeInv /\ (Quiet => Excused) /\ \A t \in Threads : EntryIsNewest(t)

(* Nothing is published. *)
PublishesNothing == \A m \in MapIds' : IsPublished(m)' => m \in MapIds /\ IsPublished(m)

LEMMA ExcusedStays ==
    ASSUME PublishesNothing, Excused, Owing, cache' \in {0, cache}
    PROVE  Excused'
  <1>1. CASE cache' = 0
    BY <1>1 DEF Excused, CacheFollows
  <1>2. CASE cache' # 0
    <2>1. cache' = cache /\ (owed => owed')
      BY <1>2 DEF Owing
    <2>2. CacheFollows => CacheFollows'
      BY <2>1 DEF CacheFollows, Supersedes, PublishesNothing
    <2>3. QED
      BY <2>1, <2>2 DEF Excused
  <1>3. QED
    BY <1>1, <1>2

LEMMA SameActive == ASSUME UNCHANGED mapping PROVE PublishesNothing
  BY DEF PublishesNothing, IsPublished, LiveIds, MapIds

LEMMA EmptyCache == ASSUME cache' = 0 PROVE Excused'
  BY DEF Excused, CacheFollows

LEMMA NewestSupersedes == ASSUME NEW c, IsNewest(c) PROVE Supersedes(c)
  BY DEF IsNewest, Supersedes, IsPublished, IsActive, _ACTIVE_STATUSES

LEMMA CacheKept ==
    ASSUME Owing, TypeInv, TypeInv', NEW t \in Threads, EntryIsNewest(t), Begin(t) \/ Work(t) \/ Fail(t)
    PROVE  EntryIsNewest(t)'
  <1> DEFINE Other == th'[t].pc \notin {"setStatus", "publish", "fill", "forget", "forgetVersion"}
  <1>1. CASE create_mapping(t)
    <2>1. /\ Added([status |-> "draft", version |-> 1, made |-> "client", live |-> TRUE])
          /\ UNCHANGED <<cache, th>> /\ th[t].pc = "idle"
      BY <1>1, CreateStep DEF create_mapping, Starts
    <2>2. PublishesNothing
      BY <2>1 DEF Added, PublishesNothing, IsPublished
    <2>3. Excused
      BY <2>1 DEF EntryIsNewest
    <2>4. Excused'
      BY <2>1, <2>2, <2>3, ExcusedStays
    <2>5. QED
      BY <2>1, <2>4 DEF EntryIsNewest
  <1>2. CASE LoadStatus(t)
    <2>1. th'[t].pc = "setStatus" /\ UNCHANGED <<mapping, cache>> /\ th[t].pc = "idle"
      BY <1>2, LoadStep
    <2>2. Excused'
      BY <2>1, SameActive, ExcusedStays DEF EntryIsNewest
    <2>3. QED
      BY <2>1, <2>2 DEF EntryIsNewest
  <1>3. CASE update_mapping_status(t)
    <2> DEFINE k == th[t].map
               r == [mapping[k] EXCEPT !.status = th[t].to]
    <2>1. /\ th[t].pc = "setStatus" /\ MapIds' = MapIds /\ LiveIds' = LiveIds /\ cache' = cache
          /\ mapping' = mapping \/ (k \in LiveIds /\ Replaced(k, r))
          /\ \/ mapping' = mapping /\ th'[t].pc = "idle"
             \/ th'[t].pc = "forget"
             \/ th[t].to # "published" /\ th'[t].pc = "idle"
      BY <1>3, UpdateStep
    <2>2. Excused
      BY <2>1 DEF EntryIsNewest
    <2>3. CASE th'[t].pc = "forget"
      BY <2>3 DEF EntryIsNewest
    <2>4. CASE mapping' = mapping /\ th'[t].pc = "idle"
      <3>1. Excused'
        BY <2>1, <2>2, <2>4, SameActive, ExcusedStays
      <3>2. QED
        BY <2>4, <3>1 DEF EntryIsNewest
    <2>5. CASE th[t].to # "published" /\ th'[t].pc = "idle"
      <3>1. PublishesNothing
        <4>1. CASE mapping' = mapping
          BY <4>1, SameActive
        <4>2. CASE k \in LiveIds /\ Replaced(k, r)
          <5>1. r.status # "published"
            BY <2>5, <4>2, TypeFacts DEF MappingRow
          <5> HIDE DEF k, r
          <5>2. QED
            BY <2>1, <4>2, <5>1 DEF Replaced, PublishesNothing, IsPublished
        <4>3. QED
          BY <2>1, <4>1, <4>2
      <3>2. Excused'
        BY <2>1, <2>2, <3>1, ExcusedStays
      <3>3. QED
        BY <2>5, <3>2 DEF EntryIsNewest
    <2>6. QED
      BY <2>1, <2>3, <2>4, <2>5
  <1>4. CASE delete_mapping(t)
    <2>1. /\ th[t].pc = "delete" /\ MapIds' = MapIds /\ LiveIds' \subseteq LiveIds /\ cache' = cache
          /\ \A m \in LiveIds' : mapping'[m] = mapping[m]
          /\ th'[t].pc \in {"idle", "forget"}
      BY <1>4, DeleteStep
    <2>2. PublishesNothing
      BY <2>1 DEF PublishesNothing, IsPublished
    <2>3. Excused
      BY <2>1 DEF EntryIsNewest
    <2>4. Excused'
      BY <2>1, <2>2, <2>3, ExcusedStays
    <2>5. QED
      BY <2>1, <2>4 DEF EntryIsNewest
  <1>5. CASE FlushKnowledge(t) \/ publish_mapping_knowledge(t)
    <2>1. cache' = 0 /\ th'[t].pc \in {"idle", "forget", "publish"}
      BY <1>5, FlushStep, PublishStep DEF EntryIsNewest
    <2>2. Excused'
      BY <2>1, EmptyCache
    <2>3. QED
      BY <2>1, <2>2 DEF EntryIsNewest
  <1>6. CASE Forget(t) \/ ForgetVersion(t)
    <2>1. "idle" \in Steps \ {"publish"} /\ "readRecipe" \in Steps \ {"publish"}
      BY DEF Steps
    <2>2. cache' = 0 /\ th'[t].pc \in {"idle", "readRecipe"}
      BY <1>6, <2>1, ForgetStep DEF Forget, ForgetVersion
    <2>3. Excused'
      BY <2>2, EmptyCache
    <2>4. QED
      BY <2>2, <2>3 DEF EntryIsNewest
  <1>7. CASE _create_versioned_mapping(t) \/ delete_recipe(t)
    <2>1. th'[t].pc \in {"forget", "forgetVersion"}
      BY <1>7, VersionStep, UnbindStep
    <2>2. QED
      BY <2>1 DEF EntryIsNewest
  <1>8. CASE find_cached_or_lookup(t)
    <2>1. /\ th[t].pc = "lookup" /\ UNCHANGED <<mapping, cache>>
          /\ \/ th'[t].pc \in {"idle", "resolved"}
             \/ th'[t].pc = "fill" /\ IsNewest(th'[t].map)
      BY <1>8, FindStep
    <2>2. Excused'
      BY <2>1, SameActive, ExcusedStays DEF EntryIsNewest
    <2>3. th'[t].pc = "fill" => Supersedes(th'[t].map)
      BY <2>1, NewestSupersedes
    <2>4. th'[t].pc = "fill" => Supersedes(th[t].map)'
      BY <2>1, <2>3 DEF Supersedes, IsPublished, LiveIds, MapIds
    <2>5. QED
      BY <2>1, <2>2, <2>4 DEF EntryIsNewest
  <1>9. CASE cache_active_mapping_id(t)
    <2>1. /\ th[t].pc = "fill" /\ th'[t].pc = "resolved" /\ cache' = th[t].map /\ mapping' = mapping
      BY <1>9, FillStep
    <2>2. Supersedes(cache)'
      BY <2>1 DEF EntryIsNewest, Supersedes, IsPublished, LiveIds, MapIds
    <2>3. Excused'
      BY <2>2 DEF Excused, CacheFollows
    <2>4. QED
      BY <2>1, <2>3 DEF EntryIsNewest
  <1>10. CASE \/ CountOpenRefs(t) \/ ReadBaseline(t) \/ ValidateBinding(t) \/ _lookup_mapping(t)
              \/ reject_drift(t)
    <2>1. UNCHANGED <<mapping, cache>> /\ Other /\ th[t].pc = "idle"
      BY <1>10, CountStep, BaselineStep, ValidateStep, LookupStep, RejectStep
    <2>2. Excused'
      BY <2>1, SameActive, ExcusedStays DEF EntryIsNewest
    <2>3. QED
      BY <2>1, <2>2 DEF EntryIsNewest
  <1>11. CASE CollectRefs(t) \/ ReadRecipe(t) \/ ApproveRequest(t) \/ UseMapping(t) \/ create_drift(t)
    <2>1. /\ mapping' = mapping /\ cache' \in {0, cache} /\ Other
          /\ th[t].pc \notin {"forget", "forgetVersion"}
      BY <1>11, CollectStep, RecipeStep, ApproveStep, UseStep, RaiseStep
    <2>2. Excused'
      BY <2>1, SameActive, ExcusedStays DEF EntryIsNewest
    <2>3. QED
      BY <2>1, <2>2 DEF EntryIsNewest
  <1>12. CASE create_recipe(t)
    <2>1. UNCHANGED <<mapping, cache>> /\ th'[t].pc \in {"idle", "forget"} /\ th[t].pc = "bind"
      BY <1>12, BindStep
    <2>2. Excused'
      BY <2>1, SameActive, ExcusedStays DEF EntryIsNewest
    <2>3. QED
      BY <2>1, <2>2 DEF EntryIsNewest
  <1>13. CASE Fail(t)
    <2>1. th'[t].pc = "idle" /\ UNCHANGED <<mapping, cache>>
      BY <1>13, FailStep
    <2>2. CASE th[t].pc \in {"forget", "forgetVersion"}
      <3>1. failures' # failures
        BY <1>13, TypeFacts DEF Fail
      <3>2. owed' = (cache' # 0)
        BY <2>1, <2>2, <3>1 DEF Owing, DiesOwing
      <3>3. Excused'
        BY <3>2 DEF Excused, CacheFollows
      <3>4. QED
        BY <2>1, <3>3 DEF EntryIsNewest
    <2>3. CASE th[t].pc \notin {"forget", "forgetVersion"}
      <3>1. Excused'
        BY <2>1, <2>3, SameActive, ExcusedStays DEF EntryIsNewest
      <3>2. QED
        BY <2>1, <3>1 DEF EntryIsNewest
    <2>4. QED
      BY <2>2, <2>3
  <1>14. QED
    BY <1>1, <1>2, <1>3, <1>4, <1>5, <1>6, <1>7, <1>8, <1>9, <1>10, <1>11, <1>12, <1>13 DEF Begin, Work

(* With handlers that do not overlap, whatever statuses clients set, the   *)
(* cache hides no published mapping behind an older one between two        *)
(* handlers, except behind an entry that a dying handler left              *)
(* (mapping_cache, update_mapping_status).                                 *)
THEOREM CacheTheorem == ASSUME OneAtATime PROVE Spec => []CacheIsFresh
  <1>1. Init => FreshInv
    <2> SUFFICES ASSUME Init PROVE FreshInv
      OBVIOUS
    <2>1. TypeInv /\ cache = 0 /\ \A t \in Threads : th[t].pc = "idle"
      BY IdleParts, InitTypes DEF Init
    <2>2. Excused
      BY <2>1 DEF Excused, CacheFollows
    <2>3. QED
      BY <2>1, <2>2 DEF FreshInv, EntryIsNewest
  <1>2. FreshInv /\ [Next]_vars => FreshInv'
    <2> SUFFICES ASSUME FreshInv, [Next]_vars PROVE FreshInv'
      OBVIOUS
    <2>1. TypeInv /\ TypeInv'
      BY NextTypes DEF FreshInv
    <2>2. CASE (Expire /\ Owing) \/ UNCHANGED vars
      <3>1. cache' \in {0, cache} /\ UNCHANGED <<mapping, th>>
        BY <2>1, <2>2, TickStep
      <3>2. Excused => Excused'
        <4>1. CASE Owing
          BY <3>1, <4>1, SameActive, ExcusedStays
        <4>2. CASE UNCHANGED vars
          BY <4>2 DEF vars, Excused, CacheFollows, Supersedes, IsPublished, LiveIds, MapIds
        <4>3. QED
          BY <2>2, <4>1, <4>2
      <3>3. \A c : Supersedes(c) => \A m \in MapIds' : IsPublished(m)' => m <= c
        BY <3>1 DEF Supersedes, IsPublished, LiveIds, MapIds
      <3>4. \A t \in Threads : EntryIsNewest(t)'
        BY <3>1, <3>2, <3>3 DEF FreshInv, EntryIsNewest, Supersedes
      <3>5. QED
        BY <2>1, <3>1, <3>2, <3>4 DEF FreshInv, Quiet
    <2>3. ASSUME Owing, NEW t \in Threads, Begin(t) \/ Work(t) \/ Fail(t) PROVE FreshInv'
      <3>1. EntryIsNewest(t)'
        BY <2>1, <2>3, CacheKept DEF FreshInv
      <3>2. QED
        BY <2>1, <3>1 DEF FreshInv, OneAtATime, EntryIsNewest, Quiet
    <2>4. QED
      BY <2>2, <2>3 DEF Next
  <1>3. FreshInv => CacheIsFresh
    <2> SUFFICES ASSUME FreshInv, Quiet, ~owed, IsActive(cache)
                 PROVE  \A m \in MapIds : IsPublished(m) => m <= cache
      BY DEF CacheIsFresh
    <2>1. cache # 0
      BY TypeFacts DEF FreshInv, IsActive
    <2>2. QED
      BY <2>1 DEF FreshInv, Excused, CacheFollows, Supersedes
  <1>4. QED
    BY <1>1, <1>2, <1>3, PTL DEF Spec
=============================================================================
