------------------------ MODULE SourceRegistryProofs ------------------------
(***************************************************************************)
(* For any number of threads, environments, names and requests: an event   *)
(* stays under the source it was stored for, and requests one after the    *)
(* other register a source once and remove all of a connection.            *)
(***************************************************************************)
EXTENDS SourceRegistry, FiniteNumbers, SequenceTheorems

Pos == Nat \ {0}
Ops == {"none", "event", "batch", "sample", "approve", "adopt", "delete", "removed", "release"}

SourceRow == [id : Pos, name : Names, env : Pos]
MappingRow == [id : Pos, name : Names, version : Nat \X Nat]
DriftRow == [id : Pos, name : Names, open : BOOLEAN, job : BOOLEAN, mapping : Pos]
RunRow == [id : Pos, name : Names \cup {NoName}, events : SUBSET Nat]
EventRow == [id : Pos, env : EnvNames, name : Names \cup {NoName}, source : Nat,
             status : {"normalized", "quarantined"}, old : BOOLEAN]
SampleRow == [env : Pos, status : {"pending", "review", "approved"}, source : Nat]
FoundRow == [sources : SUBSET Nat, events : SUBSET Nat, mappings : SUBSET Nat,
             drifts : SUBSET Nat, recipes : SUBSET Names, batches : SUBSET Nat]
RequestRow == [op : Ops, env : EnvNames \cup {NoName}, name : Names \cup {NoName},
               envRow : Nat, source : Nat, target : Nat, found : FoundRow]

RowsInv ==
    /\ envs \in Seq(EnvNames)
    /\ sources \subseteq SourceRow
    /\ versions \subseteq Pos \X Pos /\ IsFiniteSet(versions)
    /\ mappings \subseteq MappingRow
    /\ recipes \subseteq [name : Names, mapping : Pos]
    /\ drifts \subseteq DriftRow
    /\ batches \subseteq RunRow
    /\ events \subseteq EventRow
    /\ onboardings \in Seq(SampleRow)
    /\ next \in [source : Pos, mapping : Pos, event : Pos, drift : Pos, request : Pos]
    /\ thr \in [Threads -> RequestRow]
    /\ alone \in BOOLEAN

(* Ids are given once, *)
SourceIds ==
    /\ \A s \in sources : s.id < next.source /\ s.env \in DOMAIN envs
    /\ \A s, u \in sources : s.id = u.id => s = u
EventIds ==
    /\ \A e \in events : e.id < next.event
    /\ \A e, f \in events : e.id = f.id => e = f
(* and what a source publishes refers to it. *)
VersionsBelong ==
    /\ \A v \in versions : \E s \in sources : s.id = v[1]
    /\ \A s \in sources : \E v \in versions : v[1] = s.id
    /\ \A m \in mappings : m.id < next.mapping /\ m.version[1] < next.source
    /\ \A m \in mappings : \A s \in sources : s.id = m.version[1] => s.name = m.name

(* What a request that looked up its environment and source still knows:   *)
(* an environment keeps its name, and whatever source has this id now is   *)
(* the one it found.                                                       *)
Meant(r, E, S, n) ==
    /\ r.env \in EnvNames
    /\ r.envRow # 0 => r.envRow \in DOMAIN E /\ Lower[E[r.envRow]] = Lower[r.env]
    /\ r.source # 0 => /\ r.source < n.source /\ r.envRow # 0
                       /\ \A s \in S : s.id = r.source => s.name = r.name /\ s.env = r.envRow

(* What a request remembers, of environments E, sources S, events V and    *)
(* samples O when n are the next ids.                                      *)
Sound(r, E, S, V, O, n) ==
    /\ r.op \in {"event", "batch", "sample", "approve", "adopt"} => Meant(r, E, S, n)
    /\ r.op = "delete" => r.env \in EnvNames /\ r.name \in Names /\ r.envRow <= Len(E)
    /\ r.op \in {"approve", "adopt"} => r.name \in Names
    /\ r.op = "approve" => r.target \in DOMAIN O
    /\ r.op = "adopt" => /\ r.target < n.event
                         /\ \A e \in V : e.id = r.target => e.env = r.env
    /\ r.op = "release" => /\ \A i \in r.found.events : i < n.event
                           /\ \A e \in V : e.id \in r.found.events => e.name # NoName
Remembered == \A t \in Threads : Sound(thr[t], envs, sources, events, onboardings, next)

IInv ==
    /\ RowsInv /\ SourceIds /\ EventIds /\ VersionsBelong
    /\ EventsKnowTheirSource
    /\ Remembered

-----------------------------------------------------------------------------
(* Looking up *)

LEMMA MinOfFacts ==
    ASSUME NEW S \in SUBSET Pos
    PROVE  /\ MinOf(S) \in Nat
           /\ (MinOf(S) = 0 <=> S = {})
           /\ MinOf(S) # 0 => MinOf(S) \in S
  <1>1. CASE S = {}
    BY <1>1 DEF MinOf
  <1>2. CASE S # {}
    <2>1. Min(S) \in S
      BY <1>2, NumbersHaveMin DEF Pos
    <2>2. QED
      BY <1>2, <2>1 DEF MinOf, Pos
  <1>3. QED
    BY <1>1, <1>2

(* The row of an environment, and the source of a name in it. *)
LEMMA EnvironmentFacts ==
    ASSUME RowsInv, NEW env \in EnvNames
    PROVE  /\ environment_row_id(env) \in Nat
           /\ environment_row_id(env) <= Len(envs)
           /\ environment_row_id(env) # 0 =>
                 /\ environment_row_id(env) \in DOMAIN envs
                 /\ Lower[envs[environment_row_id(env)]] = Lower[env]
  <1> DEFINE S == {k \in DOMAIN envs : Lower[envs[k]] = Lower[env]}
             m == MinOf(S)
  <1>1. /\ Len(envs) \in Nat /\ DOMAIN envs = 1 .. Len(envs)
        /\ S \in SUBSET Pos
    BY DEF RowsInv, Pos
  <1>2. environment_row_id(env) = m
    BY DEF environment_row_id
  <1>3. m \in Nat /\ (m # 0 => m \in S)
    BY <1>1, MinOfFacts
  <1>4. \A k \in S : k \in DOMAIN envs /\ k <= Len(envs) /\ Lower[envs[k]] = Lower[env]
    BY <1>1
  <1>5. m # 0 => m \in DOMAIN envs /\ m <= Len(envs) /\ Lower[envs[m]] = Lower[env]
    BY <1>3, <1>4
  <1> HIDE DEF S, m
  <1>6. QED
    BY <1>1, <1>2, <1>3, <1>5

LEMMA SourceFacts ==
    ASSUME RowsInv, SourceIds, NEW env \in EnvNames, NEW name
    PROVE  /\ FindSource(name, env) \in Nat
           /\ FindSource(name, env) = 0 <=> SourcesOf(name, environment_row_id(env)) = {}
           /\ FindSource(name, env) # 0 =>
                 /\ environment_row_id(env) # 0 /\ FindSource(name, env) < next.source
                 /\ \E s \in sources : /\ s.id = FindSource(name, env) /\ s.name = name
                                        /\ s.env = environment_row_id(env)
                 /\ \A s \in sources : s.id = FindSource(name, env) =>
                                          s.name = name /\ s.env = environment_row_id(env)
  <1> DEFINE k == environment_row_id(env)
             R == SourcesOf(name, k)
             S == {s.id : s \in R}
             i == MinOf(S)
  <1>1. \A s \in R : s \in sources /\ s.id \in Pos /\ s.name = name /\ s.env = k
    BY DEF RowsInv, SourceRow, SourcesOf
  <1>2. FindSource(name, env) = i
    BY DEF FindSource
  <1> HIDE DEF R, k
  <1>3. S \in SUBSET Pos /\ (S = {} <=> R = {})
    BY <1>1
  <1>4. i \in Nat /\ (i = 0 <=> S = {}) /\ (i # 0 => i \in S)
    BY <1>3, MinOfFacts
  <1>5. i # 0 => \E s \in R : s.id = i
    BY <1>4
  <1> HIDE DEF S, i
  <1>6. CASE i = 0
    BY <1>2, <1>3, <1>4, <1>6 DEF k, R
  <1>7. CASE i # 0
    <2>1. PICK s \in R : s.id = i
      BY <1>5, <1>7
    <2>2. s \in sources /\ s.name = name /\ s.env = k
      BY <1>1, <2>1
    <2>3. i < next.source /\ k # 0
      BY <2>1, <2>2 DEF SourceIds, RowsInv, SourceRow, Pos
    <2>4. \A u \in sources : u.id = i => u = s
      BY <2>1, <2>2 DEF SourceIds
    <2>5. R # {}
      BY <2>1
    <2> QED
      BY <1>2, <1>3, <1>4, <1>7, <2>1, <2>2, <2>3, <2>4, <2>5 DEF k, R
  <1>8. QED
    BY <1>6, <1>7

-----------------------------------------------------------------------------
(* Registering *)

(* Environments are only added. *)
EnvsGrow ==
    /\ envs' \in Seq(EnvNames) /\ Len(envs) <= Len(envs')
    /\ \A k \in DOMAIN envs : k \in DOMAIN envs' /\ envs'[k] = envs[k]

LEMMA AppendEnvs ==
    ASSUME RowsInv, NEW env \in EnvNames, envs' = Append(envs, env)
    PROVE  /\ EnvsGrow
           /\ Len(envs) + 1 \in DOMAIN envs' /\ envs'[Len(envs) + 1] = env
           /\ Len(envs) + 1 \in Pos /\ Len(envs) + 1 \notin DOMAIN envs
  <1>1. envs \in Seq(EnvNames) /\ Len(envs) \in Nat /\ DOMAIN envs = 1 .. Len(envs)
    BY DEF RowsInv
  <1>2. QED
    BY <1>1 DEF EnvsGrow, Pos

LEMMA SameEnvs ==
    ASSUME RowsInv, UNCHANGED envs
    PROVE  EnvsGrow
  BY DEF RowsInv, EnvsGrow

LEMMA EnvsWithFacts ==
    ASSUME RowsInv, NEW env \in EnvNames, NEW row \in Nat, row <= Len(envs),
           envs' = EnvsWith(env, row)
    PROVE  /\ EnvsGrow
           /\ EnvRow(row) \in Pos /\ EnvRow(row) \in DOMAIN envs'
           /\ row # 0 => EnvRow(row) = row /\ row \in DOMAIN envs
           /\ row = 0 => EnvRow(row) \notin DOMAIN envs /\ envs'[EnvRow(row)] = env
  <1>1. envs \in Seq(EnvNames) /\ Len(envs) \in Nat /\ DOMAIN envs = 1 .. Len(envs)
    BY DEF RowsInv
  <1>2. CASE row = 0
    BY <1>1, <1>2, AppendEnvs DEF EnvsWith, EnvRow
  <1>3. CASE row # 0
    BY <1>1, <1>3, SameEnvs DEF EnvsWith, EnvRow, Pos
  <1>4. QED
    BY <1>2, <1>3

(* The source of a request, found or new. *)
TheSource(r) == [id |-> next.source, name |-> r.name, env |-> EnvRow(r.envRow)]
SourceNumber(r) == IF r.source = 0 THEN next.source + 1 ELSE next.source

LEMMA RegisterFacts ==
    ASSUME RowsInv, SourceIds, NEW r, r.name \in Names, r.envRow \in Nat, r.source \in Nat,
           Meant(r, envs, sources, next), Intact(r), Register(r)
    PROVE  /\ EnvsGrow
           /\ sources' \subseteq SourceRow /\ sources \subseteq sources'
           /\ SourceId(r) \in Pos /\ EnvRow(r.envRow) \in Pos /\ EnvRow(r.envRow) \in DOMAIN envs'
           /\ \E s \in sources' : /\ s.id = SourceId(r) /\ s.name = r.name
                                  /\ s.env = EnvRow(r.envRow)
           /\ Lower[envs'[EnvRow(r.envRow)]] = Lower[r.env]
           /\ \A s \in sources' : s \in sources \/ (r.source = 0 /\ s = TheSource(r))
           /\ next'.source = SourceNumber(r) => SourceIds'
  <1>1. /\ r.env \in EnvNames /\ r.envRow <= Len(envs) /\ envs' = EnvsWith(r.env, r.envRow)
        /\ envs \in Seq(EnvNames) /\ Len(envs) \in Nat /\ DOMAIN envs = 1 .. Len(envs)
    BY DEF Meant, Register, RowsInv
  <1>2. /\ EnvsGrow
        /\ EnvRow(r.envRow) \in Pos /\ EnvRow(r.envRow) \in DOMAIN envs'
        /\ r.envRow # 0 => EnvRow(r.envRow) = r.envRow /\ r.envRow \in DOMAIN envs
        /\ r.envRow = 0 => envs'[EnvRow(r.envRow)] = r.env
    BY <1>1, EnvsWithFacts
  <1>3. Lower[envs'[EnvRow(r.envRow)]] = Lower[r.env]
    BY <1>2 DEF EnvsGrow, Meant
  <1>4. /\ next.source \in Pos /\ sources \subseteq SourceRow
    BY DEF RowsInv
  <1>5. TheSource(r) \in SourceRow
    BY <1>2, <1>4 DEF TheSource, SourceRow
  <1>6. \A s \in sources : s.env \in DOMAIN envs'
    BY <1>2 DEF SourceIds, EnvsGrow
  <1>7. CASE r.source = 0
    <2>1. sources' = sources \cup {TheSource(r)} /\ SourceId(r) = next.source
      BY <1>7 DEF Register, SourcesWith, SourceId, TheSource
    <2>2. /\ TheSource(r).id = next.source /\ TheSource(r).name = r.name
          /\ TheSource(r).env = EnvRow(r.envRow)
      BY DEF TheSource
    <2>3. \A s \in sources : s.id \in Nat /\ s.id < next.source
      BY <1>4 DEF SourceIds, SourceRow, Pos
    <2>4. next'.source = SourceNumber(r) => SourceIds'
      <3>1. \A s \in sources' : s.id < next.source + 1 /\ s.env \in DOMAIN envs'
        BY <1>2, <1>4, <1>6, <2>1, <2>2, <2>3 DEF Pos
      <3>2. \A s, u \in sources' : s.id = u.id => s = u
        BY <1>4, <2>1, <2>2, <2>3 DEF SourceIds, Pos
      <3>3. QED
        BY <1>7, <3>1, <3>2 DEF SourceIds, SourceNumber
    <2>5. QED
      BY <1>2, <1>3, <1>4, <1>5, <1>7, <2>1, <2>2, <2>4
  <1>8. CASE r.source # 0
    <2>1. sources' = sources /\ SourceId(r) = r.source
      BY <1>8 DEF Register, SourcesWith, SourceId
    <2>2. PICK s \in sources : s.id = r.source
      BY <1>8 DEF Intact
    <2>3. s.name = r.name /\ s.env = r.envRow /\ r.envRow # 0
      BY <1>8, <2>2 DEF Meant
    <2>4. next'.source = SourceNumber(r) => SourceIds'
      BY <1>6, <1>8, <2>1 DEF SourceIds, SourceNumber
    <2>5. \E u \in sources' : /\ u.id = SourceId(r) /\ u.name = r.name
                              /\ u.env = EnvRow(r.envRow)
      BY <1>2, <2>1, <2>2, <2>3
    <2>6. SourceId(r) \in Pos
      BY <1>8, <2>1 DEF Pos
    <2>7. QED
      BY <1>2, <1>3, <1>4, <1>8, <2>1, <2>4, <2>5, <2>6
  <1>9. QED
    BY <1>7, <1>8

(* Its versions: those there were, and a first one for a new source. *)
LEMMA VersionsWithFacts ==
    ASSUME RowsInv, SourceIds, VersionsBelong, NEW r, r.source \in Nat, r.source # 0 => Intact(r)
    PROVE  /\ VersionsWith(r) \subseteq Pos \X Pos /\ IsFiniteSet(VersionsWith(r))
           /\ versions \subseteq VersionsWith(r)
           /\ \E v \in VersionsWith(r) : v[1] = SourceId(r)
           /\ r.source = 0 => VersionsWith(r) = versions \cup {<<next.source, 1>>}
           /\ r.source # 0 => VersionsWith(r) = versions
  <1>1. versions \subseteq Pos \X Pos /\ IsFiniteSet(versions) /\ next.source \in Pos
    BY DEF RowsInv
  <1>2. CASE r.source = 0
    <2>1. VersionsWith(r) = versions \cup {<<next.source, 1>>} /\ SourceId(r) = next.source
      BY <1>2 DEF VersionsWith, SourceId
    <2>2. <<next.source, 1>> \in Pos \X Pos /\ <<next.source, 1>>[1] = next.source
      BY <1>1 DEF Pos
    <2>3. IsFiniteSet(versions \cup {<<next.source, 1>>})
      BY <1>1, FS_AddElement
    <2>4. QED
      BY <1>1, <1>2, <2>1, <2>2, <2>3
  <1>3. CASE r.source # 0
    <2>1. VersionsWith(r) = versions /\ SourceId(r) = r.source
      BY <1>3 DEF VersionsWith, SourceId
    <2>2. PICK s \in sources : s.id = r.source
      BY <1>3 DEF Intact
    <2>3. PICK v \in versions : v[1] = s.id
      BY <2>2 DEF VersionsBelong
    <2>4. QED
      BY <1>1, <1>3, <2>1, <2>2, <2>3
  <1>4. QED
    BY <1>2, <1>3

(* The version a mapping is published under: the first of a name nothing   *)
(* is known of, else one that is free.                                     *)
LEMMA NextVersionFacts ==
    ASSUME NEW r, VersionsWith(r) \subseteq Pos \X Pos, IsFiniteSet(VersionsWith(r)),
           \E v \in VersionsWith(r) : v[1] = SourceId(r)
    PROVE  /\ next_version(r) \in Pos
           /\ (\E m \in mappings : m.name = r.name) =>
                <<SourceId(r), next_version(r)>> \notin VersionsWith(r)
           /\ (~\E m \in mappings : m.name = r.name) =>
                <<SourceId(r), next_version(r)>> \in VersionsWith(r)
  <1> DEFINE W == VersionsWith(r)
             X == {x \in W : x[1] = SourceId(r)}
             taken == {v[2] : v \in X}
             n == Cardinality(taken)
             free == (2 .. n + 2) \ taken
  <1>1. W \subseteq Pos \X Pos /\ IsFiniteSet(W) /\ X # {}
    OBVIOUS
  <1>2. IsFiniteSet(taken)
    <2>1. IsFiniteSet(X)
      BY <1>1, FS_Subset
    <2> DEFINE f == [v \in X |-> v[2]]
    <2>2. f \in Surjection(X, taken)
      BY DEF Surjection
    <2> HIDE DEF f, taken, X
    <2>3. QED
      BY <2>1, <2>2, FS_Surjection
  <1>3. taken \subseteq Pos /\ taken # {}
    BY <1>1
  <1>4. \A k \in Pos : <<SourceId(r), k>> \in W => k \in taken
    BY <1>1
  <1>5. \A k \in taken : <<SourceId(r), k>> \in W
    BY <1>1
  <1>6. next_version(r) = IF \E m \in mappings : m.name = r.name THEN Min(free) ELSE Min(taken)
    BY DEF next_version
  <1> HIDE DEF W, X, taken
  <1>7. n \in Nat
    BY <1>2, FS_CardinalityType
  <1>8. free # {}
    <2> SUFFICES ASSUME free = {} PROVE FALSE
      OBVIOUS
    <2> HIDE DEF n
    <2>1. 2 .. n + 2 \subseteq taken
      OBVIOUS
    <2>2. IsFiniteSet(2 .. n + 2) /\ Cardinality(2 .. n + 2) = n + 1
      BY <1>7, FS_Interval
    <2>3. Cardinality(2 .. n + 2) <= n
      BY <1>2, <2>1, FS_Subset DEF n
    <2>4. QED
      BY <1>7, <2>2, <2>3
  <1>9. free \subseteq Pos
    BY <1>7 DEF Pos
  <1>10. \A k \in free : k \notin taken
    OBVIOUS
  <1> HIDE DEF free
  <1>11. Min(free) \in free /\ Min(taken) \in taken
    BY <1>3, <1>8, <1>9, NumbersHaveMin DEF Pos
  <1>12. QED
    BY <1>3, <1>4, <1>5, <1>6, <1>9, <1>10, <1>11 DEF W

-----------------------------------------------------------------------------
(* What others do to the memory of a request *)

(* Ids below the next ones keep their meaning. *)
Frame ==
    /\ EnvsGrow
    /\ next'.source \in Nat /\ next.source <= next'.source
    /\ next'.event \in Nat /\ next.event <= next'.event
    /\ \A s \in sources' : s \in sources \/ s.id >= next.source
    /\ \A e \in events' :
         \/ e.id >= next.event
         \/ \E f \in events : /\ f.id = e.id /\ f.env = e.env
                              /\ f.name # NoName => e.name # NoName
    /\ Len(onboardings') \in Nat /\ DOMAIN onboardings' = 1 .. Len(onboardings')
    /\ Len(onboardings) <= Len(onboardings')

LEMMA FrameSound ==
    ASSUME RowsInv, Frame, NEW r \in RequestRow,
           Sound(r, envs, sources, events, onboardings, next)
    PROVE  Sound(r, envs', sources', events', onboardings', next')
  <1>1. /\ next.source \in Nat /\ next.event \in Nat
        /\ Len(onboardings) \in Nat /\ DOMAIN onboardings = 1 .. Len(onboardings)
        /\ envs \in Seq(EnvNames) /\ Len(envs) \in Nat /\ DOMAIN envs = 1 .. Len(envs)
    BY DEF RowsInv, Pos
  <1>2. /\ r.source \in Nat /\ r.target \in Nat /\ r.envRow \in Nat
        /\ r.found.events \subseteq Nat
    BY DEF RequestRow, FoundRow
  <1>3. ASSUME Meant(r, envs, sources, next)
        PROVE  Meant(r, envs', sources', next')
    <2>1. /\ r.env \in EnvNames
          /\ r.envRow # 0 => r.envRow \in DOMAIN envs' /\ Lower[envs'[r.envRow]] = Lower[r.env]
      BY <1>3 DEF Meant, Frame, EnvsGrow
    <2>2. ASSUME r.source # 0
          PROVE  /\ r.source < next'.source /\ r.envRow # 0
                 /\ \A s \in sources' : s.id = r.source => s.name = r.name /\ s.env = r.envRow
      <3>1. /\ r.source < next.source /\ r.envRow # 0
            /\ \A s \in sources : s.id = r.source => s.name = r.name /\ s.env = r.envRow
        BY <1>3, <2>2 DEF Meant
      <3>2. r.source < next'.source
        BY <1>1, <1>2, <3>1 DEF Frame
      <3>3. \A s \in sources' : s.id = r.source => s \in sources
        BY <1>1, <1>2, <3>1 DEF Frame
      <3>4. QED
        BY <3>1, <3>2, <3>3
    <2>3. QED
      BY <2>1, <2>2 DEF Meant
  <1>4. r.op = "delete" => r.env \in EnvNames /\ r.name \in Names /\ r.envRow <= Len(envs')
    <2>1. Len(envs') \in Nat /\ Len(envs) <= Len(envs')
      BY DEF Frame, EnvsGrow
    <2>2. QED
      BY <1>1, <1>2, <2>1 DEF Sound
  <1>5. r.op = "approve" => r.target \in DOMAIN onboardings'
    BY <1>1, <1>2 DEF Sound, Frame
  <1>6. ASSUME r.op = "adopt"
        PROVE  r.target < next'.event /\ \A e \in events' : e.id = r.target => e.env = r.env
    <2>1. r.target < next.event /\ \A e \in events : e.id = r.target => e.env = r.env
      BY <1>6 DEF Sound
    <2>2. r.target < next'.event
      BY <1>1, <1>2, <2>1 DEF Frame
    <2>3. ASSUME NEW e \in events', e.id = r.target PROVE e.env = r.env
      <3>1. ~(e.id >= next.event)
        BY <1>1, <1>2, <2>1, <2>3
      <3>2. PICK f \in events : f.id = e.id /\ f.env = e.env
        BY <3>1 DEF Frame
      <3>3. QED
        BY <2>1, <2>3, <3>2
    <2>4. QED
      BY <2>2, <2>3
  <1>7. ASSUME r.op = "release"
        PROVE  /\ \A i \in r.found.events : i < next'.event
               /\ \A e \in events' : e.id \in r.found.events => e.name # NoName
    <2>1. /\ \A i \in r.found.events : i < next.event
          /\ \A e \in events : e.id \in r.found.events => e.name # NoName
      BY <1>7 DEF Sound
    <2>2. \A i \in r.found.events : i < next'.event
      BY <1>1, <1>2, <2>1 DEF Frame
    <2>3. ASSUME NEW e \in events', e.id \in r.found.events PROVE e.name # NoName
      <3>1. ~(e.id >= next.event)
        BY <1>1, <1>2, <2>1, <2>3
      <3>2. PICK f \in events : f.id = e.id /\ (f.name # NoName => e.name # NoName)
        BY <3>1 DEF Frame
      <3>3. QED
        BY <2>1, <2>3, <3>2
    <2>4. QED
      BY <2>2, <2>3
  <1>8. QED
    BY <1>3, <1>4, <1>5, <1>6, <1>7 DEF Sound

(* A step of one thread, which then remembers r. *)
LEMMA Moves ==
    ASSUME RowsInv, Remembered, Frame, NEW t \in Threads, NEW r \in RequestRow,
           thr' = [thr EXCEPT ![t] = r],
           Sound(r, envs', sources', events', onboardings', next')
    PROVE  thr' \in [Threads -> RequestRow] /\ Remembered'
  <1>1. /\ thr \in [Threads -> RequestRow] /\ thr' \in [Threads -> RequestRow]
        /\ thr'[t] = r /\ \A u \in Threads : u # t => thr'[u] = thr[u]
    BY DEF RowsInv
  <1>2. ASSUME NEW u \in Threads
        PROVE  Sound(thr'[u], envs', sources', events', onboardings', next')
    <2>1. CASE u = t
      BY <1>1, <2>1
    <2>2. CASE u # t
      <3>1. /\ thr'[u] = thr[u] /\ thr[u] \in RequestRow
            /\ Sound(thr[u], envs, sources, events, onboardings, next)
        BY <1>1, <2>2 DEF Remembered
      <3>2. QED
        BY <3>1, FrameSound
    <2>3. QED
      BY <2>1, <2>2
  <1>3. QED
    BY <1>1, <1>2 DEF Remembered

LEMMA Stays ==
    ASSUME RowsInv, Remembered, Frame, UNCHANGED thr
    PROVE  thr' \in [Threads -> RequestRow] /\ Remembered'
  <1>1. thr' = thr /\ thr \in [Threads -> RequestRow]
    BY DEF RowsInv
  <1>2. ASSUME NEW u \in Threads
        PROVE  Sound(thr'[u], envs', sources', events', onboardings', next')
    <2>1. thr[u] \in RequestRow /\ Sound(thr[u], envs, sources, events, onboardings, next)
      BY <1>1 DEF Remembered
    <2>2. QED
      BY <1>1, <2>1, FrameSound
  <1>3. QED
    BY <1>1, <1>2 DEF Remembered

LEMMA IdleFacts ==
    /\ Idle \in RequestRow
    /\ Idle.op = "none" /\ Idle.env = NoName /\ Idle.name = NoName /\ Idle.envRow = 0
    /\ Idle.source = 0 /\ Idle.target = 0 /\ Idle.found = Nothing
    /\ \A E, S, V, O, n : Sound(Idle, E, S, V, O, n)
  BY DEF Idle, Nothing, RequestRow, FoundRow, Ops, Sound

-----------------------------------------------------------------------------
(* Steps that leave the tables *)

NextRow == [source : Pos, mapping : Pos, event : Pos, drift : Pos, request : Pos]

(* Other numbers to give, no table changed. *)
LEMMA QuietStep ==
    ASSUME IInv, UNCHANGED <<envs, sources, knowledge, events, alone>>,
           onboardings' \in Seq(SampleRow), Len(onboardings) <= Len(onboardings'),
           next' \in NextRow, next'.source = next.source, next'.mapping = next.mapping,
           next'.event = next.event
    PROVE  /\ Frame
           /\ (thr' \in [Threads -> RequestRow] /\ Remembered') => IInv'
  <1>1. /\ envs' = envs /\ sources' = sources /\ versions' = versions /\ mappings' = mappings
        /\ recipes' = recipes /\ drifts' = drifts /\ batches' = batches /\ events' = events
        /\ alone' = alone
    BY DEF knowledge
  <1>2. RowsInv /\ EnvsGrow
    BY <1>1, SameEnvs DEF IInv
  <1>3. next.source \in Nat /\ next.event \in Nat
    BY <1>2 DEF RowsInv, Pos
  <1>4. Len(onboardings') \in Nat /\ DOMAIN onboardings' = 1 .. Len(onboardings')
    OBVIOUS
  <1>5. Frame
    BY <1>1, <1>2, <1>3, <1>4 DEF Frame
  <1>6. SourceIds' /\ EventIds' /\ VersionsBelong' /\ EventsKnowTheirSource'
    BY <1>1 DEF IInv, SourceIds, EventIds, VersionsBelong, EventsKnowTheirSource
  <1>7. ASSUME thr' \in [Threads -> RequestRow] PROVE RowsInv'
    BY <1>1, <1>2, <1>7 DEF RowsInv, NextRow
  <1>8. QED
    BY <1>5, <1>6, <1>7 DEF IInv

LEMMA RequestStep ==
    ASSUME IInv, Request
    PROVE  /\ next' \in NextRow /\ next'.source = next.source /\ next'.mapping = next.mapping
           /\ next'.event = next.event
  <1>1. next \in NextRow
    BY DEF IInv, RowsInv, NextRow
  <1>2. next' = [next EXCEPT !.request = @ + 1]
    BY DEF Request
  <1>3. QED
    BY <1>1, <1>2 DEF NextRow, Pos

LEMMA SameSamples ==
    ASSUME IInv, UNCHANGED onboardings
    PROVE  onboardings' \in Seq(SampleRow) /\ Len(onboardings) <= Len(onboardings')
  BY DEF IInv, RowsInv

(* A request that takes the place of r, tables untouched. *)
LEMMA QuietMove ==
    ASSUME IInv, UNCHANGED <<envs, sources, knowledge, events, onboardings, alone>>,
           next' \in NextRow, next'.source = next.source, next'.mapping = next.mapping,
           next'.event = next.event,
           NEW t \in Threads, NEW r \in RequestRow, thr' = [thr EXCEPT ![t] = r],
           Sound(r, envs, sources, events, onboardings, next)
    PROVE  IInv'
  <1>1. RowsInv /\ Remembered /\ onboardings' \in Seq(SampleRow) /\ Len(onboardings) <= Len(onboardings')
    BY SameSamples DEF IInv
  <1>2. Frame /\ ((thr' \in [Threads -> RequestRow] /\ Remembered') => IInv')
    BY <1>1, QuietStep
  <1>3. Sound(r, envs', sources', events', onboardings', next')
    BY <1>1, <1>2, FrameSound
  <1>4. QED
    BY <1>1, <1>2, <1>3, Moves

LEMMA BeginInv ==
    ASSUME IInv, NEW t \in Threads, NEW op \in {"event", "batch", "sample", "approve", "adopt"},
           NEW env \in EnvNames, NEW name \in Names \cup {NoName}, NEW target \in Nat,
           op \in {"approve", "adopt"} => name \in Names,
           op = "approve" => target \in DOMAIN onboardings,
           op = "adopt" => \E e \in events : e.id = target /\ e.env = env,
           Begin(t, op, env, name, target)
    PROVE  IInv'
  <1> DEFINE k == environment_row_id(env)
             i == IF name = NoName THEN 0 ELSE FindSource(name, env)
             r == [Idle EXCEPT !.op = op, !.env = env, !.name = name, !.target = target,
                               !.envRow = k, !.source = i]
  <1>1. RowsInv /\ SourceIds /\ EventIds
    BY DEF IInv
  <1>2. /\ k \in Nat
        /\ k # 0 => k \in DOMAIN envs /\ Lower[envs[k]] = Lower[env]
    BY <1>1, EnvironmentFacts
  <1>3. /\ i \in Nat
        /\ i # 0 => /\ k # 0 /\ i < next.source
                    /\ \A s \in sources : s.id = i => s.name = name /\ s.env = k
    BY <1>1, SourceFacts
  <1>4. thr' = [thr EXCEPT ![t] = r] /\ UNCHANGED <<envs, sources, knowledge, events, onboardings, alone>>
    BY DEF Begin
  <1>5. Request
    BY DEF Begin
  <1> HIDE DEF k, i
  <1>6. /\ r.op = op /\ r.env = env /\ r.name = name /\ r.target = target /\ r.envRow = k
        /\ r.source = i /\ r.found = Nothing /\ r \in RequestRow
    BY <1>2, <1>3, IdleFacts DEF RequestRow, Ops
  <1> HIDE DEF r
  <1>7. Meant(r, envs, sources, next)
    BY <1>2, <1>3, <1>6 DEF Meant
  <1>8. op = "adopt" => target < next.event /\ \A e \in events : e.id = target => e.env = env
    BY <1>1 DEF EventIds
  <1>9. Sound(r, envs, sources, events, onboardings, next)
    BY <1>6, <1>7, <1>8 DEF Sound
  <1>10. QED
    BY <1>4, <1>5, <1>6, <1>9, RequestStep, QuietMove

LEMMA FailInv ==
    ASSUME IInv, NEW t \in Threads, Fail(t)
    PROVE  IInv'
  <1>1. thr' = [thr EXCEPT ![t] = Idle] /\ UNCHANGED <<envs, sources, knowledge, events, onboardings, next, alone>>
    BY DEF Fail
  <1>2. next' \in NextRow /\ next' = next
    BY <1>1 DEF IInv, RowsInv, NextRow
  <1>3. QED
    BY <1>1, <1>2, IdleFacts, QuietMove

LEMMA AnswerInv ==
    ASSUME IInv, NEW t \in Threads, Answer(t)
    PROVE  IInv'
  <1>1. thr' = [thr EXCEPT ![t] = Idle] /\ UNCHANGED <<envs, sources, knowledge, events, onboardings, next, alone>>
    BY DEF Answer, Done
  <1>2. next' \in NextRow /\ next' = next
    BY <1>1 DEF IInv, RowsInv, NextRow
  <1>3. QED
    BY <1>1, <1>2, IdleFacts, QuietMove

LEMMA DeleteInv ==
    ASSUME IInv, NEW t \in Threads, NEW name \in Names, NEW env \in EnvNames,
           delete_connection(t, name, env)
    PROVE  IInv'
  <1> DEFINE k == environment_row_id(env)
             mine == SourcesOf(name, k)
             f == [sources |-> {s.id : s \in mine},
                   events |-> {e.id : e \in EventsOf(name, env)},
                   mappings |-> {m.id : m \in KnowledgeOf(name)},
                   drifts |-> {d.id : d \in {x \in drifts : x.name = name}},
                   recipes |-> {b.name : b \in {x \in recipes : x.name = name}},
                   batches |-> {b.id : b \in {x \in batches : x.name = name}}]
             r == [Idle EXCEPT !.op = "delete", !.env = env, !.name = name, !.envRow = k, !.found = f]
  <1>1. RowsInv
    BY DEF IInv
  <1>2. k \in Nat /\ k <= Len(envs)
    BY <1>1, EnvironmentFacts
  <1>3. /\ {s.id : s \in mine} \subseteq Nat
        /\ {e.id : e \in EventsOf(name, env)} \subseteq Nat
        /\ {m.id : m \in KnowledgeOf(name)} \subseteq Nat
        /\ {d.id : d \in {x \in drifts : x.name = name}} \subseteq Nat
        /\ {b.name : b \in {x \in recipes : x.name = name}} \subseteq Names
        /\ {b.id : b \in {x \in batches : x.name = name}} \subseteq Nat
    BY <1>1 DEF RowsInv, SourcesOf, EventsOf, KnowledgeOf, SourceRow, EventRow, MappingRow,
                DriftRow, RunRow, Pos
  <1>4. f \in FoundRow
    BY <1>3 DEF FoundRow
  <1>5. /\ thr' = [thr EXCEPT ![t] = r] /\ Request
        /\ UNCHANGED <<envs, sources, knowledge, events, onboardings, alone>>
    BY DEF delete_connection
  <1> HIDE DEF k, f
  <1>6. /\ r.op = "delete" /\ r.env = env /\ r.name = name /\ r.envRow = k
        /\ r \in RequestRow
    BY <1>2, <1>4, IdleFacts DEF RequestRow, Ops
  <1> HIDE DEF r
  <1>7. Sound(r, envs, sources, events, onboardings, next)
    BY <1>2, <1>6 DEF Sound
  <1>8. QED
    BY <1>5, <1>6, <1>7, RequestStep, QuietMove

LEMMA AnalyzeInv ==
    ASSUME IInv, NEW k \in DOMAIN onboardings, analyze_onboarding(k)
    PROVE  IInv'
  <1>1. /\ onboardings' = [onboardings EXCEPT ![k].status = "review"] /\ Request
        /\ UNCHANGED <<envs, sources, knowledge, events, alone>> /\ UNCHANGED thr
    BY DEF analyze_onboarding
  <1>2. RowsInv /\ Remembered
    BY DEF IInv
  <1>3. onboardings \in Seq(SampleRow)
    BY <1>2 DEF RowsInv
  <1>4. onboardings[k] \in SampleRow
    BY <1>3
  <1>5. [onboardings[k] EXCEPT !.status = "review"] \in SampleRow
    BY <1>4 DEF SampleRow
  <1>6. onboardings' \in Seq(SampleRow) /\ Len(onboardings) <= Len(onboardings')
    BY <1>1, <1>3, <1>5
  <1>7. Frame /\ ((thr' \in [Threads -> RequestRow] /\ Remembered') => IInv')
    BY <1>1, <1>6, RequestStep, QuietStep
  <1>8. QED
    BY <1>1, <1>2, <1>7, Stays

-----------------------------------------------------------------------------
(* Steps that register *)

(* The source an event is stored for. *)
Knows(e, E, S) ==
    /\ e.name # NoName => \E s \in S : /\ s.id = e.source /\ s.name = e.name
                                       /\ e.old \/ Lower[E[s.env]] = Lower[e.env]
    /\ e.name = NoName => e.source = 0

LEMMA KnowsAll ==
    /\ EventsKnowTheirSource <=> \A e \in events : Knows(e, envs, sources)
    /\ EventsKnowTheirSource' <=> \A e \in events' : Knows(e, envs', sources')
  BY DEF EventsKnowTheirSource, Knows

LEMMA StillKnows ==
    ASSUME IInv, EnvsGrow, sources \subseteq sources', NEW e \in events
    PROVE  Knows(e, envs', sources')
  <1>1. Knows(e, envs, sources)
    BY KnowsAll DEF IInv
  <1>2. \A s \in sources : s \in sources' /\ envs'[s.env] = envs[s.env]
    BY DEF IInv, SourceIds, EnvsGrow
  <1>3. QED
    BY <1>1, <1>2 DEF Knows

(* What a registration says of the sources, their versions and the         *)
(* mappings published with it.                                             *)
Registers(r) ==
    /\ r.name \in Names /\ r.envRow \in Nat /\ r.source \in Nat
    /\ Meant(r, envs, sources, next) /\ Intact(r) /\ Register(r)
    /\ next' \in NextRow /\ next'.source = SourceNumber(r)
    /\ next.mapping <= next'.mapping /\ next.event <= next'.event
    /\ \/ versions' = VersionsWith(r)
       \/ \E n \in Pos : versions' = VersionsWith(r) \cup {<<SourceId(r), n>>}
    /\ mappings' \subseteq MappingRow
    /\ \A m \in mappings' :
         m \in mappings \/ (m.name = r.name /\ m.version[1] = SourceId(r) /\ m.id < next'.mapping)

LEMMA Registered ==
    ASSUME IInv, NEW r, Registers(r)
    PROVE  /\ EnvsGrow /\ sources \subseteq sources' /\ sources' \subseteq SourceRow
           /\ EnvRow(r.envRow) \in Pos
           /\ SourceId(r) \in Pos
           /\ \E s \in sources' : /\ s.id = SourceId(r) /\ s.name = r.name
                                  /\ Lower[envs'[s.env]] = Lower[r.env]
           /\ \A s \in sources' : s \in sources \/ s.id = next.source
           /\ next.source <= next'.source /\ next'.source \in Nat /\ next'.event \in Nat
           /\ versions' \subseteq Pos \X Pos /\ IsFiniteSet(versions')
           /\ SourceIds' /\ VersionsBelong'
           /\ \A e \in events : Knows(e, envs', sources')
  <1>1. RowsInv /\ SourceIds /\ VersionsBelong
    BY DEF IInv
  <1>2. next \in NextRow /\ next' \in NextRow
    BY <1>1 DEF RowsInv, NextRow, Registers
  <1>3. /\ next.source \in Pos /\ next.mapping \in Pos /\ next.event \in Pos
        /\ next'.source \in Pos /\ next'.mapping \in Pos /\ next'.event \in Pos
    BY <1>2 DEF NextRow
  <1>4. /\ next.source <= next'.source /\ next'.source \in Nat /\ next'.event \in Nat
        /\ r.source = 0 => next.source < next'.source
    BY <1>3 DEF Registers, SourceNumber, Pos
  <1>5. /\ EnvsGrow
        /\ sources' \subseteq SourceRow /\ sources \subseteq sources'
        /\ SourceId(r) \in Pos /\ EnvRow(r.envRow) \in Pos
        /\ \E s \in sources' : /\ s.id = SourceId(r) /\ s.name = r.name
                               /\ s.env = EnvRow(r.envRow)
        /\ Lower[envs'[EnvRow(r.envRow)]] = Lower[r.env]
        /\ \A s \in sources' : s \in sources \/ (r.source = 0 /\ s = TheSource(r))
        /\ SourceIds'
    BY <1>1, RegisterFacts DEF Registers
  <1>6. /\ VersionsWith(r) \subseteq Pos \X Pos /\ IsFiniteSet(VersionsWith(r))
        /\ versions \subseteq VersionsWith(r)
        /\ \E v \in VersionsWith(r) : v[1] = SourceId(r)
        /\ r.source = 0 => VersionsWith(r) = versions \cup {<<next.source, 1>>}
        /\ r.source # 0 => VersionsWith(r) = versions
    BY <1>1, VersionsWithFacts DEF Registers
  <1>7. TheSource(r).id = next.source /\ TheSource(r).name = r.name
    BY DEF TheSource
  <1>8. /\ versions' \subseteq Pos \X Pos /\ IsFiniteSet(versions')
        /\ VersionsWith(r) \subseteq versions'
        /\ \A v \in versions' : v \in VersionsWith(r) \/ v[1] = SourceId(r)
    <2>1. CASE versions' = VersionsWith(r)
      BY <1>6, <2>1
    <2>2. CASE \E n \in Pos : versions' = VersionsWith(r) \cup {<<SourceId(r), n>>}
      <3>1. PICK n \in Pos : versions' = VersionsWith(r) \cup {<<SourceId(r), n>>}
        BY <2>2
      <3>2. <<SourceId(r), n>> \in Pos \X Pos /\ <<SourceId(r), n>>[1] = SourceId(r)
        BY <1>5, <3>1
      <3>3. IsFiniteSet(VersionsWith(r) \cup {<<SourceId(r), n>>})
        BY <1>6, FS_AddElement
      <3>4. QED
        BY <1>6, <3>1, <3>2, <3>3
    <2>3. QED
      BY <2>1, <2>2 DEF Registers
  <1>9. VersionsBelong'
    <2>1. ASSUME NEW v \in versions' PROVE \E s \in sources' : s.id = v[1]
      <3>1. CASE v \in versions
        BY <1>1, <1>5, <3>1 DEF VersionsBelong
      <3>2. CASE v[1] = SourceId(r)
        BY <1>5, <3>2
      <3>3. CASE v \in VersionsWith(r) /\ v \notin versions
        <4>1. r.source = 0 /\ v = <<next.source, 1>>
          BY <1>6, <3>3
        <4>2. v[1] = SourceId(r)
          BY <4>1 DEF SourceId
        <4>3. QED
          BY <1>5, <4>2
      <3>4. QED
        BY <1>8, <3>1, <3>2, <3>3
    <2>2. ASSUME NEW s \in sources' PROVE \E v \in versions' : v[1] = s.id
      <3>1. CASE s \in sources
        <4>1. \E v \in versions : v[1] = s.id
          BY <1>1, <3>1 DEF VersionsBelong
        <4>2. QED
          BY <1>6, <1>8, <4>1
      <3>2. CASE r.source = 0 /\ s = TheSource(r)
        <4>1. s.id = SourceId(r)
          BY <1>7, <3>2 DEF SourceId
        <4>2. QED
          BY <1>6, <1>8, <4>1
      <3>3. QED
        BY <1>5, <3>1, <3>2
    <2>3. /\ SourceId(r) < next'.source
      <3>1. CASE r.source = 0
        BY <1>4, <3>1 DEF SourceId
      <3>2. CASE r.source # 0
        <4>1. r.source < next.source /\ r.source \in Nat
          BY <3>2 DEF Registers, Meant
        <4>2. QED
          BY <1>3, <1>4, <3>2, <4>1 DEF SourceId, Pos
      <3>3. QED
        BY <3>1, <3>2
    <2>4. ASSUME NEW m \in mappings'
          PROVE  /\ m.id < next'.mapping /\ m.version[1] < next'.source
                 /\ \A s \in sources' : s.id = m.version[1] => s.name = m.name
      <3>1. m \in MappingRow
        BY DEF Registers
      <3>2. m.id \in Nat /\ m.version[1] \in Nat
        BY <3>1 DEF MappingRow, Pos
      <3>3. CASE m \in mappings
        <4>1. /\ m.id < next.mapping /\ m.version[1] < next.source
              /\ \A s \in sources : s.id = m.version[1] => s.name = m.name
          BY <1>1, <3>3 DEF VersionsBelong
        <4>2. m.id < next'.mapping /\ m.version[1] < next'.source
          BY <1>3, <1>4, <3>2, <4>1 DEF Registers, Pos
        <4>3. m.version[1] # next.source
          BY <1>3, <3>2, <4>1 DEF Pos
        <4>4. QED
          BY <1>5, <1>7, <4>1, <4>2, <4>3
      <3>4. CASE m.name = r.name /\ m.version[1] = SourceId(r) /\ m.id < next'.mapping
        <4>1. \A s \in sources' : s.id = SourceId(r) => s.name = r.name
          BY <1>5 DEF SourceIds
        <4>2. QED
          BY <2>3, <3>4, <4>1
      <3>5. QED
        BY <3>3, <3>4 DEF Registers
    <2>5. QED
      BY <2>1, <2>2, <2>4 DEF VersionsBelong
  <1>10. \A e \in events : Knows(e, envs', sources')
    BY <1>5, StillKnows
  <1>11. QED
    BY <1>4, <1>5, <1>7, <1>8, <1>9, <1>10

(* A step that registers and moves one thread. *)
LEMMA RegisterMove ==
    ASSUME IInv, NEW r, Registers(r),
           recipes' \subseteq [name : Names, mapping : Pos], drifts' \subseteq DriftRow,
           batches' \subseteq RunRow,
           events' \subseteq EventRow, onboardings' \in Seq(SampleRow),
           Len(onboardings) <= Len(onboardings'), UNCHANGED alone,
           EventIds', EventsKnowTheirSource',
           \A e \in events' :
             \/ e.id >= next.event
             \/ \E f \in events : /\ f.id = e.id /\ f.env = e.env
                                  /\ f.name # NoName => e.name # NoName,
           NEW t \in Threads, NEW n \in RequestRow, thr' = [thr EXCEPT ![t] = n],
           Sound(n, envs', sources', events', onboardings', next')
    PROVE  IInv'
  <1>1. RowsInv /\ Remembered
    BY DEF IInv
  <1>2. /\ EnvsGrow /\ sources' \subseteq SourceRow
        /\ \A s \in sources' : s \in sources \/ s.id = next.source
        /\ next.source <= next'.source /\ next'.source \in Nat /\ next'.event \in Nat
        /\ versions' \subseteq Pos \X Pos /\ IsFiniteSet(versions')
        /\ SourceIds' /\ VersionsBelong'
    BY Registered
  <1>3. next.source \in Nat /\ Len(onboardings') \in Nat /\ DOMAIN onboardings' = 1 .. Len(onboardings')
    BY <1>1 DEF RowsInv, Pos
  <1>4. Frame
    <2>1. \A s \in sources' : s \in sources \/ s.id >= next.source
      BY <1>2, <1>3
    <2>2. next.event <= next'.event
      BY DEF Registers
    <2>3. QED
      BY <1>2, <1>3, <2>1, <2>2 DEF Frame
  <1>5. thr' \in [Threads -> RequestRow] /\ Remembered'
    BY <1>1, <1>4, Moves
  <1>6. RowsInv'
    <2>1. envs' \in Seq(EnvNames)
      BY <1>2 DEF EnvsGrow
    <2>2. next' \in NextRow /\ mappings' \subseteq MappingRow
      BY DEF Registers
    <2>3. alone' \in BOOLEAN
      BY <1>1 DEF RowsInv
    <2>4. QED
      BY <1>2, <1>5, <2>1, <2>2, <2>3 DEF RowsInv, NextRow
  <1>7. QED
    BY <1>2, <1>5, <1>6 DEF IInv

LEMMA NextIdsFacts ==
    ASSUME IInv, NEW r, NEW i \in {0, 1}, NEW j \in {0, 1}
    PROVE  LET n == NextIds(r, i, j)
           IN  /\ n \in NextRow /\ n.source = SourceNumber(r) /\ n.drift = next.drift
               /\ n.event = next.event + i /\ n.mapping = next.mapping + j
               /\ next.event <= n.event /\ next.mapping <= n.mapping
               /\ [n EXCEPT !.drift = @ + 1] \in NextRow
               /\ [n EXCEPT !.drift = @ + 1].source = n.source
               /\ [n EXCEPT !.drift = @ + 1].event = n.event
               /\ [n EXCEPT !.drift = @ + 1].mapping = n.mapping
  <1>1. next \in NextRow
    BY DEF IInv, RowsInv, NextRow
  <1>2. /\ next.source \in Nat /\ next.event \in Nat /\ next.mapping \in Nat
    BY <1>1 DEF NextRow, Pos
  <1> DEFINE a == SourceNumber(r)
             b == next.event + i
             c == next.mapping + j
             n == [next EXCEPT !.source = a, !.event = b, !.mapping = c]
  <1>3. a \in Pos /\ b \in Pos /\ c \in Pos /\ next.event <= b /\ next.mapping <= c
    BY <1>1, <1>2 DEF SourceNumber, NextRow, Pos
  <1>4. NextIds(r, i, j) = n
    BY <1>1 DEF NextIds, SourceNumber, NextRow
  <1> HIDE DEF a, b, c
  <1>5. /\ n \in NextRow /\ n.source = a /\ n.drift = next.drift /\ n.event = b /\ n.mapping = c
    BY <1>1, <1>3 DEF NextRow
  <1> HIDE DEF n
  <1>6. /\ [n EXCEPT !.drift = @ + 1] \in NextRow
        /\ [n EXCEPT !.drift = @ + 1].source = n.source
        /\ [n EXCEPT !.drift = @ + 1].event = n.event
        /\ [n EXCEPT !.drift = @ + 1].mapping = n.mapping
    BY <1>5 DEF NextRow, Pos
  <1>7. QED
    BY <1>3, <1>4, <1>5, <1>6 DEF a, b, c

(* What the thread's request is when it commits. *)
LEMMA ThreadFacts ==
    ASSUME IInv, NEW t \in Threads
    PROVE  /\ thr[t] \in RequestRow
           /\ thr[t].name \in Names \cup {NoName} /\ thr[t].envRow \in Nat
           /\ thr[t].source \in Nat /\ thr[t].target \in Nat /\ thr[t].found \in FoundRow
           /\ Sound(thr[t], envs, sources, events, onboardings, next)
           /\ thr[t].op \in {"event", "batch", "sample", "approve", "adopt"} =>
                 Meant(thr[t], envs, sources, next)
  <1>1. thr[t] \in RequestRow
    BY DEF IInv, RowsInv
  <1>2. Sound(thr[t], envs, sources, events, onboardings, next)
    BY DEF IInv, Remembered
  <1>3. QED
    BY <1>1, <1>2 DEF RequestRow, Sound

(* One more event, which knows its source. *)
LEMMA NewEvent ==
    ASSUME IInv, NEW e \in EventRow, e.id = next.event, events' = events \cup {e},
           next'.event = next.event + 1, Knows(e, envs', sources'),
           \A d \in events : Knows(d, envs', sources')
    PROVE  /\ events' \subseteq EventRow /\ EventIds' /\ EventsKnowTheirSource'
           /\ \A d \in events' :
                \/ d.id >= next.event
                \/ \E f \in events : /\ f.id = d.id /\ f.env = d.env
                                     /\ f.name # NoName => d.name # NoName
  <1>1. /\ next.event \in Nat /\ events \subseteq EventRow
        /\ \A d \in events : d.id \in Nat /\ d.id < next.event
    BY DEF IInv, RowsInv, EventIds, EventRow, Pos
  <1>2. EventIds'
    <2>1. \A d \in events' : d.id < next'.event
      BY <1>1
    <2>2. \A d, f \in events' : d.id = f.id => d = f
      BY <1>1 DEF IInv, EventIds
    <2>3. QED
      BY <2>1, <2>2 DEF EventIds
  <1>3. EventsKnowTheirSource'
    BY KnowsAll
  <1>4. QED
    BY <1>1, <1>2, <1>3

LEMMA SameEvents ==
    ASSUME IInv, UNCHANGED events, next.event <= next'.event, next'.event \in Nat,
           \A d \in events : Knows(d, envs', sources')
    PROVE  /\ events' \subseteq EventRow /\ EventIds' /\ EventsKnowTheirSource'
           /\ \A d \in events' :
                \/ d.id >= next.event
                \/ \E f \in events : /\ f.id = d.id /\ f.env = d.env
                                     /\ f.name # NoName => d.name # NoName
  <1>1. /\ next.event \in Nat /\ events \subseteq EventRow
        /\ \A d \in events : d.id \in Nat /\ d.id < next.event
    BY DEF IInv, RowsInv, EventIds, EventRow, Pos
  <1>2. EventIds'
    BY <1>1 DEF IInv, EventIds
  <1>3. EventsKnowTheirSource'
    BY KnowsAll
  <1>4. QED
    BY <1>1, <1>2, <1>3

LEMMA PayloadRegisters ==
    ASSUME IInv, NEW t \in Threads, NEW s \in {"normalized", "quarantined"},
           process_payload(t, s)
    PROVE  /\ Registers(thr[t]) /\ versions' = VersionsWith(thr[t])
           /\ next'.event = next.event + 1 /\ drifts' \subseteq DriftRow
  <1> DEFINE r == thr[t]
  <1>1. /\ r.name \in Names /\ r.envRow \in Nat /\ r.source \in Nat
        /\ Meant(r, envs, sources, next)
    BY ThreadFacts DEF process_payload
  <1>2. /\ Intact(r) /\ Register(r) /\ versions' = VersionsWith(r)
        /\ UNCHANGED mappings
    BY DEF process_payload
  <1>3. /\ next' \in NextRow /\ next'.source = SourceNumber(r)
        /\ next'.event = next.event + 1 /\ next.event <= next'.event
        /\ next.mapping <= next'.mapping
        /\ drifts' \subseteq DriftRow
    <2>1. drifts \subseteq DriftRow /\ mappings \subseteq MappingRow /\ next \in NextRow /\ next.drift \in Pos /\ next.mapping \in Nat
      BY DEF IInv, RowsInv, NextRow, Pos
    <2> DEFINE d(m) == [id |-> next.drift, name |-> r.name, open |-> TRUE, job |-> FALSE,
                        mapping |-> m.id]
    <2>2. \A m \in mappings : d(m) \in DriftRow
      BY <1>1, <2>1 DEF DriftRow, MappingRow, NextRow
    <2> DEFINE n == NextIds(r, 1, 0)
    <2>3. /\ n \in NextRow /\ n.source = SourceNumber(r)
          /\ n.event = next.event + 1 /\ n.mapping = next.mapping + 0
          /\ next.event <= n.event /\ next.mapping <= n.mapping
          /\ [n EXCEPT !.drift = @ + 1] \in NextRow
          /\ [n EXCEPT !.drift = @ + 1].source = n.source
          /\ [n EXCEPT !.drift = @ + 1].event = n.event
          /\ [n EXCEPT !.drift = @ + 1].mapping = n.mapping
      BY NextIdsFacts
    <2>4. \/ /\ \E m \in mappings : drifts' = drifts \cup {d(m)}
             /\ next' = [n EXCEPT !.drift = @ + 1]
          \/ drifts' = drifts /\ next' = n
      BY DEF process_payload, KnowledgeOf
    <2> HIDE DEF n, r, d
    <2>5. QED
      BY <2>1, <2>2, <2>3, <2>4
  <1>4. Registers(r)
    <2>1. mappings' \subseteq MappingRow
      BY <1>2 DEF IInv, RowsInv
    <2>2. QED
      BY <1>1, <1>2, <1>3, <2>1 DEF Registers
  <1>5. QED
    BY <1>2, <1>3, <1>4

(* The run of a batch is numbered like its event. *)
LEMMA RunFacts ==
    ASSUME IInv, NEW t \in Threads, batches' = BatchesWith(thr[t])
    PROVE  batches' \subseteq RunRow
  <1> DEFINE r == thr[t]
  <1>1. /\ r \in RequestRow /\ next.event \in Pos /\ batches \subseteq RunRow
    BY ThreadFacts DEF IInv, RowsInv
  <1>2. r.name \in Names \cup {NoName}
    BY <1>1 DEF RequestRow
  <1> HIDE DEF r
  <1>3. BatchRow(r) \in RunRow
    BY <1>1, <1>2 DEF BatchRow, RunRow, Pos
  <1>4. QED
    BY <1>1, <1>3 DEF BatchesWith, r

LEMMA PayloadInv ==
    ASSUME IInv, NEW t \in Threads, NEW s \in {"normalized", "quarantined"},
           process_payload(t, s)
    PROVE  IInv'
  <1> DEFINE r == thr[t]
             e == [id |-> next.event, env |-> r.env, name |-> r.name, source |-> SourceId(r),
                   status |-> s, old |-> FALSE]
  <1>1. /\ r.name \in Names /\ Meant(r, envs, sources, next)
    BY ThreadFacts DEF process_payload
  <1>2. /\ events' = events \cup {e} /\ thr' = [thr EXCEPT ![t] = Idle]
        /\ UNCHANGED recipes /\ UNCHANGED onboardings /\ UNCHANGED alone
    BY DEF process_payload, Done
  <1>3. /\ Registers(r) /\ next'.event = next.event + 1 /\ drifts' \subseteq DriftRow
    BY PayloadRegisters
  <1>10. batches' \subseteq RunRow
    BY RunFacts DEF process_payload
  <1> HIDE DEF r
  <1>4. /\ SourceId(r) \in Pos
        /\ \E u \in sources' : /\ u.id = SourceId(r) /\ u.name = r.name
                               /\ Lower[envs'[u.env]] = Lower[r.env]
        /\ \A d \in events : Knows(d, envs', sources')
    BY <1>3, Registered
  <1>5. e \in EventRow /\ e.id = next.event /\ Knows(e, envs', sources')
    <2>1. next.event \in Pos /\ r.env \in EnvNames /\ SourceId(r) \in Nat
      BY <1>1, <1>4 DEF IInv, RowsInv, Meant, Pos
    <2>2. e \in EventRow /\ e.id = next.event
      BY <1>1, <2>1 DEF EventRow
    <2>3. r.name # NoName
      BY <1>1, NoNameAssumption
    <2>4. QED
      BY <1>4, <2>2, <2>3 DEF Knows
  <1> HIDE DEF e
  <1>6. /\ events' \subseteq EventRow /\ EventIds' /\ EventsKnowTheirSource'
        /\ \A d \in events' :
             \/ d.id >= next.event
             \/ \E f \in events : /\ f.id = d.id /\ f.env = d.env
                                  /\ f.name # NoName => d.name # NoName
    BY <1>2, <1>3, <1>4, <1>5, NewEvent
  <1>7. /\ recipes' \subseteq [name : Names, mapping : Pos]
        /\ onboardings' \in Seq(SampleRow) /\ Len(onboardings) <= Len(onboardings')
    BY <1>2, SameSamples DEF IInv, RowsInv
  <1>8. Idle \in RequestRow /\ Sound(Idle, envs', sources', events', onboardings', next')
    BY IdleFacts
  <1>11. QED
    BY <1>2, <1>3, <1>6, <1>7, <1>8, <1>10, RegisterMove

(* A sample that names a source registers it. *)
LEMMA SampleRegisters ==
    ASSUME IInv, NEW t \in Threads, create_onboarding(t), thr[t].name # NoName
    PROVE  /\ Registers(thr[t]) /\ versions' = VersionsWith(thr[t])
           /\ next'.event \in Nat /\ next.event <= next'.event
  <1> DEFINE r == thr[t]
  <1>1. /\ r.name \in Names /\ r.envRow \in Nat /\ r.source \in Nat
        /\ Meant(r, envs, sources, next)
    BY ThreadFacts DEF create_onboarding
  <1>2. /\ Intact(r) /\ Register(r) /\ versions' = VersionsWith(r) /\ next' = NextIds(r, 0, 0)
        /\ UNCHANGED mappings
    BY DEF create_onboarding
  <1>3. /\ next' \in NextRow /\ next'.source = SourceNumber(r)
        /\ next'.event \in Nat /\ next.event <= next'.event /\ next.mapping <= next'.mapping
    BY <1>2, NextIdsFacts DEF NextRow, Pos
  <1>4. Registers(r)
    <2>1. mappings' \subseteq MappingRow
      BY <1>2 DEF IInv, RowsInv
    <2>2. QED
      BY <1>1, <1>2, <1>3, <2>1 DEF Registers
  <1>5. QED
    BY <1>2, <1>3, <1>4

LEMMA SampleInv ==
    ASSUME IInv, NEW t \in Threads, create_onboarding(t)
    PROVE  IInv'
  <1> DEFINE r == thr[t]
             o == [env |-> EnvRow(r.envRow), status |-> "pending",
                   source |-> IF r.name = NoName THEN 0 ELSE SourceId(r)]
  <1>1. /\ r.name \in Names \cup {NoName} /\ r.envRow \in Nat /\ r.source \in Nat
        /\ Meant(r, envs, sources, next)
    BY ThreadFacts DEF create_onboarding
  <1>2. /\ onboardings' = Append(onboardings, o) /\ thr' = [thr EXCEPT ![t] = Idle]
        /\ UNCHANGED mappings /\ UNCHANGED recipes /\ UNCHANGED drifts /\ UNCHANGED batches
        /\ UNCHANGED events /\ UNCHANGED alone
    BY DEF create_onboarding, Done
  <1>3. RowsInv /\ Remembered /\ onboardings \in Seq(SampleRow)
    BY DEF IInv, RowsInv
  <1>4. ASSUME o \in SampleRow
        PROVE  onboardings' \in Seq(SampleRow) /\ Len(onboardings) <= Len(onboardings')
    <2> HIDE DEF o
    <2>1. QED
      BY <1>2, <1>3, <1>4
  <1>5. Idle \in RequestRow /\ Sound(Idle, envs', sources', events', onboardings', next')
    BY IdleFacts
  <1>6. CASE r.name = NoName
    <2>1. /\ envs' = EnvsWith(r.env, r.envRow) /\ UNCHANGED sources /\ UNCHANGED versions
          /\ UNCHANGED next
      BY <1>6 DEF create_onboarding
    <2>2. r.env \in EnvNames /\ r.envRow <= Len(envs)
      <3>1. Len(envs) \in Nat /\ DOMAIN envs = 1 .. Len(envs)
        BY <1>3 DEF RowsInv
      <3>2. QED
        BY <1>1, <3>1 DEF Meant
    <2>3. EnvsGrow /\ EnvRow(r.envRow) \in Pos
      BY <1>1, <1>3, <2>1, <2>2, EnvsWithFacts
    <2>4. o \in SampleRow
      BY <1>6, <2>3 DEF SampleRow
    <2> HIDE DEF o, r
    <2>5. onboardings' \in Seq(SampleRow) /\ Len(onboardings) <= Len(onboardings')
      BY <1>4, <2>4
    <2>6. Frame
      <3>1. next.source \in Nat /\ next.event \in Nat
        BY <1>3 DEF RowsInv, Pos
      <3>2. Len(onboardings') \in Nat /\ DOMAIN onboardings' = 1 .. Len(onboardings')
        BY <2>5
      <3>3. QED
        BY <1>2, <2>1, <2>3, <2>5, <3>1, <3>2 DEF Frame
    <2>7. thr' \in [Threads -> RequestRow] /\ Remembered'
      BY <1>2, <1>3, <1>5, <2>6, Moves
    <2>8. RowsInv'
      BY <1>2, <1>3, <2>1, <2>3, <2>5, <2>7 DEF RowsInv, EnvsGrow
    <2>9. SourceIds' /\ EventIds' /\ VersionsBelong'
      BY <1>2, <2>1, <2>3 DEF IInv, SourceIds, EventIds, VersionsBelong, EnvsGrow
    <2>10. EventsKnowTheirSource'
      <3>1. \A e \in events : Knows(e, envs', sources')
        BY <2>1, <2>3, StillKnows
      <3>2. QED
        BY <1>2, <3>1, KnowsAll
    <2>11. QED
      BY <2>7, <2>8, <2>9, <2>10 DEF IInv
  <1>7. CASE r.name # NoName
    <2>1. /\ Registers(r) /\ next'.event \in Nat /\ next.event <= next'.event
      BY <1>7, SampleRegisters
    <2>2. /\ SourceId(r) \in Pos /\ EnvRow(r.envRow) \in Pos
          /\ \A e \in events : Knows(e, envs', sources')
      BY <2>1, Registered
    <2>3. o \in SampleRow
      BY <1>7, <2>2 DEF SampleRow, Pos
    <2> HIDE DEF o, r
    <2>4. onboardings' \in Seq(SampleRow) /\ Len(onboardings) <= Len(onboardings')
      BY <1>4, <2>3
    <2>5. /\ events' \subseteq EventRow /\ EventIds' /\ EventsKnowTheirSource'
          /\ \A d \in events' :
               \/ d.id >= next.event
               \/ \E f \in events : /\ f.id = d.id /\ f.env = d.env
                                    /\ f.name # NoName => d.name # NoName
      BY <1>2, <2>1, <2>2, SameEvents
    <2>6. recipes' \subseteq [name : Names, mapping : Pos] /\ drifts' \subseteq DriftRow /\ batches' \subseteq RunRow
      BY <1>2, <1>3 DEF RowsInv
    <2>7. QED
      BY <1>2, <1>5, <2>1, <2>4, <2>5, <2>6, RegisterMove
  <1>8. QED
    BY <1>6, <1>7

LEMMA AnonymousInv ==
    ASSUME IInv, NEW t \in Threads, ProcessAnonymous(t)
    PROVE  IInv'
  <1> DEFINE e == [id |-> next.event, env |-> thr[t].env, name |-> NoName, source |-> 0,
                   status |-> "quarantined", old |-> FALSE]
  <1>1. RowsInv /\ Remembered /\ Meant(thr[t], envs, sources, next)
    BY ThreadFacts DEF ProcessAnonymous, IInv
  <1>2. /\ events' = events \cup {e} /\ next' = [next EXCEPT !.event = @ + 1]
        /\ thr' = [thr EXCEPT ![t] = Idle]
        /\ envs' = envs /\ sources' = sources /\ versions' = versions /\ mappings' = mappings
        /\ recipes' = recipes /\ drifts' = drifts /\ onboardings' = onboardings /\ alone' = alone
    BY DEF ProcessAnonymous, Done
  <1>3. next \in NextRow /\ next.event \in Pos /\ next.source \in Pos
    BY <1>1 DEF RowsInv, NextRow
  <1>4. /\ next' \in NextRow /\ next'.event = next.event + 1 /\ next'.source = next.source
        /\ next'.mapping = next.mapping
    BY <1>2, <1>3 DEF NextRow, Pos
  <1>5. EnvsGrow
    BY <1>1, <1>2, SameEnvs
  <1>6. \A d \in events : Knows(d, envs', sources')
    BY <1>2, <1>5, StillKnows
  <1>7. e \in EventRow /\ e.id = next.event /\ Knows(e, envs', sources')
    BY <1>1, <1>3 DEF EventRow, Knows, Meant
  <1> HIDE DEF e
  <1>8. /\ events' \subseteq EventRow /\ EventIds' /\ EventsKnowTheirSource'
        /\ \A d \in events' :
             \/ d.id >= next.event
             \/ \E f \in events : /\ f.id = d.id /\ f.env = d.env
                                  /\ f.name # NoName => d.name # NoName
    BY <1>2, <1>4, <1>6, <1>7, NewEvent
  <1>9. onboardings' \in Seq(SampleRow) /\ Len(onboardings) <= Len(onboardings')
    BY <1>2, SameSamples
  <1>10. Frame
    BY <1>2, <1>3, <1>4, <1>5, <1>8, <1>9 DEF Frame, Pos
  <1>11. thr' \in [Threads -> RequestRow] /\ Remembered'
    BY <1>1, <1>2, <1>10, IdleFacts, Moves
  <1>15. batches' \subseteq RunRow
    BY RunFacts DEF ProcessAnonymous
  <1>12. RowsInv'
    BY <1>1, <1>15, <1>2, <1>4, <1>5, <1>8, <1>9, <1>11 DEF RowsInv, NextRow, EnvsGrow
  <1>13. SourceIds' /\ VersionsBelong'
    BY <1>2, <1>4 DEF IInv, SourceIds, VersionsBelong
  <1>14. QED
    BY <1>8, <1>11, <1>12, <1>13 DEF IInv

(* A publication registers, with one more version and mapping. *)
LEMMA Publishes ==
    ASSUME IInv, NEW r, r.name \in Names, r.envRow \in Nat, r.source \in Nat,
           Meant(r, envs, sources, next), Intact(r), Register(r),
           publish_mapping_knowledge(r), next' = NextIds(r, 0, 1)
    PROVE  /\ Registers(r)
           /\ recipes' \subseteq [name : Names, mapping : Pos]
           /\ next'.event = next.event /\ next'.event \in Nat
  <1> DEFINE x == next_version(r)
             m == [id |-> next.mapping, name |-> r.name, version |-> <<SourceId(r), x>>]
             b == [name |-> r.name, mapping |-> next.mapping]
  <1>1. /\ RowsInv /\ SourceIds /\ VersionsBelong /\ next \in NextRow
        /\ next.mapping \in Pos /\ next.event \in Nat /\ next.source \in Pos
    BY DEF IInv, RowsInv, NextRow, Pos
  <1>2. /\ next' \in NextRow /\ next'.source = SourceNumber(r)
        /\ next'.event = next.event + 0 /\ next'.mapping = next.mapping + 1
        /\ next.event <= next'.event /\ next.mapping <= next'.mapping
    BY NextIdsFacts
  <1>3. /\ VersionsWith(r) \subseteq Pos \X Pos /\ IsFiniteSet(VersionsWith(r))
        /\ \E v \in VersionsWith(r) : v[1] = SourceId(r)
    BY <1>1, VersionsWithFacts
  <1>4. x \in Pos
    BY <1>3, NextVersionFacts
  <1>5. SourceId(r) \in Pos
    BY <1>1, RegisterFacts
  <1>6. /\ versions' = VersionsWith(r) \cup {<<SourceId(r), x>>}
        /\ mappings' = mappings \cup {m}
        /\ recipes' = {c \in recipes : c.name # r.name} \cup {b}
    BY DEF publish_mapping_knowledge
  <1> HIDE DEF x
  <1>7. /\ m \in MappingRow /\ m.id = next.mapping /\ m.name = r.name /\ m.version[1] = SourceId(r)
        /\ b \in [name : Names, mapping : Pos]
    BY <1>1, <1>4, <1>5 DEF MappingRow, Pos
  <1> HIDE DEF m, b
  <1>8. mappings' \subseteq MappingRow
    BY <1>1, <1>6, <1>7 DEF RowsInv
  <1>9. \A k \in mappings' :
           k \in mappings \/ (k.name = r.name /\ k.version[1] = SourceId(r) /\ k.id < next'.mapping)
    BY <1>1, <1>2, <1>6, <1>7 DEF Pos
  <1>10. Registers(r)
    BY <1>2, <1>4, <1>6, <1>8, <1>9 DEF Registers
  <1>11. recipes' \subseteq [name : Names, mapping : Pos]
    BY <1>1, <1>6, <1>7 DEF RowsInv
  <1>12. QED
    BY <1>1, <1>2, <1>10, <1>11

(* The held events that follow a publication. *)
LEMMA ReleaseFacts ==
    ASSUME NEW t \in Threads, NEW ids \in SUBSET Nat, ReleaseFrom(t, ids)
    PROVE  \E n \in RequestRow :
             /\ thr' = [thr EXCEPT ![t] = n] /\ n.op = "release" /\ n.found.events = ids
  <1> DEFINE n == [Idle EXCEPT !.op = "release", !.found.events = ids]
  <1>1. n \in RequestRow /\ n.op = "release" /\ n.found.events = ids
    BY IdleFacts DEF RequestRow, FoundRow, Nothing, Ops
  <1>2. QED
    BY <1>1 DEF ReleaseFrom

LEMMA ApproveInv ==
    ASSUME IInv, NEW t \in Threads, approve_onboarding(t)
    PROVE  IInv'
  <1> DEFINE r == thr[t]
             ids == {e.id : e \in {x \in Held(events) : x.name = r.name}}
  <1>1. /\ r.name \in Names /\ r.envRow \in Nat /\ r.source \in Nat
        /\ Meant(r, envs, sources, next) /\ r.target \in DOMAIN onboardings
    BY ThreadFacts DEF approve_onboarding, Sound
  <1>2. /\ Intact(r) /\ Register(r) /\ publish_mapping_knowledge(r) /\ next' = NextIds(r, 0, 1)
        /\ onboardings' = [onboardings EXCEPT ![r.target].status = "approved",
                                              ![r.target].source = SourceId(r)]
        /\ ReleaseFrom(t, ids)
        /\ UNCHANGED drifts /\ UNCHANGED batches /\ UNCHANGED events /\ UNCHANGED alone
    BY DEF approve_onboarding
  <1> HIDE DEF r
  <1>3. /\ Registers(r) /\ recipes' \subseteq [name : Names, mapping : Pos]
        /\ next'.event = next.event /\ next'.event \in Nat
    BY <1>1, <1>2, Publishes
  <1>4. SourceId(r) \in Pos /\ \A e \in events : Knows(e, envs', sources')
    BY <1>3, Registered
  <1>5. onboardings' \in Seq(SampleRow) /\ Len(onboardings) <= Len(onboardings')
    <2>1. onboardings \in Seq(SampleRow) /\ onboardings[r.target] \in SampleRow
      BY <1>1 DEF IInv, RowsInv
    <2> DEFINE o == [[onboardings[r.target] EXCEPT !.status = "approved"] EXCEPT !.source = SourceId(r)]
    <2>2. o \in SampleRow
      BY <1>4, <2>1 DEF SampleRow, Pos
    <2>3. onboardings' = [onboardings EXCEPT ![r.target] = o]
      BY <1>1, <1>2, <2>1
    <2> HIDE DEF o
    <2>4. QED
      BY <1>1, <2>1, <2>2, <2>3
  <1>6. /\ events' \subseteq EventRow /\ EventIds' /\ EventsKnowTheirSource'
        /\ \A d \in events' :
             \/ d.id >= next.event
             \/ \E f \in events : /\ f.id = d.id /\ f.env = d.env
                                  /\ f.name # NoName => d.name # NoName
    BY <1>2, <1>3, <1>4, SameEvents DEF IInv, RowsInv, Pos
  <1>7. /\ ids \subseteq Nat
        /\ \A i \in ids : \E e \in events : e.id = i /\ e.name = r.name
    BY DEF IInv, RowsInv, EventRow, Held, Pos
  <1> HIDE DEF ids
  <1>8. PICK n \in RequestRow :
           thr' = [thr EXCEPT ![t] = n] /\ n.op = "release" /\ n.found.events = ids
    BY <1>2, <1>7, ReleaseFacts
  <1>9. \A i \in ids : i < next'.event
    BY <1>3, <1>7 DEF IInv, EventIds
  <1>10. \A e \in events' : e.id \in ids => e.name # NoName
    <2> SUFFICES ASSUME NEW e \in events, e.id \in ids PROVE e.name # NoName
      BY <1>2
    <2>1. PICK f \in events : f.id = e.id /\ f.name = r.name
      BY <1>7
    <2>2. f = e
      BY <2>1 DEF IInv, EventIds
    <2>3. QED
      BY <1>1, <2>1, <2>2, NoNameAssumption
  <1>11. Sound(n, envs', sources', events', onboardings', next')
    BY <1>8, <1>9, <1>10 DEF Sound
  <1>12. drifts' \subseteq DriftRow /\ batches' \subseteq RunRow
    BY <1>2 DEF IInv, RowsInv
  <1>13. QED
    BY <1>2, <1>3, <1>5, <1>6, <1>8, <1>11, <1>12, RegisterMove

(* One event is given another source, name or status; its id and its       *)
(* environment stay.                                                       *)
LEMMA ChangedEvent ==
    ASSUME IInv, NEW e \in events, NEW f \in EventRow, f.id = e.id, f.env = e.env,
           f.name # NoName, events' = (events \ {e}) \cup {f},
           next'.event \in Nat, next.event <= next'.event, Knows(f, envs', sources'),
           \A d \in events : Knows(d, envs', sources')
    PROVE  /\ events' \subseteq EventRow /\ EventIds' /\ EventsKnowTheirSource'
           /\ \A d \in events' : \E g \in events : /\ g.id = d.id /\ g.env = d.env
                                                   /\ g.name # NoName => d.name # NoName
           /\ \A d \in events' : \/ d.id >= next.event
                                 \/ \E g \in events : /\ g.id = d.id /\ g.env = d.env
                                                      /\ g.name # NoName => d.name # NoName
  <1>1. /\ next.event \in Nat /\ events \subseteq EventRow
        /\ \A d \in events : d.id \in Nat /\ d.id < next.event
        /\ \A d, g \in events : d.id = g.id => d = g
    BY DEF IInv, RowsInv, EventIds, EventRow, Pos
  <1>2. EventIds'
    <2>1. \A d \in events' : d.id < next'.event
      BY <1>1
    <2>2. \A d, g \in events' : d.id = g.id => d = g
      BY <1>1
    <2>3. QED
      BY <2>1, <2>2 DEF EventIds
  <1>3. EventsKnowTheirSource'
    BY KnowsAll
  <1>4. QED
    BY <1>1, <1>2, <1>3

(* An event that follows registers the source of its own environment. *)
Follows(r, e, s) ==
    /\ Registers(r) /\ versions' = VersionsWith(r) /\ r.name = e.name /\ r.env = e.env
    /\ r.source = 0 => \A u \in sources : ~(u.name = r.name /\ u.env = r.envRow)
    /\ events' = (events \ {e}) \cup {[e EXCEPT !.source = SourceId(r), !.old = FALSE, !.status = s]}

LEMMA ReleaseRegisters ==
    ASSUME IInv, NEW t \in Threads, NEW e \in events, Release(t, e)
    PROVE  /\ e.name \in Names /\ e.name # NoName
           /\ \E r : \E s \in {"normalized", "quarantined"} : Follows(r, e, s)
           /\ next'.event \in Nat /\ next.event <= next'.event
  <1> DEFINE k == environment_row_id(e.env)
             i == FindSource(e.name, e.env)
             r == [Idle EXCEPT !.name = e.name, !.env = e.env, !.envRow = k, !.source = i]
             s == IF \E m \in mappings : m.name = e.name THEN "normalized" ELSE e.status
  <1>1. /\ RowsInv /\ SourceIds /\ e.env \in EnvNames
        /\ e.name \in Names \cup {NoName} /\ e.status \in {"normalized", "quarantined"}
    BY DEF IInv, RowsInv, EventRow
  <1>2. /\ thr[t].op = "release" /\ e.id \in thr[t].found.events
        /\ Intact(r) /\ Register(r) /\ versions' = VersionsWith(r) /\ next' = NextIds(r, 0, 0)
        /\ events' = (events \ {e}) \cup {[e EXCEPT !.source = SourceId(r), !.old = FALSE,
                                                  !.status = s]}
        /\ UNCHANGED mappings
    BY DEF Release
  <1>3. e.name \in Names /\ e.name # NoName
    BY <1>1, <1>2, ThreadFacts DEF Sound
  <1>4. /\ k \in Nat
        /\ k # 0 => k \in DOMAIN envs /\ Lower[envs[k]] = Lower[e.env]
    BY <1>1, EnvironmentFacts
  <1>5. /\ i \in Nat
        /\ i = 0 <=> SourcesOf(e.name, k) = {}
        /\ i # 0 => /\ k # 0 /\ i < next.source
                    /\ \A u \in sources : u.id = i => u.name = e.name /\ u.env = k
    BY <1>1, SourceFacts
  <1>6. s \in {"normalized", "quarantined"}
    BY <1>1
  <1> HIDE DEF k, i, s
  <1>7. /\ r.env = e.env /\ r.name = e.name /\ r.envRow = k /\ r.source = i
    BY IdleFacts DEF RequestRow
  <1> HIDE DEF r
  <1>8. Meant(r, envs, sources, next)
    BY <1>1, <1>4, <1>5, <1>7 DEF Meant
  <1>9. r.source = 0 => \A u \in sources : ~(u.name = r.name /\ u.env = r.envRow)
    BY <1>5, <1>7 DEF SourcesOf
  <1>10. /\ next' \in NextRow /\ next'.source = SourceNumber(r) /\ next'.event \in Nat
         /\ next.event <= next'.event /\ next.mapping <= next'.mapping
    BY <1>2, NextIdsFacts DEF NextRow, Pos
  <1>11. Registers(r)
    <2>1. mappings' \subseteq MappingRow
      BY <1>1, <1>2 DEF RowsInv
    <2>2. QED
      BY <1>2, <1>3, <1>4, <1>5, <1>7, <1>8, <1>10, <2>1 DEF Registers
  <1>12. Follows(r, e, s)
    BY <1>2, <1>7, <1>9, <1>11 DEF Follows
  <1>13. QED
    BY <1>3, <1>6, <1>10, <1>12

LEMMA ReleaseInv ==
    ASSUME IInv, NEW t \in Threads, NEW e \in events, Release(t, e)
    PROVE  IInv'
  <1> DEFINE n == [thr[t] EXCEPT !.found.events = @ \ {e.id}]
  <1>1. /\ e.name \in Names /\ e.name # NoName
        /\ next'.event \in Nat /\ next.event <= next'.event
        /\ RowsInv /\ e \in EventRow
    BY ReleaseRegisters DEF IInv, RowsInv
  <1>2. PICK r : \E s \in {"normalized", "quarantined"} : Follows(r, e, s)
    BY ReleaseRegisters
  <1>3. PICK s \in {"normalized", "quarantined"} : Follows(r, e, s)
    BY <1>2
  <1> DEFINE f == [e EXCEPT !.source = SourceId(r), !.old = FALSE, !.status = s]
  <1>4. /\ Registers(r) /\ r.name = e.name /\ r.env = e.env
        /\ events' = (events \ {e}) \cup {f}
    BY <1>3 DEF Follows
  <1>5. /\ thr[t].op = "release"
        /\ UNCHANGED recipes /\ UNCHANGED drifts /\ UNCHANGED batches
        /\ UNCHANGED onboardings /\ UNCHANGED alone
    BY DEF Release
  <1>6. thr' = [thr EXCEPT ![t] = n]
    BY DEF Release
  <1>7. /\ thr[t] \in RequestRow /\ thr[t].found \in FoundRow
        /\ \A j \in thr[t].found.events : j < next.event
        /\ \A d \in events : d.id \in thr[t].found.events => d.name # NoName
    BY <1>5, ThreadFacts DEF Sound
  <1>8. /\ SourceId(r) \in Pos /\ \A d \in events : Knows(d, envs', sources')
        /\ \E u \in sources' : /\ u.id = SourceId(r) /\ u.name = e.name
                               /\ Lower[envs'[u.env]] = Lower[e.env]
    BY <1>4, Registered
  <1>9. /\ f \in EventRow /\ f.id = e.id /\ f.env = e.env /\ f.name = e.name
        /\ f.source = SourceId(r) /\ Knows(f, envs', sources')
    <2>1. /\ f \in EventRow /\ f.id = e.id /\ f.env = e.env /\ f.name = e.name
          /\ f.source = SourceId(r)
      BY <1>1, <1>8 DEF EventRow, Pos
    <2> HIDE DEF f
    <2>2. QED
      BY <1>1, <1>8, <2>1 DEF Knows
  <1> HIDE DEF f
  <1>10. /\ events' \subseteq EventRow /\ EventIds' /\ EventsKnowTheirSource'
         /\ \A d \in events' : \E g \in events : /\ g.id = d.id /\ g.env = d.env
                                                 /\ g.name # NoName => d.name # NoName
         /\ \A d \in events' : \/ d.id >= next.event
                               \/ \E g \in events : /\ g.id = d.id /\ g.env = d.env
                                                    /\ g.name # NoName => d.name # NoName
    BY <1>1, <1>4, <1>8, <1>9, ChangedEvent
  <1>11. /\ n \in RequestRow /\ n.op = "release"
         /\ n.found.events = thr[t].found.events \ {e.id}
    <2> DEFINE g == [thr[t].found EXCEPT !.events = @ \ {e.id}]
    <2>1. g \in FoundRow /\ g.events = thr[t].found.events \ {e.id}
      BY <1>7 DEF FoundRow
    <2>2. n = [thr[t] EXCEPT !.found = g]
      OBVIOUS
    <2> HIDE DEF n, g
    <2>3. QED
      BY <1>5, <1>7, <2>1, <2>2 DEF RequestRow
  <1> HIDE DEF n
  <1>12. Sound(n, envs', sources', events', onboardings', next')
    <2>1. \A j \in n.found.events : j < next'.event
      BY <1>1, <1>7, <1>11 DEF RowsInv, FoundRow, Pos
    <2>2. \A d \in events' : d.id \in n.found.events => d.name # NoName
      BY <1>7, <1>10, <1>11
    <2>3. QED
      BY <1>11, <2>1, <2>2 DEF Sound
  <1>13. /\ recipes' \subseteq [name : Names, mapping : Pos] /\ drifts' \subseteq DriftRow /\ batches' \subseteq RunRow
         /\ onboardings' \in Seq(SampleRow) /\ Len(onboardings) <= Len(onboardings')
    BY <1>1, <1>5, SameSamples DEF RowsInv
  <1>14. QED
    BY <1>4, <1>5, <1>6, <1>10, <1>11, <1>12, <1>13, RegisterMove

LEMMA AdoptInv ==
    ASSUME IInv, NEW t \in Threads, onboard_event(t)
    PROVE  IInv'
  <1> DEFINE r == thr[t]
  <1>1. /\ r.name \in Names /\ r.envRow \in Nat /\ r.source \in Nat /\ r.target \in Nat
        /\ Meant(r, envs, sources, next) /\ r.target < next.event
        /\ \A e \in events : e.id = r.target => e.env = r.env
    BY ThreadFacts DEF onboard_event, Sound
  <1>2. PICK e \in events : e.id = r.target
    BY DEF onboard_event
  <1> DEFINE f == [e EXCEPT !.name = r.name, !.source = SourceId(r), !.old = FALSE]
  <1>3. /\ Intact(r) /\ Register(r) /\ publish_mapping_knowledge(r) /\ next' = NextIds(r, 0, 1)
        /\ ReleaseFrom(t, {r.target})
        /\ UNCHANGED drifts /\ UNCHANGED batches /\ UNCHANGED onboardings /\ UNCHANGED alone
    BY DEF onboard_event
  <1>4. events' = (events \ {e}) \cup {f}
    <2>1. \A d \in events : d.id = r.target => d = e
      BY <1>2 DEF IInv, EventIds
    <2>2. events' = {IF d.id = r.target
                     THEN [d EXCEPT !.name = r.name, !.source = SourceId(r), !.old = FALSE]
                     ELSE d : d \in events}
      BY DEF onboard_event
    <2> HIDE DEF r
    <2>3. QED
      BY <1>2, <2>1, <2>2
  <1> HIDE DEF r
  <1>5. /\ Registers(r) /\ recipes' \subseteq [name : Names, mapping : Pos]
        /\ next'.event = next.event /\ next'.event \in Nat
    BY <1>1, <1>3, Publishes
  <1>6. /\ SourceId(r) \in Pos /\ \A d \in events : Knows(d, envs', sources')
        /\ \E u \in sources' : /\ u.id = SourceId(r) /\ u.name = r.name
                               /\ Lower[envs'[u.env]] = Lower[r.env]
    BY <1>5, Registered
  <1>7. r.name # NoName /\ e \in EventRow /\ next.event \in Nat
    BY <1>1, NoNameAssumption DEF IInv, RowsInv, Pos
  <1>8. /\ f \in EventRow /\ f.id = e.id /\ f.env = e.env /\ f.name = r.name
        /\ f.source = SourceId(r) /\ Knows(f, envs', sources')
    <2>1. /\ f \in EventRow /\ f.id = e.id /\ f.env = e.env /\ f.name = r.name
          /\ f.source = SourceId(r)
      BY <1>1, <1>6, <1>7 DEF EventRow, Pos
    <2> HIDE DEF f
    <2>2. e.env = r.env
      BY <1>1, <1>2
    <2>3. QED
      BY <1>6, <1>7, <2>1, <2>2 DEF Knows
  <1> HIDE DEF f
  <1>9. /\ events' \subseteq EventRow /\ EventIds' /\ EventsKnowTheirSource'
        /\ \A d \in events' : \/ d.id >= next.event
                              \/ \E g \in events : /\ g.id = d.id /\ g.env = d.env
                                                   /\ g.name # NoName => d.name # NoName
    <2>1. next.event <= next'.event
      BY <1>5, <1>7
    <2>2. QED
      BY <1>4, <1>5, <1>6, <1>7, <1>8, <2>1, ChangedEvent
  <1>10. PICK n \in RequestRow :
           thr' = [thr EXCEPT ![t] = n] /\ n.op = "release" /\ n.found.events = {r.target}
    BY <1>1, <1>3, ReleaseFacts
  <1>11. \A d \in events' : d.id \in n.found.events => d.name # NoName
    <2>1. \A d \in events : d.id = r.target => d = e
      BY <1>2 DEF IInv, EventIds
    <2>2. QED
      BY <1>4, <1>7, <1>8, <1>10, <2>1
  <1>12. Sound(n, envs', sources', events', onboardings', next')
    BY <1>1, <1>5, <1>10, <1>11 DEF Sound
  <1>13. /\ drifts' \subseteq DriftRow /\ batches' \subseteq RunRow
         /\ onboardings' \in Seq(SampleRow) /\ Len(onboardings) <= Len(onboardings')
    BY <1>3, SameSamples DEF IInv, RowsInv
  <1>14. QED
    BY <1>3, <1>5, <1>9, <1>10, <1>12, <1>13, RegisterMove

-----------------------------------------------------------------------------
(* The other steps *)

LEMMA EnvironmentInv ==
    ASSUME IInv, NEW name \in EnvNames, create_environment(name)
    PROVE  IInv'
  <1>1. /\ envs' = Append(envs, name) /\ Request
        /\ sources' = sources /\ versions' = versions /\ mappings' = mappings
        /\ recipes' = recipes /\ drifts' = drifts /\ batches' = batches /\ events' = events
        /\ onboardings' = onboardings /\ thr' = thr /\ alone' = alone
    BY DEF create_environment, knowledge
  <1>2. RowsInv /\ Remembered
    BY DEF IInv
  <1>3. EnvsGrow
    BY <1>1, <1>2, AppendEnvs
  <1>4. /\ next' \in NextRow /\ next'.source = next.source /\ next'.mapping = next.mapping
        /\ next'.event = next.event
    BY <1>1, RequestStep
  <1>5. Frame
    BY <1>1, <1>2, <1>3, <1>4 DEF Frame, RowsInv, Pos
  <1>6. thr' \in [Threads -> RequestRow] /\ Remembered'
    BY <1>1, <1>2, <1>5, Stays
  <1>7. RowsInv'
    BY <1>1, <1>2, <1>3, <1>4, <1>6 DEF RowsInv, NextRow, EnvsGrow
  <1>8. SourceIds' /\ EventIds' /\ VersionsBelong'
    BY <1>1, <1>3, <1>4 DEF IInv, SourceIds, EventIds, VersionsBelong, EnvsGrow
  <1>9. EventsKnowTheirSource'
    <2>1. \A e \in events : Knows(e, envs', sources')
      BY <1>1, <1>3, StillKnows
    <2>2. QED
      BY <1>1, <2>1, KnowsAll
  <1>10. QED
    BY <1>6, <1>7, <1>8, <1>9 DEF IInv

LEMMA CloseInv ==
    ASSUME IInv, NEW d \in drifts, CloseDrift(d) \/ create_synthesis_job(d)
    PROVE  IInv'
  <1>0. PICK x \in {[d EXCEPT !.open = FALSE], [d EXCEPT !.job = TRUE]} : MarkDrift(d, x)
    BY DEF CloseDrift, create_synthesis_job
  <1>1. /\ drifts' = (drifts \ {d}) \cup {x} /\ Request
        /\ envs' = envs /\ sources' = sources /\ versions' = versions /\ mappings' = mappings
        /\ recipes' = recipes /\ batches' = batches /\ events' = events
        /\ onboardings' = onboardings /\ thr' = thr /\ alone' = alone
    BY <1>0 DEF MarkDrift
  <1>2. RowsInv /\ Remembered
    BY DEF IInv
  <1>3. /\ next' \in NextRow /\ next'.source = next.source /\ next'.mapping = next.mapping
        /\ next'.event = next.event
    BY <1>1, RequestStep
  <1>4. Frame
    <2>1. EnvsGrow
      BY <1>1, <1>2, SameEnvs
    <2>2. QED
      BY <1>1, <1>2, <1>3, <2>1 DEF Frame, RowsInv, Pos
  <1>5. thr' \in [Threads -> RequestRow] /\ Remembered'
    BY <1>1, <1>2, <1>4, Stays
  <1>6. drifts' \subseteq DriftRow
    <2>1. d \in DriftRow /\ drifts \subseteq DriftRow
      BY <1>2 DEF RowsInv
    <2>2. x \in DriftRow
      BY <2>1 DEF DriftRow
    <2>3. QED
      BY <1>1, <2>1, <2>2
  <1>7. RowsInv'
    BY <1>1, <1>2, <1>3, <1>5, <1>6 DEF RowsInv, NextRow
  <1>8. SourceIds' /\ EventIds' /\ VersionsBelong' /\ EventsKnowTheirSource'
    BY <1>1, <1>3 DEF IInv, SourceIds, EventIds, VersionsBelong, EventsKnowTheirSource
  <1>9. QED
    BY <1>5, <1>7, <1>8 DEF IInv

(* Foreign keys keep the sources of the events that stay. *)
LEMMA RemoveInv ==
    ASSUME IInv, NEW t \in Threads, CommitDelete(t)
    PROVE  IInv'
  <1> DEFINE f == thr[t].found
             n == [thr[t] EXCEPT !.op = "removed", !.found = Nothing]
  <1>1. /\ RowsInv /\ SourceIds /\ EventIds /\ VersionsBelong /\ Remembered
        /\ EventsKnowTheirSource
    BY DEF IInv
  <1>2. /\ thr[t] \in RequestRow /\ thr[t].envRow \in Nat /\ thr[t].envRow <= Len(envs)
        /\ thr[t].env \in EnvNames
    BY ThreadFacts DEF CommitDelete, Sound
  <1>3. /\ \A e \in events : e.source \in f.sources => e.id \in f.events
        /\ envs' = EnvsWith(thr[t].env, thr[t].envRow)
        /\ sources' = {s \in sources : s.id \notin f.sources}
        /\ versions' = {v \in versions : v[1] \notin f.sources}
        /\ events' = {e \in events : e.id \notin f.events}
        /\ mappings' = {Unversioned(m, f.sources) : m \in {x \in mappings : x.id \notin f.mappings}}
        /\ recipes' \subseteq recipes /\ drifts' \subseteq drifts /\ batches' \subseteq batches
        /\ onboardings' = onboardings /\ next' = next /\ alone' = alone
    BY DEF CommitDelete, Referenced
  <1>4. thr' = [thr EXCEPT ![t] = n]
    BY DEF CommitDelete
  <1>5. EnvsGrow
    BY <1>1, <1>2, <1>3, EnvsWithFacts
  <1>6. n \in RequestRow /\ n.op = "removed"
    BY <1>2, IdleFacts DEF RequestRow, Ops
  <1> HIDE DEF n, f
  <1>7. Sound(n, envs', sources', events', onboardings', next')
    BY <1>6 DEF Sound
  <1>8. Frame
    BY <1>1, <1>3, <1>5 DEF Frame, RowsInv, Pos
  <1>9. thr' \in [Threads -> RequestRow] /\ Remembered'
    BY <1>1, <1>4, <1>6, <1>7, <1>8, Moves
  <1>10. SourceIds' /\ EventIds'
    BY <1>1, <1>3, <1>5 DEF SourceIds, EventIds, EnvsGrow
  <1>11. ASSUME NEW m \in mappings
         PROVE  /\ Unversioned(m, f.sources) \in MappingRow
                /\ Unversioned(m, f.sources).id = m.id /\ Unversioned(m, f.sources).name = m.name
                /\ Unversioned(m, f.sources).version[1] \in {0, m.version[1]}
    <2>1. m \in MappingRow
      BY <1>1 DEF RowsInv
    <2>2. QED
      BY <2>1 DEF Unversioned, MappingRow
  <1>12. VersionsBelong'
    <2>1. next.source \in Pos
      BY <1>1 DEF RowsInv
    <2>2. \A v \in versions' : \E s \in sources' : s.id = v[1]
      BY <1>1, <1>3 DEF VersionsBelong
    <2>3. \A s \in sources' : \E v \in versions' : v[1] = s.id
      BY <1>1, <1>3 DEF VersionsBelong
    <2>4. ASSUME NEW m \in mappings'
          PROVE  /\ m.id < next'.mapping /\ m.version[1] < next'.source
                 /\ \A s \in sources' : s.id = m.version[1] => s.name = m.name
      <3>1. PICK w \in mappings : m = Unversioned(w, f.sources)
        BY <1>3
      <3>2. m.id = w.id /\ m.name = w.name /\ m.version[1] \in {0, w.version[1]}
        BY <1>11, <3>1
      <3>3. /\ w.id < next.mapping /\ w.version[1] < next.source
            /\ \A s \in sources : s.id = w.version[1] => s.name = w.name
        BY <1>1 DEF VersionsBelong
      <3>4. \A s \in sources : s.id # 0
        BY <1>1 DEF RowsInv, SourceRow, Pos
      <3>5. QED
        BY <1>3, <2>1, <3>2, <3>3, <3>4 DEF Pos
    <2>5. QED
      BY <2>2, <2>3, <2>4 DEF VersionsBelong
  <1>13. EventsKnowTheirSource'
    <2>1. ASSUME NEW e \in events' PROVE Knows(e, envs', sources')
      <3>1. e \in events /\ e.id \notin f.events /\ e.source \notin f.sources
        BY <1>3
      <3>2. Knows(e, envs, sources)
        BY <1>1, <3>1, KnowsAll
      <3>3. \A s \in sources : envs'[s.env] = envs[s.env]
        BY <1>1, <1>5 DEF SourceIds, EnvsGrow
      <3>4. QED
        BY <1>3, <3>1, <3>2, <3>3 DEF Knows
    <2>2. QED
      BY <2>1, KnowsAll
  <1>14. RowsInv'
    <2>1. mappings' \subseteq MappingRow
      BY <1>3, <1>11
    <2>2. IsFiniteSet(versions') /\ versions' \subseteq Pos \X Pos
      <3>1. versions' \subseteq versions
        BY <1>3
      <3>2. QED
        BY <1>1, <3>1, FS_Subset DEF RowsInv
    <2>3. sources' \subseteq SourceRow /\ events' \subseteq EventRow
      BY <1>1, <1>3 DEF RowsInv
    <2>4. QED
      BY <1>1, <1>3, <1>5, <1>9, <2>1, <2>2, <2>3 DEF RowsInv, EnvsGrow
  <1>15. QED
    BY <1>9, <1>10, <1>12, <1>13, <1>14 DEF IInv

-----------------------------------------------------------------------------
(* The migrated database *)

(* Part of the way through: nothing is linked to a source of another name. *)
Linked(db) ==
    /\ db.sources \subseteq SourceRow /\ IsFiniteSet(db.sources)
    /\ \A s \in db.sources : s.id <= Cardinality(db.sources) /\ s.env \in DOMAIN envs
    /\ \A s, u \in db.sources : s.id = u.id => s = u
    /\ \A s, u \in db.sources : s.name = u.name /\ s.env = u.env => s = u
    /\ db.events \subseteq EventRow
    /\ \A e \in db.events : /\ e.id <= 2 /\ e.old /\ e.name \in Names
                            /\ e.source # 0 => \E s \in db.sources :
                                                 s.id = e.source /\ s.name = e.name
    /\ \A e, f \in db.events : e.id = f.id => e = f

LEMMA LinkPairFacts ==
    ASSUME envs \in Seq(EnvNames), 1 \in DOMAIN envs, NEW db, Linked(db),
           NEW p \in [name : Names, env : EnvNames]
    PROVE  /\ Linked(LinkPair(db, p))
           /\ (db.events = {}) <=> (LinkPair(db, p).events = {})
           /\ (\A e \in db.events : e.name = p.name \/ e.source # 0) =>
                 \A e \in LinkPair(db, p).events : e.source # 0
           /\ \A n : (\A e \in db.events : e.name = n) =>
                        \A e \in LinkPair(db, p).events : e.name = n
  <1> DEFINE home == {k \in DOMAIN envs : Lower[envs[k]] = Lower[p.env]}
             row == IF home = {} THEN 1 ELSE Min(home)
             have == {s.id : s \in {x \in db.sources : x.name = p.name /\ x.env = row}}
             id == IF have = {} THEN Cardinality(db.sources) + 1 ELSE Min(have)
             new == [id |-> id, name |-> p.name, env |-> row]
             S == db.sources \cup {new}
             Link(e) == IF e.name = p.name /\ e.source = 0 THEN [e EXCEPT !.source = id] ELSE e
             V == {Link(e) : e \in db.events}
  <1>1. LinkPair(db, p) = [sources |-> S, events |-> V]
    BY DEF LinkPair
  <1>2. /\ DOMAIN envs = 1 .. Len(envs) /\ Len(envs) \in Nat
        /\ p.name \in Names /\ p.env \in EnvNames
    OBVIOUS
  <1>3. row \in DOMAIN envs /\ row \in Pos
    <2>1. home \subseteq DOMAIN envs /\ home \subseteq Pos /\ DOMAIN envs \subseteq Pos
      BY <1>2 DEF Pos
    <2>2. home # {} => Min(home) \in home
      <3> HIDE DEF home
      <3>1. QED
        BY <2>1, NumbersHaveMin DEF Pos
    <2> HIDE DEF home
    <2>3. QED
      BY <2>1, <2>2
  <1> HIDE DEF row
  <1>4. /\ db.sources \subseteq SourceRow /\ IsFiniteSet(db.sources)
        /\ Cardinality(db.sources) \in Nat
    BY FS_CardinalityType DEF Linked
  <1>5. /\ id \in Pos /\ new \in SourceRow
        /\ new.id = id /\ new.name = p.name /\ new.env = row
    <2>1. have \subseteq Pos
      BY <1>4 DEF SourceRow
    <2>2. have # {} => Min(have) \in have
      <3> HIDE DEF have
      <3>1. QED
        BY <2>1, NumbersHaveMin DEF Pos
    <2> HIDE DEF have
    <2>3. id \in Pos
      <3>1. CASE have = {}
        <4>1. id = Cardinality(db.sources) + 1
          BY <3>1
        <4> HIDE DEF id
        <4>2. QED
          BY <1>4, <4>1 DEF Pos
      <3>2. CASE have # {}
        <4>1. id = Min(have)
          BY <3>2
        <4> HIDE DEF id
        <4>2. QED
          BY <2>1, <2>2, <3>2, <4>1
      <3>3. QED
        BY <3>1, <3>2
    <2> HIDE DEF id
    <2>4. QED
      BY <1>2, <1>3, <2>3 DEF SourceRow
  <1>6. \/ /\ new \in db.sources /\ S = db.sources
        \/ /\ id = Cardinality(db.sources) + 1
           /\ \A s \in db.sources : ~(s.name = p.name /\ s.env = row)
    <2>1. CASE have = {}
      <3>1. \A s \in db.sources : s.name = p.name /\ s.env = row => s.id \in have
        OBVIOUS
      <3>2. id = Cardinality(db.sources) + 1
        BY <2>1
      <3> HIDE DEF have, id
      <3>3. QED
        BY <2>1, <3>1, <3>2
    <2>2. CASE have # {}
      <3>1. have \subseteq Pos
        BY <1>4 DEF SourceRow
      <3>2. Min(have) \in have
        <4> HIDE DEF have
        <4>1. QED
          BY <2>2, <3>1, NumbersHaveMin DEF Pos
      <3>3. id = Min(have)
        BY <2>2
      <3>4. PICK s \in db.sources : s.name = p.name /\ s.env = row /\ s.id = id
        BY <3>2, <3>3
      <3>5. s = new
        BY <1>4, <3>4 DEF SourceRow
      <3>6. QED
        BY <3>4, <3>5
    <2>3. QED
      BY <2>1, <2>2
  <1> HIDE DEF id, new
  <1>7. /\ S \subseteq SourceRow /\ IsFiniteSet(S)
        /\ \A s \in S : s.id <= Cardinality(S) /\ s.env \in DOMAIN envs
        /\ \A s, u \in S : s.id = u.id => s = u
        /\ \A s, u \in S : s.name = u.name /\ s.env = u.env => s = u
    <2>1. CASE new \in db.sources /\ S = db.sources
      BY <1>4, <2>1 DEF Linked
    <2>2. CASE /\ id = Cardinality(db.sources) + 1
               /\ \A s \in db.sources : ~(s.name = p.name /\ s.env = row)
      <3>1. \A s \in db.sources : s.id \in Nat /\ s.id <= Cardinality(db.sources)
        BY <1>4 DEF Linked, SourceRow, Pos
      <3>2. \A s \in db.sources : s.id # new.id
        BY <1>4, <1>5, <2>2, <3>1
      <3>3. IsFiniteSet(S) /\ Cardinality(S) = Cardinality(db.sources) + 1
        BY <1>4, <3>2, FS_AddElement
      <3>4. \A s \in S : s.id <= Cardinality(S)
        BY <1>4, <1>5, <2>2, <3>1, <3>3
      <3>5. \A s \in S : s.env \in DOMAIN envs
        BY <1>3, <1>5 DEF Linked
      <3>6. \A s, u \in S : s.id = u.id => s = u
        BY <3>2 DEF Linked
      <3>7. \A s, u \in S : s.name = u.name /\ s.env = u.env => s = u
        BY <1>5, <2>2 DEF Linked
      <3>8. QED
        BY <1>4, <1>5, <3>3, <3>4, <3>5, <3>6, <3>7
    <2>3. QED
      BY <1>6, <2>1, <2>2
  <1>8. db.sources \subseteq S /\ new \in S
    OBVIOUS
  <1> HIDE DEF S
  <1>9. ASSUME NEW e \in db.events
        PROVE  /\ Link(e) \in EventRow /\ Link(e).id = e.id /\ Link(e).name = e.name
               /\ e.id <= 2 /\ e.name \in Names /\ Link(e).old
               /\ (e.name = p.name \/ e.source # 0) => Link(e).source # 0
               /\ Link(e).source # 0 => \E s \in S : s.id = Link(e).source /\ s.name = e.name
    <2>1. /\ e \in EventRow /\ e.id <= 2 /\ e.name \in Names /\ e.old
          /\ e.source # 0 => \E s \in db.sources : s.id = e.source /\ s.name = e.name
      BY DEF Linked
    <2>2. CASE e.name = p.name /\ e.source = 0
      <3>1. Link(e) = [e EXCEPT !.source = id]
        BY <2>2
      <3>2. /\ Link(e) \in EventRow /\ Link(e).id = e.id /\ Link(e).name = e.name
            /\ Link(e).old /\ Link(e).source = id
        BY <1>5, <2>1, <3>1 DEF EventRow, Pos
      <3> HIDE DEF Link
      <3>3. QED
        BY <1>5, <1>8, <2>1, <2>2, <3>2 DEF Pos
    <2>3. CASE ~(e.name = p.name /\ e.source = 0)
      <3>1. Link(e) = e
        BY <2>3
      <3> HIDE DEF Link
      <3>2. QED
        BY <1>8, <2>1, <2>3, <3>1
    <2>4. QED
      BY <2>2, <2>3
  <1> HIDE DEF Link
  <1>10. \A e, f \in V : e.id = f.id => e = f
    <2>1. \A e, f \in db.events : e.id = f.id => e = f
      BY DEF Linked
    <2>2. QED
      BY <1>9, <2>1
  <1>11. /\ V \subseteq EventRow
         /\ \A e \in V : /\ e.id <= 2 /\ e.old /\ e.name \in Names
                         /\ e.source # 0 => \E s \in S : s.id = e.source /\ s.name = e.name
    BY <1>9
  <1>12. /\ (db.events = {}) <=> (V = {})
         /\ (\A e \in db.events : e.name = p.name \/ e.source # 0) => \A e \in V : e.source # 0
         /\ \A n : (\A e \in db.events : e.name = n) => \A e \in V : e.name = n
    BY <1>9
  <1> HIDE DEF V
  <1>13. LinkPair(db, p).sources = S /\ LinkPair(db, p).events = V
    BY <1>1
  <1>14. Linked(LinkPair(db, p))
    BY <1>7, <1>10, <1>11, <1>13 DEF Linked
  <1>15. QED
    BY <1>12, <1>13, <1>14

(* Two pairs at most: the migration is the one or the other step after the *)
(* other.                                                                  *)
LEMMA BackfillFacts ==
    ASSUME NEW rows, NEW o, Len(o) \in 0 .. 2
    PROVE  LET b == [sources |-> {}, events |-> rows]
           IN  /\ Len(o) = 0 => backfill(rows, o) = b
               /\ Len(o) = 1 => backfill(rows, o) = LinkPair(b, o[1])
               /\ Len(o) = 2 => backfill(rows, o) = LinkPair(LinkPair(b, o[1]), o[2])
  <1> DEFINE b == [sources |-> {}, events |-> rows]
             N == 0 .. Len(o)
             D == CHOOSE g : g = [k \in N |-> IF k = 0 THEN b ELSE LinkPair(g[k - 1], o[k])]
             w == [k \in N |-> IF k = 0 THEN b
                               ELSE IF k = 1 THEN LinkPair(b, o[1])
                               ELSE LinkPair(LinkPair(b, o[1]), o[2])]
  <1>1. backfill(rows, o) = D[Len(o)]
    BY DEF backfill
  <1> HIDE DEF b
  <1>2. w = [k \in N |-> IF k = 0 THEN b ELSE LinkPair(w[k - 1], o[k])]
    <2>1. \A k \in N : k = 0 \/ k = 1 \/ k = 2
      OBVIOUS
    <2>2. \A k \in N : w[k] = IF k = 0 THEN b
                               ELSE IF k = 1 THEN LinkPair(b, o[1])
                               ELSE LinkPair(LinkPair(b, o[1]), o[2])
      OBVIOUS
    <2>3. \A k \in N : k # 0 => k - 1 \in N
      OBVIOUS
    <2>4. \A k \in N : w[k] = IF k = 0 THEN b ELSE LinkPair(w[k - 1], o[k])
      <3> SUFFICES ASSUME NEW k \in N
                   PROVE  w[k] = IF k = 0 THEN b ELSE LinkPair(w[k - 1], o[k])
        OBVIOUS
      <3>1. CASE k = 0
        BY <2>2, <3>1
      <3>2. CASE k = 1
        <4>1. w[1] = LinkPair(b, o[1]) /\ 0 \in N /\ w[0] = b
          BY <2>2, <2>3, <3>2
        <4> HIDE DEF w
        <4>2. QED
          BY <3>2, <4>1
      <3>3. CASE k = 2
        <4>1. 1 \in N /\ 2 \in N
          BY <2>3, <3>3
        <4>2. w[2] = LinkPair(LinkPair(b, o[1]), o[2]) /\ w[1] = LinkPair(b, o[1])
          BY <2>2, <4>1
        <4> HIDE DEF w
        <4>3. QED
          BY <3>3, <4>2
      <3>4. QED
        BY <2>1, <3>1, <3>2, <3>3
    <2>5. w = [k \in N |-> w[k]]
      OBVIOUS
    <2> HIDE DEF w, N
    <2>6. [k \in N |-> w[k]] = [k \in N |-> IF k = 0 THEN b ELSE LinkPair(w[k - 1], o[k])]
      BY <2>4
    <2>7. QED
      BY <2>5, <2>6
  <1> HIDE DEF w
  <1>3. D = [k \in N |-> IF k = 0 THEN b ELSE LinkPair(D[k - 1], o[k])]
    BY <1>2, Zenon
  <1> HIDE DEF D
  <1>4. \A k \in N : D[k] = IF k = 0 THEN b ELSE LinkPair(D[k - 1], o[k])
    BY <1>3
  <1>5. 0 \in N /\ D[0] = b
    BY <1>4
  <1>6. Len(o) # 0 => D[1] = LinkPair(b, o[1])
    <2> SUFFICES ASSUME Len(o) # 0 PROVE D[1] = LinkPair(b, o[1])
      OBVIOUS
    <2>1. 1 \in N
      OBVIOUS
    <2>2. D[1] = LinkPair(D[1 - 1], o[1])
      BY <1>4, <2>1
    <2>3. QED
      BY <1>5, <2>2
  <1>7. Len(o) = 2 => D[2] = LinkPair(LinkPair(b, o[1]), o[2])
    <2> SUFFICES ASSUME Len(o) = 2 PROVE D[2] = LinkPair(LinkPair(b, o[1]), o[2])
      OBVIOUS
    <2>1. 2 \in N
      OBVIOUS
    <2>2. D[2] = LinkPair(D[2 - 1], o[2])
      BY <1>4, <2>1
    <2>3. QED
      BY <1>6, <2>2
  <1>8. /\ Len(o) = 0 => backfill(rows, o) = b
        /\ Len(o) = 1 => backfill(rows, o) = LinkPair(b, o[1])
        /\ Len(o) = 2 => backfill(rows, o) = LinkPair(LinkPair(b, o[1]), o[2])
    <2> HIDE DEF N
    <2>1. ASSUME Len(o) = 0 PROVE backfill(rows, o) = b
      BY <1>1, <1>5, <2>1
    <2>2. ASSUME Len(o) = 1 PROVE backfill(rows, o) = LinkPair(b, o[1])
      BY <1>1, <1>6, <2>2
    <2>3. ASSUME Len(o) = 2 PROVE backfill(rows, o) = LinkPair(LinkPair(b, o[1]), o[2])
      BY <1>1, <1>7, <2>3
    <2>4. QED
      BY <2>1, <2>2, <2>3
  <1>9. QED
    BY <1>8, Zenon DEF b

(* The events of before are two, of one name, or none. *)
LEMMA LegacyFacts ==
    ASSUME NEW rows \in LegacyRows
    PROVE  LET P == {[name |-> e.name, env |-> e.env] : e \in rows}
           IN  /\ P \subseteq [name : Names, env : EnvNames]
               /\ IsFiniteSet(P) /\ Cardinality(P) \in 0 .. 2
               /\ Cardinality(P) = 0 <=> rows = {}
               /\ rows \subseteq EventRow
               /\ \A e \in rows : e.id <= 2 /\ e.old /\ e.name \in Names /\ e.source = 0
               /\ \A e, f \in rows : e.name = f.name /\ (e.id = f.id => e = f)
               /\ rows # {} => Cardinality(rows) = 2
               /\ rows = {} => Cardinality(rows) = 0
  <1> DEFINE P == {[name |-> e.name, env |-> e.env] : e \in rows}
  <1>1. CASE rows = {}
    <2>1. P = {} /\ Cardinality(P) = 0 /\ IsFiniteSet(P) /\ Cardinality(rows) = 0
      BY <1>1, FS_EmptySet
    <2>2. QED
      BY <1>1, <2>1
  <1>2. CASE rows # {}
    <2>1. PICK f \in [{1, 2} -> EnvNames], n \in Names :
             rows = {[id |-> k, env |-> f[k], name |-> n, source |-> 0, status |-> "quarantined",
                      old |-> TRUE] : k \in {1, 2}}
      BY <1>2 DEF LegacyRows
    <2> DEFINE e1 == [id |-> 1, env |-> f[1], name |-> n, source |-> 0,
                      status |-> "quarantined", old |-> TRUE]
               e2 == [id |-> 2, env |-> f[2], name |-> n, source |-> 0,
                      status |-> "quarantined", old |-> TRUE]
               a == [name |-> n, env |-> f[1]]
               c == [name |-> n, env |-> f[2]]
    <2>2. rows = {e1} \cup {e2}
      BY <2>1
    <2>3. /\ f[1] \in EnvNames /\ f[2] \in EnvNames
      OBVIOUS
    <2>4. /\ e1 \in EventRow /\ e1.id = 1 /\ e1.name = n /\ e1.old /\ e1.source = 0 /\ e1.env = f[1]
          /\ e2 \in EventRow /\ e2.id = 2 /\ e2.name = n /\ e2.old /\ e2.source = 0 /\ e2.env = f[2]
      BY <2>3 DEF EventRow, Pos
    <2>5. a \in [name : Names, env : EnvNames] /\ c \in [name : Names, env : EnvNames]
      BY <2>3
    <2> HIDE DEF e1, e2
    <2>6. P = {a} \cup {c}
      BY <2>2, <2>4
    <2> HIDE DEF a, c, P
    <2>7. e2 \notin {e1}
      BY <2>4
    <2>8. Cardinality(rows) = 2
      <3>1. IsFiniteSet({e1}) /\ Cardinality({e1}) = 1
        BY FS_Singleton
      <3>2. Cardinality({e1} \cup {e2}) = 1 + 1
        BY <2>7, <3>1, FS_AddElement
      <3>3. QED
        BY <2>2, <3>2
    <2>9. IsFiniteSet(P) /\ Cardinality(P) \in 1 .. 2
      <3>1. IsFiniteSet({a}) /\ Cardinality({a}) = 1
        BY FS_Singleton
      <3>2. /\ IsFiniteSet({a} \cup {c})
            /\ Cardinality({a} \cup {c}) = IF c \in {a} THEN 1 ELSE 1 + 1
        BY <3>1, FS_AddElement
      <3>3. QED
        BY <2>6, <3>2
    <2>10. /\ rows \subseteq EventRow
           /\ \A e \in rows : e.id <= 2 /\ e.old /\ e.name \in Names /\ e.source = 0 /\ e.name = n
           /\ \A e, g \in rows : e.id = g.id => e = g
      BY <2>2, <2>4
    <2>11. P \subseteq [name : Names, env : EnvNames]
      BY <2>5, <2>6
    <2>12. QED
      BY <1>2, <2>8, <2>9, <2>10, <2>11 DEF P
  <1>3. QED
    BY <1>1, <1>2

LEMMA BackfillLinked ==
    ASSUME envs \in Seq(EnvNames), 1 \in DOMAIN envs, NEW rows \in LegacyRows,
           NEW o \in Orders({[name |-> e.name, env |-> e.env] : e \in rows})
    PROVE  /\ Linked(backfill(rows, o))
           /\ \A e \in backfill(rows, o).events : e.source # 0
  <1> DEFINE P == {[name |-> e.name, env |-> e.env] : e \in rows}
             Q == [name : Names, env : EnvNames]
             b == [sources |-> {}, events |-> rows]
  <1>1. /\ P \subseteq Q /\ IsFiniteSet(P) /\ Cardinality(P) \in 0 .. 2
        /\ Cardinality(P) = 0 <=> rows = {}
        /\ rows \subseteq EventRow
        /\ \A e \in rows : e.id <= 2 /\ e.old /\ e.name \in Names /\ e.source = 0
        /\ \A e, f \in rows : e.name = f.name /\ (e.id = f.id => e = f)
    BY LegacyFacts
  <1>2. o \in [1 .. Cardinality(P) -> P]
    BY DEF Orders
  <1>3. b.sources = {} /\ b.events = rows
    OBVIOUS
  <1> DEFINE c == Cardinality(P)
  <1>4. c \in 0 .. 2 /\ (c = 0 <=> rows = {}) /\ o \in [1 .. c -> P]
    BY <1>1, <1>2
  <1>5. \A e \in rows : \A p \in P : e.name = p.name
    BY <1>1
  <1> HIDE DEF c, P, b
  <1>6. Len(o) = c /\ Len(o) \in 0 .. 2
    BY <1>4, LenProperties, SeqDef
  <1>7. Linked(b)
    BY <1>1, <1>3, FS_EmptySet DEF Linked
  <1>8. /\ Len(o) = 0 => backfill(rows, o) = b
        /\ Len(o) = 1 => backfill(rows, o) = LinkPair(b, o[1])
        /\ Len(o) = 2 => backfill(rows, o) = LinkPair(LinkPair(b, o[1]), o[2])
    BY <1>6, BackfillFacts DEF b
  <1>9. CASE c = 0
    BY <1>3, <1>4, <1>6, <1>7, <1>8, <1>9
  <1>10. CASE c # 0
    <2>1. o[1] \in P /\ o[1] \in Q
      BY <1>1, <1>4, <1>10
    <2> DEFINE d == LinkPair(b, o[1])
    <2>2. /\ Linked(d) /\ \A e \in d.events : e.source # 0
      <3>1. \A e \in b.events : e.name = o[1].name
        BY <1>3, <1>5, <2>1
      <3>2. QED
        BY <1>7, <2>1, <3>1, LinkPairFacts
    <2> HIDE DEF d
    <2>3. CASE c = 1
      BY <1>6, <1>8, <2>2, <2>3 DEF d
    <2>4. CASE c = 2
      <3>1. o[2] \in Q
        BY <1>1, <1>4, <2>4
      <3>2. /\ Linked(LinkPair(d, o[2]))
            /\ \A e \in LinkPair(d, o[2]).events : e.source # 0
        BY <2>2, <3>1, LinkPairFacts
      <3>3. backfill(rows, o) = LinkPair(d, o[2])
        BY <1>6, <1>8, <2>4 DEF d
      <3>4. QED
        BY <3>2, <3>3
    <2>5. QED
      BY <1>4, <1>10, <2>3, <2>4
  <1>11. QED
    BY <1>9, <1>10

LEMMA InitInv == Init => IInv
  <1> SUFFICES ASSUME Init PROVE IInv
    OBVIOUS
  <1>1. PICK rows \in LegacyRows :
          \E order \in Orders({[name |-> e.name, env |-> e.env] : e \in rows}) :
            LET db == backfill(rows, order)
            IN  /\ sources = db.sources
                /\ events = db.events
                /\ versions = {<<s.id, 1>> : s \in db.sources}
                /\ next = [source |-> Cardinality(db.sources) + 1, mapping |-> 1,
                           event |-> Cardinality(rows) + 1, drift |-> 1, request |-> 1]
    BY DEF Init
  <1>2. PICK o \in Orders({[name |-> e.name, env |-> e.env] : e \in rows}) :
            LET db == backfill(rows, o)
            IN  /\ sources = db.sources
                /\ events = db.events
                /\ versions = {<<s.id, 1>> : s \in db.sources}
                /\ next = [source |-> Cardinality(db.sources) + 1, mapping |-> 1,
                           event |-> Cardinality(rows) + 1, drift |-> 1, request |-> 1]
    BY <1>1
  <1> DEFINE db == backfill(rows, o)
  <1>3. /\ envs = <<Seeded>> /\ mappings = {} /\ recipes = {} /\ drifts = {} /\ batches = {}
        /\ onboardings = <<>> /\ thr = [t \in Threads |-> Idle] /\ alone \in BOOLEAN
    BY DEF Init
  <1>4. envs \in Seq(EnvNames) /\ 1 \in DOMAIN envs
    BY <1>3, SeededAssumption
  <1>5. Linked(db) /\ \A e \in db.events : e.source # 0
    BY <1>4, BackfillLinked
  <1>6. /\ rows # {} => Cardinality(rows) = 2
        /\ rows = {} => Cardinality(rows) = 0
    BY LegacyFacts
  <1>7. db.events # {} => rows # {}
    <2> SUFFICES ASSUME rows = {} PROVE db.events = {}
      OBVIOUS
    <2> DEFINE P == {[name |-> e.name, env |-> e.env] : e \in rows}
    <2>1. P = {} /\ Cardinality(P) = 0
      BY FS_EmptySet
    <2>2. o \in [1 .. Cardinality(P) -> P]
      BY DEF Orders
    <2> HIDE DEF P
    <2>3. Len(o) = 0 /\ Len(o) \in 0 .. 2
      BY <2>1, <2>2, LenProperties, SeqDef
    <2>4. db = [sources |-> {}, events |-> rows]
      BY <2>3, BackfillFacts
    <2> HIDE DEF db
    <2>5. QED
      BY <2>4
  <1> HIDE DEF db
  <1>8. /\ sources = db.sources /\ events = db.events
        /\ versions = {<<s.id, 1>> : s \in db.sources}
        /\ next = [source |-> Cardinality(db.sources) + 1, mapping |-> 1,
                   event |-> Cardinality(rows) + 1, drift |-> 1, request |-> 1]
    BY <1>2 DEF db
  <1>9. Cardinality(db.sources) \in Nat /\ IsFiniteSet(db.sources)
    BY <1>5, FS_CardinalityType DEF Linked
  <1>10. /\ next \in NextRow /\ next.source = Cardinality(sources) + 1 /\ next.mapping = 1
         /\ events # {} => next.event = 3
    BY <1>6, <1>7, <1>8, <1>9 DEF NextRow, Pos
  <1>11. versions \subseteq Pos \X Pos /\ IsFiniteSet(versions)
    <2>1. sources \subseteq SourceRow
      BY <1>5, <1>8 DEF Linked
    <2>2. versions \subseteq Pos \X Pos
      BY <1>8, <2>1 DEF SourceRow, Pos
    <2> DEFINE f == [s \in sources |-> <<s.id, 1>>]
    <2>3. f \in Surjection(sources, versions)
      BY <1>8 DEF Surjection
    <2> HIDE DEF f
    <2>4. IsFiniteSet(versions)
      BY <1>8, <1>9, <2>3, FS_Surjection
    <2>5. QED
      BY <2>2, <2>4
  <1>12. RowsInv
    <2>1. sources \subseteq SourceRow /\ events \subseteq EventRow
      BY <1>5, <1>8 DEF Linked
    <2>2. thr \in [Threads -> RequestRow]
      BY <1>3, IdleFacts
    <2>3. onboardings \in Seq(SampleRow)
      BY <1>3
    <2>4. /\ mappings \subseteq MappingRow /\ drifts \subseteq DriftRow
          /\ batches \subseteq RunRow
          /\ recipes \subseteq [name : Names, mapping : Pos]
      BY <1>3
    <2>5. QED
      BY <1>3, <1>4, <1>10, <1>11, <2>1, <2>2, <2>3, <2>4, Zenon DEF RowsInv, NextRow
  <1>13. SourceIds
    <2>1. \A s \in sources : s.id \in Nat /\ s.id <= Cardinality(sources)
      BY <1>5, <1>8, <1>12 DEF Linked, RowsInv, SourceRow, Pos
    <2>2. QED
      BY <1>5, <1>8, <1>9, <1>10, <2>1 DEF Linked, SourceIds
  <1>14. EventIds
    <2>1. \A e \in events : e.id \in Nat /\ e.id <= 2
      BY <1>5, <1>8, <1>12 DEF Linked, RowsInv, EventRow, Pos
    <2>2. \A e \in events : e.id < next.event
      <3> SUFFICES ASSUME NEW e \in events PROVE e.id < next.event
        OBVIOUS
      <3>1. next.event = 3
        BY <1>10
      <3>2. QED
        BY <2>1, <3>1
    <2>3. \A e, f \in events : e.id = f.id => e = f
      BY <1>5, <1>8 DEF Linked
    <2>4. QED
      BY <2>2, <2>3 DEF EventIds
  <1>15. VersionsBelong
    <2>1. \A s \in sources : <<s.id, 1>> \in versions
      BY <1>8
    <2>2. \A s \in sources : \E v \in versions : v[1] = s.id
      <3> SUFFICES ASSUME NEW s \in sources PROVE \E v \in versions : v[1] = s.id
        OBVIOUS
      <3>1. <<s.id, 1>> \in versions /\ <<s.id, 1>>[1] = s.id
        BY <2>1
      <3>2. QED
        BY <3>1
    <2>3. \A v \in versions : \E s \in sources : s.id = v[1]
      BY <1>8
    <2>4. QED
      BY <1>3, <2>2, <2>3 DEF VersionsBelong
  <1>16. EventsKnowTheirSource
    BY <1>5, <1>8, NoNameAssumption DEF Linked, EventsKnowTheirSource
  <1>17. Remembered
    BY <1>3, IdleFacts DEF Remembered
  <1>18. QED
    BY <1>12, <1>13, <1>14, <1>15, <1>16, <1>17 DEF IInv

-----------------------------------------------------------------------------
LEMMA NextInv ==
    ASSUME IInv, [Next]_vars
    PROVE  IInv'
  <1>1. ASSUME NEW t \in Threads, NEW env \in EnvNames, NEW n \in Names \cup {NoName},
               NEW op \in {"event", "batch", "sample"}, Begin(t, op, env, n, 0)
        PROVE  IInv'
    BY <1>1, BeginInv
  <1>7. ASSUME NEW t \in Threads, NEW n \in Names \cup {NoName}, Begin(t, "batch", BatchEnv, n, 0)
        PROVE  IInv'
    BY <1>1, <1>7, BatchAssumption
  <1>2. ASSUME NEW t \in Threads, NEW env \in EnvNames, NEW k \in DOMAIN onboardings,
               NEW n \in Names, BeginApproval(t, k, env, n)
        PROVE  IInv'
    <2>1. k \in Nat
      BY DEF IInv, RowsInv
    <2>2. Begin(t, "approve", env, n, k)
      BY <1>2 DEF BeginApproval
    <2>3. QED
      BY <1>2, <2>1, <2>2, BeginInv
  <1>3. ASSUME NEW t \in Threads, NEW e \in events, NEW n \in Names, BeginAdoption(t, e, n)
        PROVE  IInv'
    <2>1. e.id \in Nat /\ e.env \in EnvNames
      BY DEF IInv, RowsInv, EventRow, Pos
    <2>2. Begin(t, "adopt", e.env, n, e.id)
      BY <1>3 DEF BeginAdoption
    <2>3. QED
      BY <1>3, <2>1, <2>2, BeginInv
  <1>4. CASE UNCHANGED vars
    <2>1. /\ UNCHANGED <<envs, sources, knowledge, events, alone>> /\ UNCHANGED onboardings
          /\ UNCHANGED next /\ UNCHANGED thr
      BY <1>4 DEF vars, knowledge
    <2>2. next' \in NextRow /\ RowsInv /\ Remembered
      BY <2>1 DEF IInv, RowsInv, NextRow
    <2>3. Frame /\ ((thr' \in [Threads -> RequestRow] /\ Remembered') => IInv')
      BY <2>1, <2>2, SameSamples, QuietStep
    <2>4. QED
      BY <2>1, <2>2, <2>3, Stays
  <1>5. CASE Next
    <2>1. CASE \E t \in Threads, env \in EnvNames :
                 \/ \E n \in Names \cup {NoName}, op \in {"event", "sample"} :
                        Begin(t, op, env, n, 0)
                 \/ \E k \in DOMAIN onboardings, n \in Names : BeginApproval(t, k, env, n)
                 \/ \E n \in Names : delete_connection(t, n, env)
      BY <2>1, <1>1, <1>2, DeleteInv
    <2>2. CASE \E t \in Threads :
                 \/ \E n \in Names \cup {NoName} : Begin(t, "batch", BatchEnv, n, 0)
                 \/ \E s \in {"normalized", "quarantined"} : process_payload(t, s)
                 \/ \E e \in events, n \in Names : BeginAdoption(t, e, n)
                 \/ \E e \in events : Release(t, e)
                 \/ ProcessAnonymous(t) \/ create_onboarding(t) \/ approve_onboarding(t)
                 \/ onboard_event(t) \/ CommitDelete(t) \/ Answer(t) \/ Fail(t)
      BY <2>2, <1>3, <1>7, PayloadInv, ReleaseInv, AnonymousInv, SampleInv, ApproveInv, AdoptInv,
         RemoveInv, AnswerInv, FailInv
    <2>3. CASE \/ \E k \in DOMAIN onboardings : analyze_onboarding(k)
               \/ \E e \in EnvNames : create_environment(e)
               \/ \E d \in drifts : CloseDrift(d) \/ create_synthesis_job(d)
      BY <2>3, AnalyzeInv, EnvironmentInv, CloseInv
    <2>4. QED
      BY <1>5, <2>1, <2>2, <2>3 DEF Next
  <1>6. QED
    BY <1>4, <1>5

LEMMA SpecInv == Spec => []IInv
  <1>1. Init => IInv
    BY InitInv
  <1>2. IInv /\ [Next]_vars => IInv'
    BY NextInv
  <1>3. QED
    BY <1>1, <1>2, PTL DEF Spec

(* Rows name rows that exist and ids are below the next ones, whatever the *)
(* requests and however many (core/sources.py, api/connections.py).        *)
THEOREM RegistryTypeCorrect == Spec => []TypeOK
  <1>1. IInv => TypeOK
    <2> SUFFICES ASSUME IInv PROVE TypeOK
      OBVIOUS
    <2>1. RowsInv /\ SourceIds /\ EventIds /\ VersionsBelong
      BY DEF IInv
    <2>2. \A s \in sources : s.id \in 1 .. next.source - 1 /\ s.name \in Names /\ s.env \in DOMAIN envs
      BY <2>1 DEF RowsInv, SourceIds, SourceRow, Pos
    <2>3. \A e \in events : e.id \in 1 .. next.event - 1 /\ e.env \in EnvNames
      BY <2>1 DEF RowsInv, EventIds, EventRow, Pos
    <2>4. \A m \in mappings : m.id \in 1 .. next.mapping - 1
      BY <2>1 DEF RowsInv, VersionsBelong, MappingRow, Pos
    <2>5. QED
      BY <2>1, <2>2, <2>3, <2>4 DEF TypeOK, RowsInv, VersionsBelong
  <1>2. QED
    BY <1>1, SpecInv, PTL

(* An event is stored for a source of its own name, in its own             *)
(* environment, however requests overlap and fail (process_payload,        *)
(* reprocess, onboard_event, delete_connection).                           *)
THEOREM SourceTheorem == Spec => []EventsKnowTheirSource
  <1>1. IInv => EventsKnowTheirSource
    BY DEF IInv
  <1>2. QED
    BY <1>1, SpecInv, PTL

-----------------------------------------------------------------------------
(* One request after the other *)

OneAtWork == \A t, u \in Threads : thr[t].op # "none" /\ thr[u].op # "none" => t = u

(* What a request that is alone remembers is still all there is: of a      *)
(* source it did not find there is none, and a removal has found           *)
(* everything of its name.                                                 *)
Exact(r, E, S, M, B, D, X, V) ==
    /\ r.op \in {"event", "batch", "sample", "approve", "adopt"} /\ r.name # NoName /\ r.source = 0 =>
          \A s \in S : ~(s.name = r.name /\ s.env = r.envRow)
    /\ r.op = "delete" =>
          /\ r.envRow # 0 => r.envRow \in DOMAIN E /\ Lower[E[r.envRow]] = Lower[r.env]
          /\ \A k \in DOMAIN E : Lower[E[k]] = Lower[r.env] => r.envRow # 0 /\ r.envRow <= k
          /\ \A s \in S : s.id \in r.found.sources <=> (s.name = r.name /\ s.env = r.envRow)
          /\ \A e \in V : e.env = r.env /\ e.name = r.name => e.id \in r.found.events
          /\ \A m \in M : m.name = r.name => m.id \in r.found.mappings
          /\ \A b \in B : b.name = r.name => b.name \in r.found.recipes
          /\ \A d \in D : d.name = r.name => d.id \in r.found.drifts
          /\ \A x \in X : x.name = r.name => x.id \in r.found.batches

AllExact ==
    \A t \in Threads : Exact(thr[t], envs, sources, mappings, recipes, drifts, batches, events)

SourcesOnce == \A s, u \in sources : s.name = u.name /\ s.env = u.env => s = u
MappingsOnce ==
    /\ \A m, n \in mappings : m.version = n.version => m = n
    /\ \A m \in mappings : m.version \in versions

AloneInv == alone => OneAtWork /\ AllExact /\ SourcesOnce /\ MappingsOnce

LEMMA EnvironmentFirst ==
    ASSUME RowsInv, NEW env \in EnvNames
    PROVE  \A k \in DOMAIN envs :
             Lower[envs[k]] = Lower[env] =>
                environment_row_id(env) # 0 /\ environment_row_id(env) <= k
  <1> DEFINE S == {k \in DOMAIN envs : Lower[envs[k]] = Lower[env]}
  <1>1. S \in SUBSET Pos /\ S \in SUBSET Nat
    BY DEF RowsInv, Pos
  <1>2. environment_row_id(env) = MinOf(S)
    BY DEF environment_row_id
  <1> SUFFICES ASSUME NEW k \in S
               PROVE  environment_row_id(env) # 0 /\ environment_row_id(env) <= k
    OBVIOUS
  <1> HIDE DEF S
  <1>3. Min(S) \in S /\ \A y \in S : Min(S) <= y
    BY <1>1, NumbersHaveMin
  <1>4. MinOf(S) = Min(S)
    BY DEF MinOf
  <1>5. QED
    BY <1>1, <1>2, <1>3, <1>4 DEF Pos

(* The thread at work takes its next step, and remembers no lookup then. *)
LEMMA WorkerMoves ==
    ASSUME IInv, AloneInv, alone, NEW t \in Threads, thr[t].op # "none",
           NEW n \in RequestRow, n.op \in {"none", "release", "removed"},
           thr' = [thr EXCEPT ![t] = n]
    PROVE  OneAtWork' /\ AllExact'
  <1>1. /\ thr'[t] = n /\ \A u \in Threads : u # t => thr'[u] = thr[u]
    BY DEF IInv, RowsInv
  <1>2. \A u \in Threads : u # t => thr'[u].op = "none"
    BY <1>1 DEF AloneInv, OneAtWork
  <1>3. OneAtWork'
    BY <1>2 DEF OneAtWork
  <1>4. \A u \in Threads : thr'[u].op \in {"none", "release", "removed"}
    BY <1>1, <1>2
  <1>5. AllExact'
    <2> SUFFICES ASSUME NEW u \in Threads
                 PROVE  Exact(thr'[u], envs', sources', mappings', recipes', drifts', batches', events')
      BY DEF AllExact
    <2> DEFINE w == thr'[u]
    <2>1. w.op \in {"none", "release", "removed"}
      BY <1>4
    <2> HIDE DEF w
    <2>2. Exact(w, envs', sources', mappings', recipes', drifts', batches', events')
      BY <2>1 DEF Exact
    <2>3. QED
      BY <2>2 DEF w
  <1>6. QED
    BY <1>3, <1>5

(* A request is taken while nobody is at work. *)
LEMMA StarterMoves ==
    ASSUME IInv, alone, Request, NEW t \in Threads, NEW n \in RequestRow,
           thr' = [thr EXCEPT ![t] = n],
           Exact(n, envs', sources', mappings', recipes', drifts', batches', events')
    PROVE  OneAtWork' /\ AllExact'
  <1>1. /\ thr'[t] = n /\ \A u \in Threads : u # t => thr'[u] = thr[u]
    BY DEF IInv, RowsInv
  <1>2. \A u \in Threads : u # t => thr'[u].op = "none"
    BY <1>1 DEF Request
  <1>3. OneAtWork'
    BY <1>2 DEF OneAtWork
  <1>4. AllExact'
    <2> SUFFICES ASSUME NEW u \in Threads
                 PROVE  Exact(thr'[u], envs', sources', mappings', recipes', drifts', batches', events')
      BY DEF AllExact
    <2> DEFINE w == thr'[u]
    <2>1. w = n \/ w.op = "none"
      BY <1>1, <1>2
    <2> HIDE DEF w
    <2>2. Exact(w, envs', sources', mappings', recipes', drifts', batches', events')
      <3>1. CASE w = n
        BY <3>1
      <3>2. CASE w.op = "none"
        BY <3>2 DEF Exact
      <3>3. QED
        BY <2>1, <3>1, <3>2
    <2>3. QED
      BY <2>2 DEF w
  <1>5. QED
    BY <1>3, <1>4

LEMMA NobodyMoves ==
    ASSUME IInv, alone, Request, UNCHANGED thr
    PROVE  OneAtWork' /\ AllExact'
  <1>1. \A u \in Threads : thr'[u].op = "none"
    BY DEF Request
  <1>2. OneAtWork'
    BY <1>1 DEF OneAtWork
  <1>3. AllExact'
    <2> SUFFICES ASSUME NEW u \in Threads
                 PROVE  Exact(thr'[u], envs', sources', mappings', recipes', drifts', batches', events')
      BY DEF AllExact
    <2> DEFINE w == thr'[u]
    <2>1. w.op = "none"
      BY <1>1
    <2> HIDE DEF w
    <2>2. Exact(w, envs', sources', mappings', recipes', drifts', batches', events')
      BY <2>1 DEF Exact
    <2>3. QED
      BY <2>2 DEF w
  <1>4. QED
    BY <1>2, <1>3

(* A source that was not found is the first of its name there. *)
LEMMA OneMoreSource ==
    ASSUME IInv, NEW r, Registers(r), SourcesOnce,
           r.source = 0 => \A s \in sources : ~(s.name = r.name /\ s.env = r.envRow)
    PROVE  SourcesOnce'
  <1>1. /\ RowsInv /\ SourceIds
        /\ r.name \in Names /\ r.envRow \in Nat /\ r.source \in Nat
        /\ Meant(r, envs, sources, next) /\ Intact(r) /\ Register(r)
    BY DEF IInv, Registers
  <1>2. \A s \in sources' : s \in sources \/ (r.source = 0 /\ s = TheSource(r))
    BY <1>1, RegisterFacts
  <1>3. /\ r.env \in EnvNames /\ r.envRow <= Len(envs) /\ envs' = EnvsWith(r.env, r.envRow)
    <2>1. Len(envs) \in Nat /\ DOMAIN envs = 1 .. Len(envs)
      BY <1>1 DEF RowsInv
    <2>2. QED
      BY <1>1, <2>1 DEF Meant, Register
  <1>4. /\ r.envRow # 0 => EnvRow(r.envRow) = r.envRow
        /\ r.envRow = 0 => EnvRow(r.envRow) \notin DOMAIN envs
    BY <1>1, <1>3, EnvsWithFacts
  <1>5. TheSource(r).name = r.name /\ TheSource(r).env = EnvRow(r.envRow)
    BY DEF TheSource
  <1>6. r.source = 0 => \A s \in sources : ~(s.name = r.name /\ s.env = EnvRow(r.envRow))
    BY <1>1, <1>4 DEF SourceIds
  <1>7. QED
    BY <1>2, <1>5, <1>6 DEF SourcesOnce

LEMMA SameMappings ==
    ASSUME MappingsOnce, UNCHANGED mappings, versions \subseteq versions'
    PROVE  MappingsOnce'
  BY DEF MappingsOnce

LEMMA RegisterKeepsMappings ==
    ASSUME IInv, NEW r, Registers(r), versions' = VersionsWith(r), UNCHANGED mappings, MappingsOnce
    PROVE  MappingsOnce'
  <1>1. versions \subseteq VersionsWith(r)
    BY VersionsWithFacts DEF IInv, Registers
  <1>2. QED
    BY <1>1, SameMappings

(* Each mapping is published under a version no other has. *)
LEMMA OneMoreMapping ==
    ASSUME IInv, NEW r, Registers(r), publish_mapping_knowledge(r), MappingsOnce
    PROVE  MappingsOnce'
  <1> DEFINE x == next_version(r)
             v == <<SourceId(r), x>>
             m == [id |-> next.mapping, name |-> r.name, version |-> v]
  <1>1. versions' = VersionsWith(r) \cup {v} /\ mappings' = mappings \cup {m}
    BY DEF publish_mapping_knowledge
  <1>2. /\ VersionsWith(r) \subseteq Pos \X Pos /\ IsFiniteSet(VersionsWith(r))
        /\ versions \subseteq VersionsWith(r)
        /\ \E w \in VersionsWith(r) : w[1] = SourceId(r)
        /\ r.source = 0 => VersionsWith(r) = versions \cup {<<next.source, 1>>}
        /\ r.source # 0 => VersionsWith(r) = versions
    BY VersionsWithFacts DEF IInv, Registers
  <1>3. /\ x \in Pos
        /\ (\E k \in mappings : k.name = r.name) => v \notin VersionsWith(r)
        /\ (~\E k \in mappings : k.name = r.name) => v \in VersionsWith(r)
    BY <1>2, NextVersionFacts
  <1>4. v[1] = SourceId(r) /\ m.version = v
    OBVIOUS
  <1> HIDE DEF x, v, m
  <1>5. ASSUME NEW k \in mappings, k.version = v PROVE FALSE
    <2>1. v \in versions
      BY <1>5 DEF MappingsOnce
    <2>2. k.version[1] = SourceId(r)
      BY <1>4, <1>5
    <2>3. CASE r.source = 0
      <3>1. k.version[1] < next.source /\ SourceId(r) = next.source /\ next.source \in Nat
        BY <2>3 DEF IInv, VersionsBelong, RowsInv, SourceId, Pos
      <3>2. QED
        BY <2>2, <3>1
    <2>4. CASE r.source # 0
      <3>1. PICK s \in sources : s.id = r.source /\ s.name = r.name
        BY <2>4 DEF Registers, Intact, Meant
      <3>2. s.name = k.name
        BY <2>2, <2>4, <3>1 DEF IInv, VersionsBelong, SourceId
      <3>3. v \notin VersionsWith(r)
        BY <1>3, <3>1, <3>2
      <3>4. QED
        BY <1>2, <2>1, <3>3
    <2>5. QED
      BY <2>3, <2>4
  <1>6. QED
    BY <1>1, <1>2, <1>4, <1>5 DEF MappingsOnce

(* A step of the tables and of the threads. *)
LEMMA AloneStep ==
    ASSUME AloneInv, alone' = alone,
           alone => OneAtWork' /\ AllExact' /\ SourcesOnce' /\ MappingsOnce'
    PROVE  AloneInv'
  BY DEF AloneInv

LEMMA SameTables ==
    ASSUME AloneInv, alone, UNCHANGED <<sources, versions, mappings>>
    PROVE  SourcesOnce' /\ MappingsOnce'
  BY DEF AloneInv, SourcesOnce, MappingsOnce

LEMMA BeginAlone ==
    ASSUME IInv, AloneInv, alone, NEW t \in Threads,
           NEW op \in {"event", "batch", "sample", "approve", "adopt"},
           NEW env \in EnvNames, NEW name \in Names \cup {NoName}, NEW target \in Nat,
           Begin(t, op, env, name, target)
    PROVE  AloneInv'
  <1> DEFINE k == environment_row_id(env)
             i == IF name = NoName THEN 0 ELSE FindSource(name, env)
             r == [Idle EXCEPT !.op = op, !.env = env, !.name = name, !.target = target,
                               !.envRow = k, !.source = i]
  <1>1. RowsInv /\ SourceIds
    BY DEF IInv
  <1>2. k \in Nat
    BY <1>1, EnvironmentFacts
  <1>3. /\ i \in Nat
        /\ name # NoName /\ i = 0 => \A s \in sources : ~(s.name = name /\ s.env = k)
    <2>1. /\ FindSource(name, env) \in Nat
          /\ FindSource(name, env) = 0 <=> SourcesOf(name, k) = {}
      BY <1>1, SourceFacts
    <2> HIDE DEF k
    <2>2. QED
      BY <2>1 DEF SourcesOf
  <1>4. /\ thr' = [thr EXCEPT ![t] = r] /\ Request /\ alone' = alone
        /\ UNCHANGED <<envs, sources, knowledge, events, onboardings, alone>>
    BY DEF Begin
  <1> HIDE DEF k, i
  <1>5. /\ r.op = op /\ r.name = name /\ r.envRow = k /\ r.source = i /\ r \in RequestRow
    BY <1>2, <1>3, IdleFacts DEF RequestRow, Ops
  <1> HIDE DEF r
  <1>6. Exact(r, envs', sources', mappings', recipes', drifts', batches', events')
    BY <1>3, <1>4, <1>5 DEF Exact
  <1>7. OneAtWork' /\ AllExact'
    BY <1>4, <1>5, <1>6, StarterMoves
  <1>8. SourcesOnce' /\ MappingsOnce'
    BY <1>4, SameTables DEF knowledge
  <1>9. QED
    BY <1>4, <1>7, <1>8, AloneStep

LEMMA DeleteAlone ==
    ASSUME IInv, AloneInv, alone, NEW t \in Threads, NEW name \in Names, NEW env \in EnvNames,
           delete_connection(t, name, env)
    PROVE  AloneInv'
  <1> DEFINE k == environment_row_id(env)
             mine == SourcesOf(name, k)
             f == [sources |-> {s.id : s \in mine},
                   events |-> {e.id : e \in EventsOf(name, env)},
                   mappings |-> {m.id : m \in KnowledgeOf(name)},
                   drifts |-> {d.id : d \in {x \in drifts : x.name = name}},
                   recipes |-> {b.name : b \in {x \in recipes : x.name = name}},
                   batches |-> {b.id : b \in {x \in batches : x.name = name}}]
             r == [Idle EXCEPT !.op = "delete", !.env = env, !.name = name, !.envRow = k, !.found = f]
  <1>1. RowsInv /\ SourceIds
    BY DEF IInv
  <1>2. /\ k \in Nat
        /\ k # 0 => k \in DOMAIN envs /\ Lower[envs[k]] = Lower[env]
    BY <1>1, EnvironmentFacts
  <1>3. \A j \in DOMAIN envs : Lower[envs[j]] = Lower[env] => k # 0 /\ k <= j
    BY <1>1, EnvironmentFirst
  <1>4. /\ {s.id : s \in mine} \subseteq Nat
        /\ {e.id : e \in EventsOf(name, env)} \subseteq Nat
        /\ {m.id : m \in KnowledgeOf(name)} \subseteq Nat
        /\ {d.id : d \in {x \in drifts : x.name = name}} \subseteq Nat
        /\ {b.name : b \in {x \in recipes : x.name = name}} \subseteq Names
        /\ {b.id : b \in {x \in batches : x.name = name}} \subseteq Nat
    BY <1>1 DEF RowsInv, SourcesOf, EventsOf, KnowledgeOf, SourceRow, EventRow, MappingRow,
                DriftRow, RunRow, Pos
  <1>5. f \in FoundRow
    BY <1>4 DEF FoundRow
  <1> HIDE DEF k
  <1>6. \A s \in sources : s.id \in f.sources <=> (s.name = name /\ s.env = k)
    <2>1. \A s, u \in sources : s.id = u.id => s = u
      BY <1>1 DEF SourceIds
    <2>2. f.sources = {s.id : s \in mine}
      OBVIOUS
    <2> HIDE DEF f
    <2>3. QED
      BY <2>1, <2>2 DEF SourcesOf
  <1>7. /\ \A e \in events : e.env = env /\ e.name = name => e.id \in f.events
        /\ \A m \in mappings : m.name = name => m.id \in f.mappings
        /\ \A b \in recipes : b.name = name => b.name \in f.recipes
        /\ \A d \in drifts : d.name = name => d.id \in f.drifts
        /\ \A b \in batches : b.name = name => b.id \in f.batches
    BY DEF EventsOf, KnowledgeOf
  <1>8. /\ thr' = [thr EXCEPT ![t] = r] /\ Request /\ alone' = alone
        /\ envs' = envs /\ sources' = sources /\ versions' = versions /\ mappings' = mappings
        /\ recipes' = recipes /\ drifts' = drifts /\ batches' = batches /\ events' = events
    BY DEF delete_connection, knowledge, k
  <1> HIDE DEF f
  <1>9. /\ r.op = "delete" /\ r.env = env /\ r.name = name /\ r.envRow = k /\ r.found = f
        /\ r \in RequestRow
    BY <1>2, <1>5, IdleFacts DEF RequestRow, Ops
  <1> HIDE DEF r
  <1>10. Exact(r, envs, sources, mappings, recipes, drifts, batches, events)
    BY <1>2, <1>3, <1>6, <1>7, <1>9 DEF Exact
  <1>11. Exact(r, envs', sources', mappings', recipes', drifts', batches', events')
    BY <1>8, <1>10
  <1>12. OneAtWork' /\ AllExact'
    BY <1>8, <1>9, <1>11, StarterMoves
  <1>13. SourcesOnce' /\ MappingsOnce'
    BY <1>8, SameTables
  <1>14. QED
    BY <1>8, <1>12, <1>13, AloneStep

(* Steps that take a request and no thread. *)
LEMMA OthersAlone ==
    ASSUME IInv, AloneInv, alone,
           \/ \E k \in DOMAIN onboardings : analyze_onboarding(k)
           \/ \E e \in EnvNames : create_environment(e)
           \/ \E d \in drifts : CloseDrift(d) \/ create_synthesis_job(d)
    PROVE  AloneInv'
  <1>1. /\ Request /\ UNCHANGED thr /\ UNCHANGED sources /\ UNCHANGED versions
        /\ UNCHANGED mappings /\ alone' = alone
    BY DEF analyze_onboarding, create_environment, MarkDrift, CloseDrift, create_synthesis_job, knowledge
  <1>2. OneAtWork' /\ AllExact'
    BY <1>1, NobodyMoves
  <1>3. SourcesOnce' /\ MappingsOnce'
    BY <1>1, SameTables
  <1>4. QED
    BY <1>1, <1>2, <1>3, AloneStep

(* Steps that end a request. *)
LEMMA EndAlone ==
    ASSUME IInv, AloneInv, alone, NEW t \in Threads, Answer(t) \/ Fail(t) \/ ProcessAnonymous(t)
    PROVE  AloneInv'
  <1>1. /\ thr' = [thr EXCEPT ![t] = Idle] /\ thr[t].op # "none"
        /\ UNCHANGED sources /\ UNCHANGED versions /\ UNCHANGED mappings /\ alone' = alone
    BY DEF Answer, Fail, ProcessAnonymous, Done, knowledge
  <1>2. OneAtWork' /\ AllExact'
    BY <1>1, IdleFacts, WorkerMoves
  <1>3. SourcesOnce' /\ MappingsOnce'
    BY <1>1, SameTables
  <1>4. QED
    BY <1>1, <1>2, <1>3, AloneStep

(* What a lookup that found nothing says. *)
LEMMA ExactSource ==
    ASSUME AloneInv, alone, NEW t \in Threads,
           thr[t].op \in {"event", "batch", "sample", "approve", "adopt"}, thr[t].name # NoName
    PROVE  thr[t].source = 0 =>
             \A s \in sources : ~(s.name = thr[t].name /\ s.env = thr[t].envRow)
  <1>1. Exact(thr[t], envs, sources, mappings, recipes, drifts, batches, events)
    BY DEF AloneInv, AllExact
  <1>2. QED
    BY <1>1 DEF Exact

LEMMA PayloadAlone ==
    ASSUME IInv, AloneInv, alone, NEW t \in Threads, NEW s \in {"normalized", "quarantined"},
           process_payload(t, s)
    PROVE  AloneInv'
  <1>1. /\ thr' = [thr EXCEPT ![t] = Idle] /\ thr[t].op \in {"event", "batch"} /\ thr[t].name # NoName
        /\ UNCHANGED mappings /\ alone' = alone
    BY DEF process_payload, Done
  <1>2. Registers(thr[t]) /\ versions' = VersionsWith(thr[t])
    BY PayloadRegisters
  <1>3. OneAtWork' /\ AllExact'
    BY <1>1, IdleFacts, WorkerMoves
  <1>4. SourcesOnce'
    BY <1>1, <1>2, ExactSource, OneMoreSource DEF AloneInv
  <1>5. MappingsOnce'
    BY <1>1, <1>2, RegisterKeepsMappings DEF AloneInv
  <1>6. QED
    BY <1>1, <1>3, <1>4, <1>5, AloneStep

LEMMA SampleAlone ==
    ASSUME IInv, AloneInv, alone, NEW t \in Threads, create_onboarding(t)
    PROVE  AloneInv'
  <1>1. /\ thr' = [thr EXCEPT ![t] = Idle] /\ thr[t].op = "sample"
        /\ UNCHANGED mappings /\ alone' = alone
    BY DEF create_onboarding, Done
  <1>2. OneAtWork' /\ AllExact'
    BY <1>1, IdleFacts, WorkerMoves
  <1>3. CASE thr[t].name = NoName
    <2>1. UNCHANGED sources /\ UNCHANGED versions
      BY <1>3 DEF create_onboarding
    <2>2. SourcesOnce' /\ MappingsOnce'
      BY <1>1, <2>1, SameTables
    <2>3. QED
      BY <1>1, <1>2, <2>2, AloneStep
  <1>4. CASE thr[t].name # NoName
    <2>1. Registers(thr[t]) /\ versions' = VersionsWith(thr[t])
      BY <1>4, SampleRegisters
    <2>2. SourcesOnce'
      BY <1>1, <1>4, <2>1, ExactSource, OneMoreSource DEF AloneInv
    <2>3. MappingsOnce'
      BY <1>1, <2>1, RegisterKeepsMappings DEF AloneInv
    <2>4. QED
      BY <1>1, <1>2, <2>2, <2>3, AloneStep
  <1>5. QED
    BY <1>3, <1>4

(* A publication, of an approved sample or an adopted event. *)
LEMMA PublishAlone ==
    ASSUME IInv, AloneInv, alone, NEW t \in Threads, approve_onboarding(t) \/ onboard_event(t)
    PROVE  AloneInv'
  <1> DEFINE r == thr[t]
  <1>1. /\ r.op \in {"approve", "adopt"} /\ alone' = alone
        /\ Intact(r) /\ Register(r) /\ publish_mapping_knowledge(r) /\ next' = NextIds(r, 0, 1)
    BY DEF approve_onboarding, onboard_event
  <1>2. /\ r.name \in Names /\ r.envRow \in Nat /\ r.source \in Nat /\ r.target \in Nat
        /\ Meant(r, envs, sources, next)
    BY <1>1, ThreadFacts DEF Sound
  <1>3. r.name # NoName
    BY <1>2, NoNameAssumption
  <1>4. \E ids \in SUBSET Nat : ReleaseFrom(t, ids)
    <2>1. {e.id : e \in {x \in Held(events) : x.name = r.name}} \in SUBSET Nat
      BY DEF IInv, RowsInv, EventRow, Held, Pos
    <2>2. {r.target} \in SUBSET Nat
      BY <1>2
    <2>3. CASE approve_onboarding(t)
      BY <2>1, <2>3 DEF approve_onboarding
    <2>4. CASE onboard_event(t)
      BY <2>2, <2>4 DEF onboard_event
    <2>5. QED
      BY <2>3, <2>4
  <1>5. PICK n \in RequestRow : thr' = [thr EXCEPT ![t] = n] /\ n.op = "release"
    BY <1>4, ReleaseFacts
  <1>6. OneAtWork' /\ AllExact'
    BY <1>1, <1>5, WorkerMoves
  <1>7. r.source = 0 => \A s \in sources : ~(s.name = r.name /\ s.env = r.envRow)
    BY <1>1, <1>3, ExactSource
  <1> HIDE DEF r
  <1>8. Registers(r)
    BY <1>1, <1>2, Publishes
  <1>9. SourcesOnce' /\ MappingsOnce'
    BY <1>1, <1>7, <1>8, OneMoreSource, OneMoreMapping DEF AloneInv
  <1>10. QED
    BY <1>1, <1>6, <1>9, AloneStep

LEMMA ReleaseAlone ==
    ASSUME IInv, AloneInv, alone, NEW t \in Threads, NEW e \in events, Release(t, e)
    PROVE  AloneInv'
  <1> DEFINE n == [thr[t] EXCEPT !.found.events = @ \ {e.id}]
  <1>1. thr[t].op = "release" /\ UNCHANGED mappings /\ alone' = alone
    BY DEF Release
  <1>2. thr' = [thr EXCEPT ![t] = n]
    BY DEF Release
  <1>3. n \in RequestRow /\ n.op = "release"
    <2> DEFINE g == [thr[t].found EXCEPT !.events = @ \ {e.id}]
    <2>1. thr[t] \in RequestRow /\ thr[t].found \in FoundRow
      BY ThreadFacts
    <2>2. g \in FoundRow
      BY <2>1 DEF FoundRow
    <2>3. n = [thr[t] EXCEPT !.found = g]
      OBVIOUS
    <2> HIDE DEF n, g
    <2>4. QED
      BY <1>1, <2>1, <2>2, <2>3 DEF RequestRow
  <1> HIDE DEF n
  <1>4. OneAtWork' /\ AllExact'
    BY <1>1, <1>2, <1>3, WorkerMoves
  <1>5. PICK r : \E s \in {"normalized", "quarantined"} : Follows(r, e, s)
    BY ReleaseRegisters
  <1>6. /\ Registers(r) /\ versions' = VersionsWith(r)
        /\ r.source = 0 => \A u \in sources : ~(u.name = r.name /\ u.env = r.envRow)
    BY <1>5 DEF Follows
  <1>7. SourcesOnce' /\ MappingsOnce'
    BY <1>1, <1>6, OneMoreSource, RegisterKeepsMappings DEF AloneInv
  <1>8. QED
    BY <1>1, <1>4, <1>7, AloneStep

LEMMA RemoveAlone ==
    ASSUME IInv, AloneInv, alone, NEW t \in Threads, CommitDelete(t)
    PROVE  AloneInv'
  <1> DEFINE f == thr[t].found
             n == [thr[t] EXCEPT !.op = "removed", !.found = Nothing]
             name == thr[t].name
  <1>1. /\ thr[t].op = "delete" /\ alone' = alone
        /\ sources' = {s \in sources : s.id \notin f.sources}
        /\ versions' = {v \in versions : v[1] \notin f.sources}
        /\ mappings' = {Unversioned(m, f.sources) : m \in {x \in mappings : x.id \notin f.mappings}}
    BY DEF CommitDelete
  <1>2. thr' = [thr EXCEPT ![t] = n]
    BY DEF CommitDelete
  <1>3. n \in RequestRow /\ n.op = "removed"
    BY ThreadFacts, IdleFacts DEF RequestRow, Ops
  <1>4. /\ \A s \in sources : s.id \in f.sources => s.name = name
        /\ \A m \in mappings : m.name = name => m.id \in f.mappings
    <2>1. Exact(thr[t], envs, sources, mappings, recipes, drifts, batches, events)
      BY DEF AloneInv, AllExact
    <2>2. QED
      BY <1>1, <2>1 DEF Exact
  <1> HIDE DEF n, f, name
  <1>5. OneAtWork' /\ AllExact'
    BY <1>1, <1>2, <1>3, WorkerMoves
  <1>6. SourcesOnce'
    BY <1>1 DEF AloneInv, SourcesOnce
  <1>7. ASSUME NEW m \in mappings, m.id \notin f.mappings
        PROVE  /\ Unversioned(m, f.sources) = m
               /\ m.version \in versions /\ m.version[1] \notin f.sources
    <2>1. m.version \in versions
      BY DEF AloneInv, MappingsOnce
    <2>2. PICK s \in sources : s.id = m.version[1]
      BY <2>1 DEF IInv, VersionsBelong
    <2>3. s.name = m.name
      BY <2>2 DEF IInv, VersionsBelong
    <2>4. m.version[1] \notin f.sources
      BY <1>4, <1>7, <2>2, <2>3
    <2>5. QED
      BY <2>1, <2>4 DEF Unversioned
  <1>8. mappings' \subseteq mappings /\ \A m \in mappings' : m.version \in versions'
    BY <1>1, <1>7
  <1>9. MappingsOnce'
    BY <1>8 DEF AloneInv, MappingsOnce
  <1>10. QED
    BY <1>1, <1>5, <1>6, <1>9, AloneStep

-----------------------------------------------------------------------------
LEMMA InitAlone == Init => AloneInv
  <1> SUFFICES ASSUME Init PROVE AloneInv
    OBVIOUS
  <1>1. PICK rows \in LegacyRows :
          \E order \in Orders({[name |-> e.name, env |-> e.env] : e \in rows}) :
            LET db == backfill(rows, order)
            IN  sources = db.sources
    BY DEF Init
  <1>2. PICK o \in Orders({[name |-> e.name, env |-> e.env] : e \in rows}) :
            sources = backfill(rows, o).sources
    BY <1>1
  <1>3. /\ envs = <<Seeded>> /\ mappings = {} /\ thr = [t \in Threads |-> Idle]
    BY DEF Init
  <1>4. envs \in Seq(EnvNames) /\ 1 \in DOMAIN envs
    BY <1>3, SeededAssumption
  <1>5. Linked(backfill(rows, o))
    BY <1>4, BackfillLinked
  <1>6. SourcesOnce
    BY <1>2, <1>5 DEF Linked, SourcesOnce
  <1>7. MappingsOnce
    BY <1>3 DEF MappingsOnce
  <1>8. \A t \in Threads : thr[t].op = "none"
    BY <1>3, IdleFacts
  <1>9. OneAtWork /\ AllExact
    BY <1>8 DEF OneAtWork, AllExact, Exact
  <1>10. QED
    BY <1>6, <1>7, <1>9 DEF AloneInv

LEMMA AloneStays ==
    ASSUME [Next]_vars
    PROVE  alone' = alone
  <1>1. ASSUME NEW t \in Threads
        PROVE  /\ \A op, env, n, x : Begin(t, op, env, n, x) => UNCHANGED alone
               /\ \A s : process_payload(t, s) => UNCHANGED alone
               /\ \A e : Release(t, e) => UNCHANGED alone
               /\ \A n, env : delete_connection(t, n, env) => UNCHANGED alone
    BY DEF Begin, process_payload, Release, delete_connection
  <1>2. ASSUME NEW t \in Threads,
               \/ ProcessAnonymous(t) \/ create_onboarding(t) \/ approve_onboarding(t)
               \/ onboard_event(t) \/ CommitDelete(t) \/ Answer(t) \/ Fail(t)
        PROVE  UNCHANGED alone
    BY <1>2 DEF ProcessAnonymous, create_onboarding, approve_onboarding, onboard_event,
                CommitDelete, Answer, Fail
  <1>3. ASSUME \/ \E k \in DOMAIN onboardings : analyze_onboarding(k)
               \/ \E e \in EnvNames : create_environment(e)
               \/ \E d \in drifts : CloseDrift(d) \/ create_synthesis_job(d)
        PROVE  UNCHANGED alone
    BY <1>3 DEF analyze_onboarding, create_environment, MarkDrift, CloseDrift,
                create_synthesis_job
  <1>4. CASE UNCHANGED vars
    BY <1>4 DEF vars
  <1>5. CASE Next
    BY <1>1, <1>2, <1>3, <1>5 DEF Next, BeginApproval, BeginAdoption
  <1>6. QED
    BY <1>4, <1>5

LEMMA AloneNext ==
    ASSUME IInv, AloneInv, [Next]_vars
    PROVE  AloneInv'
  <1>0. CASE ~alone
    BY <1>0, AloneStays DEF AloneInv
  <1> SUFFICES ASSUME alone PROVE AloneInv'
    BY <1>0
  <1>1. ASSUME NEW t \in Threads, NEW env \in EnvNames, NEW n \in Names \cup {NoName},
               NEW op \in {"event", "batch", "sample"}, Begin(t, op, env, n, 0)
        PROVE  AloneInv'
    BY <1>1, BeginAlone
  <1>7. ASSUME NEW t \in Threads, NEW n \in Names \cup {NoName}, Begin(t, "batch", BatchEnv, n, 0)
        PROVE  AloneInv'
    BY <1>1, <1>7, BatchAssumption
  <1>2. ASSUME NEW t \in Threads, NEW env \in EnvNames, NEW k \in DOMAIN onboardings,
               NEW n \in Names, BeginApproval(t, k, env, n)
        PROVE  AloneInv'
    <2>1. k \in Nat
      BY DEF IInv, RowsInv
    <2>2. Begin(t, "approve", env, n, k)
      BY <1>2 DEF BeginApproval
    <2>3. QED
      BY <1>2, <2>1, <2>2, BeginAlone
  <1>3. ASSUME NEW t \in Threads, NEW e \in events, NEW n \in Names, BeginAdoption(t, e, n)
        PROVE  AloneInv'
    <2>1. e.id \in Nat /\ e.env \in EnvNames
      BY DEF IInv, RowsInv, EventRow, Pos
    <2>2. Begin(t, "adopt", e.env, n, e.id)
      BY <1>3 DEF BeginAdoption
    <2>3. QED
      BY <1>3, <2>1, <2>2, BeginAlone
  <1>4. CASE UNCHANGED vars
    BY <1>4 DEF vars, AloneInv, OneAtWork, AllExact, SourcesOnce, MappingsOnce
  <1>5. CASE Next
    <2>1. CASE \E t \in Threads, env \in EnvNames :
                 \/ \E n \in Names \cup {NoName}, op \in {"event", "sample"} :
                        Begin(t, op, env, n, 0)
                 \/ \E k \in DOMAIN onboardings, n \in Names : BeginApproval(t, k, env, n)
                 \/ \E n \in Names : delete_connection(t, n, env)
      BY <2>1, <1>1, <1>2, DeleteAlone
    <2>2. CASE \E t \in Threads :
                 \/ \E n \in Names \cup {NoName} : Begin(t, "batch", BatchEnv, n, 0)
                 \/ \E s \in {"normalized", "quarantined"} : process_payload(t, s)
                 \/ \E e \in events, n \in Names : BeginAdoption(t, e, n)
                 \/ \E e \in events : Release(t, e)
                 \/ ProcessAnonymous(t) \/ create_onboarding(t) \/ approve_onboarding(t)
                 \/ onboard_event(t) \/ CommitDelete(t) \/ Answer(t) \/ Fail(t)
      BY <2>2, <1>3, <1>7, PayloadAlone, ReleaseAlone, EndAlone, SampleAlone, PublishAlone, RemoveAlone
    <2>3. CASE \/ \E k \in DOMAIN onboardings : analyze_onboarding(k)
               \/ \E e \in EnvNames : create_environment(e)
               \/ \E d \in drifts : CloseDrift(d) \/ create_synthesis_job(d)
      BY <2>3, OthersAlone
    <2>4. QED
      BY <1>5, <2>1, <2>2, <2>3 DEF Next
  <1>6. QED
    BY <1>4, <1>5

LEMMA SpecAlone == Spec => [](IInv /\ AloneInv)
  <1>1. Init => IInv /\ AloneInv
    BY InitInv, InitAlone
  <1>2. (IInv /\ AloneInv) /\ [Next]_vars => (IInv /\ AloneInv)'
    BY NextInv, AloneNext
  <1>3. QED
    BY <1>1, <1>2, PTL DEF Spec

(* Requests served one after the other find the source a name has in its   *)
(* environment or are the first to register it, and each publishes under   *)
(* a version no other mapping has (get_or_create_source, next_version and  *)
(* publish_mapping_knowledge, over every database the migration leaves).   *)
THEOREM OnceTheorem == Spec => []RegisteredOnce
  <1>1. AloneInv => RegisteredOnce
    BY DEF AloneInv, RegisteredOnce, SourcesOnce, MappingsOnce
  <1>2. QED
    BY <1>1, SpecAlone, PTL

-----------------------------------------------------------------------------
(* Removing a connection *)

(* The row of an environment is the first of its name. *)
LEMMA FirstRow ==
    ASSUME NEW E \in Seq(EnvNames), NEW env,
           NEW k, k = MinOf({j \in DOMAIN E : Lower[E[j]] = Lower[env]})
    PROVE  /\ k \in Nat
           /\ k # 0 => k \in DOMAIN E /\ Lower[E[k]] = Lower[env]
           /\ \A j \in DOMAIN E : Lower[E[j]] = Lower[env] => k # 0 /\ k <= j
  <1> DEFINE S == {j \in DOMAIN E : Lower[E[j]] = Lower[env]}
  <1>1. S \in SUBSET Pos /\ S \in SUBSET Nat
    BY DEF Pos
  <1>2. \A j \in S : j \in DOMAIN E /\ Lower[E[j]] = Lower[env]
    OBVIOUS
  <1>3. k = MinOf(S) /\ \A j \in DOMAIN E : Lower[E[j]] = Lower[env] => j \in S
    OBVIOUS
  <1> HIDE DEF S
  <1>4. k \in Nat /\ (k = 0 <=> S = {}) /\ (k # 0 => k \in S)
    BY <1>1, <1>3, MinOfFacts
  <1>5. ASSUME NEW j \in S PROVE k # 0 /\ k <= j
    <2>1. Min(S) <= j
      BY <1>1, NumbersHaveMin
    <2>2. S # {} /\ MinOf(S) = Min(S)
      BY DEF MinOf
    <2>3. QED
      BY <1>3, <1>4, <2>1, <2>2
  <1>6. QED
    BY <1>2, <1>3, <1>4, <1>5

(* Nothing is kept that is listed, found or known under the name. *)
LEMMA CommitRemoves ==
    ASSUME IInv, AloneInv, alone, RowsInv', NEW t \in Threads, CommitDelete(t)
    PROVE  Removed(t)
  <1> DEFINE r == thr[t]
             f == r.found
             name == thr'[t].name
             env == thr'[t].env
             k == MinOf({j \in DOMAIN envs' : Lower[envs'[j]] = Lower[env]})
  <1>1. RowsInv /\ SourceIds /\ envs' \in Seq(EnvNames) /\ sources' \subseteq SourceRow
    BY DEF IInv, RowsInv
  <1>2. r.op = "delete" /\ Exact(r, envs, sources, mappings, recipes, drifts, batches, events)
    BY DEF CommitDelete, AloneInv, AllExact
  <1>3. r.name = name /\ r.env = env
    <2>1. thr' = [thr EXCEPT ![t] = [thr[t] EXCEPT !.op = "removed", !.found = Nothing]]
      BY DEF CommitDelete
    <2>2. thr \in [Threads -> RequestRow] /\ thr[t] \in RequestRow
      BY <1>1 DEF RowsInv
    <2>3. thr'[t] = [thr[t] EXCEPT !.op = "removed", !.found = Nothing]
      BY <2>1, <2>2
    <2>4. QED
      BY <2>2, <2>3 DEF RequestRow
  <1>4. /\ envs' = EnvsWith(r.env, r.envRow)
        /\ sources' = {s \in sources : s.id \notin f.sources}
        /\ events' = {e \in events : e.id \notin f.events}
        /\ mappings' = {Unversioned(m, f.sources) : m \in {x \in mappings : x.id \notin f.mappings}}
        /\ recipes' = {b \in recipes : b.name \notin f.recipes}
        /\ drifts' = {d \in drifts : d.id \notin f.drifts}
        /\ batches' = {b \in batches : b.id \notin f.batches}
    BY DEF CommitDelete
  <1>5. r.envRow \in Nat /\ r.env \in EnvNames
    <2>1. r \in RequestRow /\ Sound(r, envs, sources, events, onboardings, next)
      BY ThreadFacts
    <2> HIDE DEF r
    <2>2. QED
      BY <1>2, <2>1 DEF Sound, RequestRow
  <1> HIDE DEF r, f, name, env
  <1>6. /\ r.envRow # 0 => r.envRow \in DOMAIN envs /\ Lower[envs[r.envRow]] = Lower[env]
        /\ \A j \in DOMAIN envs : Lower[envs[j]] = Lower[env] => r.envRow # 0 /\ r.envRow <= j
    BY <1>2, <1>3 DEF Exact
  <1>7. /\ \A s \in sources : s.id \in f.sources <=> (s.name = name /\ s.env = r.envRow)
        /\ \A e \in events : e.env = env /\ e.name = name => e.id \in f.events
        /\ \A m \in mappings : m.name = name => m.id \in f.mappings
        /\ \A b \in recipes : b.name = name => b.name \in f.recipes
        /\ \A d \in drifts : d.name = name => d.id \in f.drifts
        /\ \A b \in batches : b.name = name => b.id \in f.batches
    BY <1>2, <1>3 DEF Exact, f
  <1>8. /\ k \in Nat
        /\ k # 0 => k \in DOMAIN envs' /\ Lower[envs'[k]] = Lower[env]
        /\ \A j \in DOMAIN envs' : Lower[envs'[j]] = Lower[env] => k # 0 /\ k <= j
    BY <1>1, FirstRow
  <1> HIDE DEF k
  <1>9. \A s \in sources' : ~(s.name = name /\ s.env = k)
    <2>1. CASE r.envRow # 0
      <3>1. envs' = envs
        BY <1>4, <2>1 DEF EnvsWith
      <3>2. /\ r.envRow \in DOMAIN envs' /\ Lower[envs'[r.envRow]] = Lower[env]
            /\ \A j \in DOMAIN envs' : Lower[envs'[j]] = Lower[env] => r.envRow <= j
        BY <1>6, <2>1, <3>1
      <3>3. k # 0 /\ k <= r.envRow /\ r.envRow <= k
        BY <1>8, <3>2
      <3>4. k = r.envRow
        BY <1>5, <1>8, <3>3
      <3>5. QED
        BY <1>4, <1>7, <3>4
    <2>2. CASE r.envRow = 0
      <3>1. envs' = Append(envs, r.env) /\ envs \in Seq(EnvNames)
        BY <1>1, <1>4, <2>2 DEF EnvsWith, RowsInv
      <3>2. k \notin DOMAIN envs
        <4>1. \A j \in DOMAIN envs : Lower[envs[j]] # Lower[env] /\ envs'[j] = envs[j] /\ j # 0
          BY <1>6, <2>2, <3>1
        <4>2. QED
          BY <1>8, <4>1
      <3>3. QED
        BY <1>1, <1>4, <3>2 DEF SourceIds
    <2>3. QED
      BY <2>1, <2>2
  <1>10. /\ \A e \in events' : ~(e.env = env /\ e.name = name)
         /\ \A b \in recipes' : b.name # name
         /\ \A d \in drifts' : d.name # name
         /\ \A b \in batches' : b.name # name
    BY <1>4, <1>7
  <1>11. \A m \in mappings' : m.name # name
    <2> SUFFICES ASSUME NEW m \in mappings' PROVE m.name # name
      OBVIOUS
    <2>1. PICK w \in mappings : w.id \notin f.mappings /\ m = Unversioned(w, f.sources)
      BY <1>4
    <2>2. w \in MappingRow
      BY <1>1 DEF RowsInv
    <2>3. m.name = w.name
      BY <2>1, <2>2 DEF Unversioned, MappingRow
    <2>4. QED
      BY <1>7, <2>1, <2>3
  <1>12. thr[t].name \notin Listed(thr[t].env)'
    BY <1>3, <1>10, <1>11 DEF Listed, r, name, env
  <1>13. NotFound(thr[t].name, thr[t].env)'
    BY <1>10, <1>11 DEF NotFound, KnowledgeOf, EventsOf, name, env
  <1>14. SourcesOf(thr[t].name, environment_row_id(thr[t].env))' = {}
    BY <1>9 DEF SourcesOf, environment_row_id, name, env, k
  <1>15. /\ ~\E b \in recipes' : b.name = thr[t].name
         /\ ~\E d \in drifts' : d.name = thr[t].name
         /\ ~\E b \in batches' : b.name = thr[t].name
    BY <1>3, <1>10 DEF r
  <1>16. QED
    BY <1>12, <1>13, <1>14, <1>15, Zenon DEF Removed

(* Only the commit of a removal makes it a removed one. *)
LEMMA OnlyCommitRemoves ==
    ASSUME IInv, Next, NEW t \in Threads, thr[t].op = "delete", thr'[t].op = "removed"
    PROVE  CommitDelete(t)
  <1>1. thr \in [Threads -> RequestRow]
    BY DEF IInv, RowsInv
  <1>2. ASSUME NEW u \in Threads, thr[u].op # "delete" \/ thr'[u].op # "removed",
               \E n : thr' = [thr EXCEPT ![u] = n]
        PROVE  FALSE
    <2>1. u # t
      BY <1>2
    <2>2. thr'[t] = thr[t]
      BY <1>1, <1>2, <2>1
    <2>3. QED
      BY <2>2
  <1>3. ASSUME NEW u \in Threads, thr[u].op # "delete", \E n : thr' = [thr EXCEPT ![u] = n]
        PROVE  FALSE
    BY <1>2, <1>3
  <1>4. ASSUME UNCHANGED thr PROVE FALSE
    BY <1>4
  <1>5. ASSUME NEW u \in Threads, NEW op, NEW env, NEW n, NEW x, Begin(u, op, env, n, x)
        PROVE  FALSE
    BY <1>3, <1>5 DEF Begin
  <1>6. CASE \E u \in Threads, env \in EnvNames :
               \/ \E n \in Names \cup {NoName}, op \in {"event", "sample"} :
                      Begin(u, op, env, n, 0)
               \/ \E k \in DOMAIN onboardings, n \in Names : BeginApproval(u, k, env, n)
               \/ \E n \in Names : delete_connection(u, n, env)
    <2>1. ASSUME NEW u \in Threads, NEW env \in EnvNames, NEW n \in Names,
                 delete_connection(u, n, env)
          PROVE  FALSE
      <3>1. thr[u].op = "none" /\ \E m : thr' = [thr EXCEPT ![u] = m]
        BY <2>1 DEF delete_connection
      <3>2. QED
        BY <1>3, <3>1
    <2>2. QED
      BY <1>5, <1>6, <2>1 DEF BeginApproval
  <1>7. CASE \E u \in Threads :
               \/ \E n \in Names \cup {NoName} : Begin(u, "batch", BatchEnv, n, 0)
               \/ \E s \in {"normalized", "quarantined"} : process_payload(u, s)
               \/ \E e \in events, n \in Names : BeginAdoption(u, e, n)
               \/ \E e \in events : Release(u, e)
               \/ ProcessAnonymous(u) \/ create_onboarding(u) \/ approve_onboarding(u)
               \/ onboard_event(u) \/ CommitDelete(u) \/ Answer(u) \/ Fail(u)
    <2>1. PICK u \in Threads :
               \/ \E n \in Names \cup {NoName} : Begin(u, "batch", BatchEnv, n, 0)
               \/ \E s \in {"normalized", "quarantined"} : process_payload(u, s)
               \/ \E e \in events, n \in Names : BeginAdoption(u, e, n)
               \/ \E e \in events : Release(u, e)
               \/ ProcessAnonymous(u) \/ create_onboarding(u) \/ approve_onboarding(u)
               \/ onboard_event(u) \/ CommitDelete(u) \/ Answer(u) \/ Fail(u)
      BY <1>7
    <2>2. CASE \E s \in {"normalized", "quarantined"} : process_payload(u, s)
      BY <1>3, <2>2 DEF process_payload, Done
    <2>10. CASE \E n \in Names \cup {NoName} : Begin(u, "batch", BatchEnv, n, 0)
      BY <1>5, <2>10
    <2>3. CASE \E e \in events, n \in Names : BeginAdoption(u, e, n)
      BY <1>5, <2>3 DEF BeginAdoption
    <2>4. CASE \E e \in events : Release(u, e)
      <3>1. PICK e \in events : Release(u, e)
        BY <2>4
      <3>2. thr[u].op = "release" /\ thr' = [thr EXCEPT ![u].found.events = @ \ {e.id}]
        BY <3>1 DEF Release
      <3>3. \E n : thr' = [thr EXCEPT ![u] = n]
        BY <3>2
      <3>4. QED
        BY <1>3, <3>2, <3>3
    <2>5. CASE ProcessAnonymous(u) \/ create_onboarding(u)
      BY <1>3, <2>5 DEF ProcessAnonymous, create_onboarding, Done
    <2>6. CASE approve_onboarding(u) \/ onboard_event(u)
      <3>1. thr[u].op # "delete" /\ \E ids : ReleaseFrom(u, ids)
        BY <2>6 DEF approve_onboarding, onboard_event
      <3>2. \E n : thr' = [thr EXCEPT ![u] = n]
        BY <3>1 DEF ReleaseFrom
      <3>3. QED
        BY <1>3, <3>1, <3>2
    <2>7. CASE CommitDelete(u)
      <3>1. \E n : thr' = [thr EXCEPT ![u] = n]
        BY <2>7 DEF CommitDelete
      <3>2. u = t
        BY <1>1, <3>1
      <3>3. QED
        BY <2>7, <3>2
    <2>8. CASE Answer(u) \/ Fail(u)
      <3>1. thr' = [thr EXCEPT ![u] = Idle]
        BY <2>8 DEF Answer, Fail, Done
      <3>2. thr'[u].op # "removed"
        BY <1>1, <3>1, IdleFacts
      <3>3. QED
        BY <1>2, <3>1, <3>2
    <2>9. QED
      BY <2>1, <2>2, <2>3, <2>4, <2>5, <2>6, <2>7, <2>8, <2>10
  <1>8. CASE \/ \E k \in DOMAIN onboardings : analyze_onboarding(k)
             \/ \E e \in EnvNames : create_environment(e)
             \/ \E d \in drifts : CloseDrift(d) \/ create_synthesis_job(d)
    BY <1>4, <1>8 DEF analyze_onboarding, create_environment, MarkDrift, CloseDrift, create_synthesis_job
  <1>9. QED
    BY <1>6, <1>7, <1>8 DEF Next

(* A removal that overlaps no other request leaves nothing of the          *)
(* connection: no line, no event, no source of its environment, and no     *)
(* knowledge of the name (delete_connection).                              *)
THEOREM RemovalTheorem == Spec => RemovedIsGone
  <1>1. (IInv /\ AloneInv) /\ (IInv /\ AloneInv)' /\ [Next]_vars
           => [alone => \A t \in Threads : Removed(t)]_vars
    <2> SUFFICES ASSUME IInv, AloneInv, IInv', Next, alone, NEW t \in Threads
                 PROVE  Removed(t)
      OBVIOUS
    <2>1. CASE thr[t].op = "delete" /\ thr'[t].op = "removed"
      <3>1. CommitDelete(t)
        BY <2>1, OnlyCommitRemoves
      <3>2. RowsInv'
        BY DEF IInv
      <3>3. QED
        BY <3>1, <3>2, CommitRemoves
    <2>2. CASE ~(thr[t].op = "delete" /\ thr'[t].op = "removed")
      BY <2>2, Zenon DEF Removed
    <2>3. QED
      BY <2>1, <2>2
  <1>2. QED
    BY <1>1, SpecAlone, PTL DEF Spec, RemovedIsGone
=============================================================================
