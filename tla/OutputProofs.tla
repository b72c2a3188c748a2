---------------------------- MODULE OutputProofs ----------------------------
(***************************************************************************)
(* What leaves the engine.                                                 *)
(*                                                                         *)
(* Delivery, for any number of threads, destinations, sinks and lines:     *)
(* every line a sink has taken is in exactly one place.                    *)
(*                                                                         *)
(* The live stream, for any number of viewers, sources and messages and    *)
(* queues of any length: a viewer sees messages in order, none twice, and  *)
(* misses only what its full queue turned away.                            *)
(*                                                                         *)
(* Reads of the event table, for any number of rows and runs and pages of  *)
(* any size: a batch run owns the rows it stored, an export ships every    *)
(* event that stayed and nothing twice, and counts and groups are exact    *)
(* when nothing moves.                                                     *)
(***************************************************************************)
EXTENDS DeliverySinks, LiveHub, EventViews, FiniteNumbers, SequenceTheorems, TLAPS

-----------------------------------------------------------------------------
(* Delivery to the sinks *)

WorkerSteps == {"idle", "list", "load", "publish", "visit", "flush", "upload"}
HandlerSteps == {"idle", "invalidate", "flushing", "flushed", "drop"}

(* Who is at which step; only an upload carries lines. *)
StepsApart ==
    /\ \A t \in Workers : thr[t].pc \in WorkerSteps
    /\ thr[Handler].pc \in HandlerSteps
    /\ \A t \in Threads : thr[t].pc \in {"flush", "upload", "flushed"} => thr[t].at \in Sinks
    /\ \A t \in Threads : thr[t].pc \notin {"upload", "flushed"} => thr[t].body = {}

(* A line belongs to one worker, *)
LinesApart ==
    /\ \A t \in Workers : thr[t].pc # "idle" => thr[t].line \in 1 .. lines
    /\ \A t, u \in Workers :
         thr[t].pc # "idle" /\ thr[u].pc # "idle" /\ thr[t].line = thr[u].line => t = u
    /\ \A p \in accepted : p[2] \in 1 .. lines

(* and the sinks it has still to visit do not know it. *)
StillToVisit ==
    \A t \in Workers :
        /\ thr[t].pc \in {"list", "load", "publish"} =>
             \A s \in Sinks : <<s, thr[t].line>> \notin accepted
        /\ thr[t].pc # "idle" =>
             \A s \in thr[t].todo : <<s, thr[t].line>> \notin accepted

IInv == TypeOK /\ StepsApart /\ LinesApart /\ StillToVisit /\ InOnePlace

-----------------------------------------------------------------------------
(* Threads *)

LEMMA IdleFacts ==
    /\ Idle \in Thread /\ Idle.pc = "idle" /\ Idle.line = 0
    /\ Idle.todo = {} /\ Idle.at = NoSink /\ Idle.body = {}
  BY DEF Idle, Thread

(* What a thread does next with some sinks to visit, or to flush. *)
LEMMA VisitFacts ==
    ASSUME NEW r \in Thread, NEW S \in SUBSET Sinks
    PROVE  /\ Visiting(r, S) \in Thread
           /\ S = {} => Visiting(r, S) = Idle
           /\ S # {} => /\ Visiting(r, S).pc = "visit" /\ Visiting(r, S).todo = S
                        /\ Visiting(r, S).line = r.line /\ Visiting(r, S).at = r.at
                        /\ Visiting(r, S).body = r.body
  <1>1. CASE S = {}
    BY <1>1, IdleFacts DEF Visiting
  <1>2. CASE S # {}
    BY <1>2 DEF Visiting, Thread
  <1>3. QED
    BY <1>1, <1>2

LEMMA AdvanceFacts ==
    ASSUME NEW r \in Thread
    PROVE  /\ Advance(r) \in Thread /\ Advance(r).body = {}
           /\ r.todo = {} => Advance(r) = Idle
           /\ r.todo # {} => /\ Advance(r).pc = "visit" /\ Advance(r).todo = r.todo
                             /\ Advance(r).line = r.line
  <1> DEFINE q == [r EXCEPT !.at = NoSink, !.body = {}]
  <1>1. /\ q \in Thread /\ q.todo = r.todo /\ q.line = r.line /\ q.body = {}
        /\ r.todo \in SUBSET Sinks
    BY DEF Thread
  <1>2. Advance(r) = Visiting(q, r.todo)
    BY DEF Advance
  <1> HIDE DEF q
  <1>3. /\ Visiting(q, r.todo) \in Thread
        /\ r.todo = {} => Visiting(q, r.todo) = Idle
        /\ r.todo # {} => /\ Visiting(q, r.todo).pc = "visit"
                          /\ Visiting(q, r.todo).todo = r.todo
                          /\ Visiting(q, r.todo).line = q.line
                          /\ Visiting(q, r.todo).body = q.body
    BY <1>1, VisitFacts
  <1>4. QED
    BY <1>1, <1>2, <1>3, IdleFacts

LEMMA FlushingFacts ==
    ASSUME NEW r \in Thread, NEW S \in SUBSET Sinks
    PROVE  /\ Flushing(r, S) \in Thread /\ Flushing(r, S).body = {}
           /\ Flushing(r, S).pc \in {"drop", "flushing"}
  <1>1. CASE S = {}
    BY <1>1 DEF Flushing, Idle, Thread
  <1>2. CASE S # {}
    BY <1>2 DEF Flushing, Thread
  <1>3. QED
    BY <1>1, <1>2

(* One thread goes on, the others stay where they are. *)
LEMMA OneMoves ==
    ASSUME TypeOK, NEW t \in Threads, NEW r \in Thread, thr' = [thr EXCEPT ![t] = r]
    PROVE  /\ thr' \in [Threads -> Thread]
           /\ thr'[t] = r
           /\ \A u \in Threads : u # t => thr'[u] = thr[u]
           /\ \A u \in Threads, s \in Sinks : u # t => Carried(u, s)' = Carried(u, s)
           /\ \A s \in Sinks : Carried(t, s)' = IF r.at = s THEN r.body ELSE {}
  BY DEF TypeOK, Carried

(* A worker that goes on with its own line, or with none, to sinks that do *)
(* not know it keeps the lines apart.                                      *)
LEMMA WorkerKeeps ==
    ASSUME IInv, NEW t \in Workers, NEW r \in Thread, thr' = [thr EXCEPT ![t] = r],
           UNCHANGED <<lines, accepted>>,
           thr[t].pc # "idle",
           r.pc \in WorkerSteps,
           r.pc \in {"flush", "upload"} => r.at \in Sinks,
           r.pc # "upload" => r.body = {},
           r.pc # "idle" => /\ r.line = thr[t].line
                            /\ \A s \in r.todo : <<s, r.line>> \notin accepted,
           r.pc \in {"list", "load", "publish"} =>
               thr[t].pc \in {"list", "load", "publish"}
    PROVE  thr' \in [Threads -> Thread] /\ StepsApart' /\ LinesApart' /\ StillToVisit'
  <1>1. t \in Threads /\ Workers \subseteq Threads /\ Handler \in Threads /\ Handler # t
    BY HandlerAssumption DEF Threads
  <1>2. TypeOK /\ StepsApart /\ LinesApart /\ StillToVisit
    BY DEF IInv
  <1>3. /\ thr' \in [Threads -> Thread] /\ thr'[t] = r
        /\ \A u \in Threads : u # t => thr'[u] = thr[u]
    BY <1>1, <1>2, OneMoves
  <1>4. StepsApart'
    BY <1>1, <1>2, <1>3 DEF StepsApart, WorkerSteps
  <1>5. LinesApart'
    BY <1>1, <1>2, <1>3 DEF LinesApart
  <1>6. StillToVisit'
    BY <1>1, <1>2, <1>3 DEF StillToVisit
  <1>7. QED
    BY <1>3, <1>4, <1>5, <1>6

(* The handler has no line of its own. *)
LEMMA HandlerKeeps ==
    ASSUME IInv, NEW r \in Thread, thr' = [thr EXCEPT ![Handler] = r],
           UNCHANGED <<lines, accepted>>,
           r.pc \in HandlerSteps,
           r.pc = "flushed" => r.at \in Sinks,
           r.pc # "flushed" => r.body = {}
    PROVE  thr' \in [Threads -> Thread] /\ StepsApart' /\ LinesApart' /\ StillToVisit'
  <1>1. Workers \subseteq Threads /\ Handler \in Threads /\ Handler \notin Workers
    BY HandlerAssumption DEF Threads
  <1>2. TypeOK /\ StepsApart /\ LinesApart /\ StillToVisit
    BY DEF IInv
  <1>3. /\ thr' \in [Threads -> Thread] /\ thr'[Handler] = r
        /\ \A u \in Workers : thr'[u] = thr[u]
    BY <1>1, <1>2, OneMoves
  <1>4. StepsApart'
    BY <1>1, <1>2, <1>3 DEF StepsApart, HandlerSteps, Threads
  <1>5. LinesApart' /\ StillToVisit'
    BY <1>1, <1>2, <1>3 DEF LinesApart, StillToVisit
  <1>6. QED
    BY <1>3, <1>4, <1>5

-----------------------------------------------------------------------------
(* Places *)

LEMMA PutFacts ==
    ASSUME NEW s \in Sinks, NEW body \in SUBSET Lines, NEW ok \in BOOLEAN,
           Put(s, body, ok), NEW q \in Sinks, NEW l \in Lines
    PROVE  \/ /\ <<q, l>> \in uploaded' <=> <<q, l>> \in uploaded \/ (q = s /\ l \in body)
              /\ lost' = lost
           \/ /\ <<q, l>> \in lost' <=> <<q, l>> \in lost \/ (q = s /\ l \in body)
              /\ uploaded' = uploaded
  <1>1. <<q, l>> \in Pairs(s, body) <=> q = s /\ l \in body
    BY DEF Pairs
  <1>2. QED
    BY <1>1 DEF Put

LEMMA PutType ==
    ASSUME TypeOK, NEW s \in Sinks, NEW body \in SUBSET Lines, NEW ok, Put(s, body, ok)
    PROVE  uploaded' \subseteq Sinks \X Lines /\ lost' \subseteq Sinks \X Lines
  <1>1. Pairs(s, body) \subseteq Sinks \X Lines
    BY DEF Pairs
  <1>2. QED
    BY <1>1 DEF Put, TypeOK

(* Nobody touches a line. *)
LEMMA SamePlaces ==
    ASSUME InOnePlace, UNCHANGED <<buffer, flushing, accepted, uploaded, lost>>,
           \A t \in Threads, s \in Sinks : Carried(t, s)' = Carried(t, s)
    PROVE  InOnePlace'
  <1> SUFFICES ASSUME NEW q \in Sinks, NEW k \in Lines, OnePlace(q, k) PROVE OnePlace(q, k)'
    BY DEF InOnePlace
  <1>1. QED
    BY DEF OnePlace

(* A new line goes into the buffer, or straight to its end. *)
LEMMA NewInBuffer ==
    ASSUME TypeOK, InOnePlace, NEW s \in Sinks, NEW l \in Lines,
           <<s, l>> \notin accepted,
           accepted' = accepted \cup {<<s, l>>},
           buffer' = [buffer EXCEPT ![s] = @ \cup {l}],
           UNCHANGED <<flushing, uploaded, lost>>,
           \A t \in Threads, q \in Sinks : Carried(t, q)' = Carried(t, q)
    PROVE  InOnePlace'
  <1> SUFFICES ASSUME NEW q \in Sinks, NEW k \in Lines, OnePlace(q, k) PROVE OnePlace(q, k)'
    BY DEF InOnePlace
  <1>1. <<q, k>> \in accepted' <=> <<q, k>> \in accepted \/ (q = s /\ k = l)
    OBVIOUS
  <1>2. k \in buffer'[q] <=> k \in buffer[q] \/ (q = s /\ k = l)
    BY DEF TypeOK
  <1>3. \A t \in Threads : Carried(t, q)' = Carried(t, q)
    OBVIOUS
  <1>4. QED
    BY <1>1, <1>2, <1>3 DEF OnePlace

LEMMA NewAtEnd ==
    ASSUME InOnePlace, NEW s \in Sinks, NEW l \in Lines, NEW ok \in BOOLEAN,
           <<s, l>> \notin accepted,
           accepted' = accepted \cup {<<s, l>>},
           Put(s, {l}, ok),
           UNCHANGED <<buffer, flushing>>,
           \A t \in Threads, q \in Sinks : Carried(t, q)' = Carried(t, q)
    PROVE  InOnePlace'
  <1> SUFFICES ASSUME NEW q \in Sinks, NEW k \in Lines, OnePlace(q, k) PROVE OnePlace(q, k)'
    BY DEF InOnePlace
  <1>1. <<q, k>> \in accepted' <=> <<q, k>> \in accepted \/ (q = s /\ k = l)
    OBVIOUS
  <1>2. \/ (<<q, k>> \in uploaded' <=> <<q, k>> \in uploaded \/ (q = s /\ k \in {l})) /\ lost' = lost
        \/ (<<q, k>> \in lost' <=> <<q, k>> \in lost \/ (q = s /\ k \in {l})) /\ uploaded' = uploaded
    BY PutFacts
  <1>3. \A t \in Threads : Carried(t, q)' = Carried(t, q)
    OBVIOUS
  <1>4. QED
    BY <1>1, <1>2, <1>3 DEF OnePlace

(* A thread without lines takes those of a buffer. *)
LEMMA BufferCarried ==
    ASSUME TypeOK, InOnePlace, NEW s \in Sinks, NEW t \in Threads,
           \A q \in Sinks : Carried(t, q) = {},
           \A q \in Sinks : Carried(t, q)' = IF q = s THEN buffer[s] ELSE {},
           \A u \in Threads, q \in Sinks : u # t => Carried(u, q)' = Carried(u, q),
           buffer' = [buffer EXCEPT ![s] = {}],
           UNCHANGED <<flushing, accepted, uploaded, lost>>
    PROVE  InOnePlace'
  <1> SUFFICES ASSUME NEW q \in Sinks, NEW k \in Lines, OnePlace(q, k) PROVE OnePlace(q, k)'
    BY DEF InOnePlace
  <1>1. k \in buffer'[q] <=> k \in buffer[q] /\ q # s
    BY DEF TypeOK
  <1>2. k \in Carried(t, q)' <=> q = s /\ k \in buffer[q]
    OBVIOUS
  <1>3. k \notin Carried(t, q) /\ \A u \in Threads : u # t => Carried(u, q)' = Carried(u, q)
    OBVIOUS
  <1>4. QED
    BY <1>1, <1>2, <1>3 DEF OnePlace

(* What a thread carries ends. *)
LEMMA CarriedEnds ==
    ASSUME InOnePlace, NEW s \in Sinks, NEW t \in Threads, NEW ok \in BOOLEAN,
           NEW body \in SUBSET Lines,
           \A q \in Sinks : Carried(t, q) = IF q = s THEN body ELSE {},
           \A q \in Sinks : Carried(t, q)' = {},
           \A u \in Threads, q \in Sinks : u # t => Carried(u, q)' = Carried(u, q),
           Put(s, body, ok),
           UNCHANGED <<buffer, flushing, accepted>>
    PROVE  InOnePlace'
  <1> SUFFICES ASSUME NEW q \in Sinks, NEW k \in Lines, OnePlace(q, k) PROVE OnePlace(q, k)'
    BY DEF InOnePlace
  <1>1. \/ (<<q, k>> \in uploaded' <=> <<q, k>> \in uploaded \/ (q = s /\ k \in body)) /\ lost' = lost
        \/ (<<q, k>> \in lost' <=> <<q, k>> \in lost \/ (q = s /\ k \in body)) /\ uploaded' = uploaded
    BY PutFacts
  <1>2. k \in Carried(t, q) <=> q = s /\ k \in body
    OBVIOUS
  <1>3. k \notin Carried(t, q)' /\ \A u \in Threads : u # t => Carried(u, q)' = Carried(u, q)
    OBVIOUS
  <1>4. QED
    BY <1>1, <1>2, <1>3 DEF OnePlace

(* The flusher takes a buffer, and what it took ends. *)
LEMMA BufferFlushed ==
    ASSUME TypeOK, InOnePlace, NEW s \in Sinks, flushing[s] = {},
           flushing' = [flushing EXCEPT ![s] = buffer[s]],
           buffer' = [buffer EXCEPT ![s] = {}],
           UNCHANGED <<accepted, uploaded, lost>>,
           \A t \in Threads, q \in Sinks : Carried(t, q)' = Carried(t, q)
    PROVE  InOnePlace'
  <1> SUFFICES ASSUME NEW q \in Sinks, NEW k \in Lines, OnePlace(q, k) PROVE OnePlace(q, k)'
    BY DEF InOnePlace
  <1>1. k \in buffer'[q] <=> k \in buffer[q] /\ q # s
    BY DEF TypeOK
  <1>2. k \in flushing'[q] <=> (k \in flushing[q] /\ q # s) \/ (k \in buffer[q] /\ q = s)
    BY DEF TypeOK
  <1>3. q = s => k \notin flushing[q]
    OBVIOUS
  <1>4. \A t \in Threads : Carried(t, q)' = Carried(t, q)
    OBVIOUS
  <1>5. QED
    BY <1>1, <1>2, <1>3, <1>4 DEF OnePlace

LEMMA FlushedEnds ==
    ASSUME TypeOK, InOnePlace, NEW s \in Sinks, NEW ok \in BOOLEAN,
           Put(s, flushing[s], ok),
           flushing' = [flushing EXCEPT ![s] = {}],
           UNCHANGED <<buffer, accepted>>,
           \A t \in Threads, q \in Sinks : Carried(t, q)' = Carried(t, q)
    PROVE  InOnePlace'
  <1> SUFFICES ASSUME NEW q \in Sinks, NEW k \in Lines, OnePlace(q, k) PROVE OnePlace(q, k)'
    BY DEF InOnePlace
  <1>1. flushing[s] \in SUBSET Lines
    BY DEF TypeOK
  <1>2. \/ (<<q, k>> \in uploaded' <=> <<q, k>> \in uploaded \/ (q = s /\ k \in flushing[s])) /\ lost' = lost
        \/ (<<q, k>> \in lost' <=> <<q, k>> \in lost \/ (q = s /\ k \in flushing[s])) /\ uploaded' = uploaded
    BY <1>1, PutFacts
  <1>3. k \in flushing'[q] <=> k \in flushing[q] /\ q # s
    BY DEF TypeOK
  <1>4. q = s => (k \in flushing[s] <=> k \in flushing[q])
    OBVIOUS
  <1>5. \A t \in Threads : Carried(t, q)' = Carried(t, q)
    OBVIOUS
  <1>6. QED
    BY <1>2, <1>3, <1>4, <1>5 DEF OnePlace

-----------------------------------------------------------------------------
(* Steps *)

LEMMA InitIInv == Init => IInv
  <1> SUFFICES ASSUME Init PROVE IInv
    OBVIOUS
  <1>1. TypeOK
    <2>1. /\ buffer \in [Sinks -> SUBSET Lines] /\ flushing \in [Sinks -> SUBSET Lines]
          /\ thr \in [Threads -> Thread]
      BY IdleFacts DEF Init
    <2>2. /\ builds \in 0 .. MaxBuilds /\ lines \in 0 .. MaxLines /\ changes \in 0 .. MaxChanges
      BY BoundAssumption DEF Init
    <2>3. /\ enabled \subseteq Destinations /\ cache \in {NoList} \cup SUBSET Sinks
          /\ fresh \in BOOLEAN /\ accepted \subseteq Sinks \X Lines
          /\ uploaded \subseteq Sinks \X Lines /\ lost \subseteq Sinks \X Lines
      BY DEF Init
    <2>4. QED
      BY <2>1, <2>2, <2>3 DEF TypeOK
  <1>2. \A t \in Threads : thr[t] = Idle
    BY DEF Init
  <1>3. Workers \subseteq Threads /\ Handler \in Threads
    BY DEF Threads
  <1>4. StepsApart
    BY <1>2, <1>3, IdleFacts DEF StepsApart, WorkerSteps, HandlerSteps
  <1>5. LinesApart /\ StillToVisit
    BY <1>2, <1>3, IdleFacts DEF Init, LinesApart, StillToVisit
  <1>6. \A t \in Threads, s \in Sinks : Carried(t, s) = {}
    BY <1>2, IdleFacts DEF Carried
  <1>7. InOnePlace
    <2> SUFFICES ASSUME NEW s \in Sinks, NEW l \in Lines PROVE OnePlace(s, l)
      BY DEF InOnePlace
    <2>1. l \notin buffer[s] /\ l \notin flushing[s]
      BY DEF Init
    <2>2. <<s, l>> \notin accepted /\ <<s, l>> \notin uploaded /\ <<s, l>> \notin lost
      BY DEF Init
    <2>3. \A t \in Threads : l \notin Carried(t, s)
      BY <1>6
    <2>4. QED
      BY <2>1, <2>2, <2>3 DEF OnePlace
  <1>8. QED
    BY <1>1, <1>4, <1>5, <1>7 DEF IInv

(* What a worker at some step knows. *)
LEMMA WorkerFacts ==
    ASSUME IInv, NEW t \in Workers
    PROVE  /\ t \in Threads /\ thr[t] \in Thread /\ thr[t].todo \in SUBSET Sinks
           /\ thr[t].body \in SUBSET Lines /\ lines \in Nat
           /\ thr[t].pc # "idle" => thr[t].line \in Lines
           /\ thr[t].pc # "upload" => thr[t].body = {} /\ \A s \in Sinks : Carried(t, s) = {}
           /\ thr[t].pc \in {"flush", "upload"} => thr[t].at \in Sinks
           /\ TypeOK /\ InOnePlace
  <1>1. t \in Threads /\ thr[t] \in Thread /\ lines \in Nat /\ lines <= MaxLines
    BY BoundAssumption DEF IInv, TypeOK, Threads
  <1>2. thr[t].pc # "upload" => thr[t].body = {}
    BY <1>1 DEF IInv, StepsApart, WorkerSteps
  <1>3. thr[t].pc # "upload" => \A s \in Sinks : Carried(t, s) = {}
    BY <1>2 DEF Carried
  <1>4. thr[t].pc # "idle" => thr[t].line \in Lines
    BY <1>1, BoundAssumption DEF IInv, LinesApart, Lines
  <1>5. thr[t].pc \in {"flush", "upload"} => thr[t].at \in Sinks
    BY <1>1 DEF IInv, StepsApart
  <1>6. thr[t].todo \in SUBSET Sinks /\ thr[t].body \in SUBSET Lines
    BY <1>1 DEF Thread
  <1>7. QED
    BY <1>1, <1>2, <1>3, <1>4, <1>5, <1>6 DEF IInv

(* A worker that carries nothing before and after leaves every line where  *)
(* it is, as far as threads are concerned.                                 *)
LEMMA CarriesNothing ==
    ASSUME TypeOK, NEW t \in Threads, NEW r \in Thread, thr' = [thr EXCEPT ![t] = r],
           r.body = {}, \A s \in Sinks : Carried(t, s) = {}
    PROVE  \A u \in Threads, s \in Sinks : Carried(u, s)' = Carried(u, s)
  <1>1. \A u \in Threads, s \in Sinks : u # t => Carried(u, s)' = Carried(u, s)
    BY OneMoves
  <1>2. \A s \in Sinks : Carried(t, s)' = {}
    BY OneMoves
  <1>3. QED
    BY <1>1, <1>2

LEMMA StartStep == ASSUME IInv, NEW t \in Workers, StartDelivery(t) PROVE IInv'
  <1> DEFINE r == [Idle EXCEPT !.line = lines + 1,
                     !.pc = IF cache # NoList /\ fresh THEN "list" ELSE "load"]
  <1>1. /\ thr[t].pc = "idle" /\ lines < MaxLines /\ lines' = lines + 1
        /\ thr' = [thr EXCEPT ![t] = r]
        /\ UNCHANGED <<enabled, changes, builds, cache, fresh, buffer, flushing, accepted, uploaded, lost>>
    BY DEF StartDelivery, store, list
  <1>2. /\ t \in Threads /\ lines \in Nat /\ TypeOK /\ InOnePlace
        /\ \A s \in Sinks : Carried(t, s) = {}
    BY <1>1, WorkerFacts
  <1>3. lines + 1 \in Lines
    BY <1>1, <1>2, BoundAssumption DEF Lines
  <1>4. /\ r \in Thread /\ r.pc \in {"list", "load"} /\ r.line = lines + 1
        /\ r.body = {} /\ r.todo = {}
    BY <1>3 DEF Idle, Thread
  <1> HIDE DEF r
  <1>5. /\ thr' \in [Threads -> Thread] /\ thr'[t] = r
        /\ \A u \in Threads : u # t => thr'[u] = thr[u]
    BY <1>1, <1>2, <1>4, OneMoves
  <1>6. Workers \subseteq Threads /\ Handler \in Threads /\ Handler # t
    BY HandlerAssumption DEF Threads
  <1>7. TypeOK'
    BY <1>1, <1>2, <1>5, BoundAssumption DEF TypeOK
  <1>8. StepsApart'
    BY <1>4, <1>5, <1>6 DEF IInv, StepsApart, WorkerSteps
  <1>9. LinesApart'
    <2>1. \A u \in Workers : u # t /\ thr[u].pc # "idle" =>
             thr[u].line \in 1 .. lines' /\ thr[u].line # lines + 1
      BY <1>1, <1>2 DEF IInv, LinesApart
    <2>2. \A p \in accepted : p[2] \in 1 .. lines'
      BY <1>1, <1>2 DEF IInv, LinesApart
    <2>3. \A u, v \in Workers :
             u # t /\ v # t /\ thr[u].pc # "idle" /\ thr[v].pc # "idle" /\ thr[u].line = thr[v].line => u = v
      BY DEF IInv, LinesApart
    <2>4. lines + 1 \in 1 .. lines'
      BY <1>1, <1>2
    <2>5. \A u \in Workers : thr'[u].pc # "idle" => thr'[u].line \in 1 .. lines'
      BY <1>4, <1>5, <1>6, <2>1, <2>4
    <2>6. \A u, v \in Workers :
             thr'[u].pc # "idle" /\ thr'[v].pc # "idle" /\ thr'[u].line = thr'[v].line => u = v
      BY <1>4, <1>5, <1>6, <2>1, <2>3
    <2>7. QED
      BY <1>1, <2>2, <2>5, <2>6 DEF LinesApart
  <1>10. StillToVisit'
    <2>1. \A s \in Sinks : <<s, lines + 1>> \notin accepted
      <3> SUFFICES ASSUME NEW s \in Sinks, <<s, lines + 1>> \in accepted PROVE FALSE
        OBVIOUS
      <3>1. <<s, lines + 1>>[2] \in 1 .. lines
        BY DEF IInv, LinesApart
      <3>2. QED
        BY <3>1, <1>2
    <2>2. QED
      BY <1>1, <1>4, <1>5, <1>6, <2>1 DEF IInv, StillToVisit
  <1>11. InOnePlace'
    BY <1>1, <1>2, <1>4, CarriesNothing, SamePlaces
  <1>12. QED
    BY <1>7, <1>8, <1>9, <1>10, <1>11 DEF IInv

(* The steps between start and visit only choose what to visit. *)
LEMMA ChooseStep ==
    ASSUME IInv, NEW t \in Workers, NEW r \in Thread, thr' = [thr EXCEPT ![t] = r],
           thr[t].pc \in {"list", "load", "publish"},
           r.body = {},
           r = Idle \/ (r.line = thr[t].line /\ r.pc \in {"publish", "visit"}),
           UNCHANGED <<enabled, changes, lines, buffer, flushing, accepted, uploaded, lost>>,
           builds' \in 0 .. MaxBuilds,
           cache' \in {NoList} \cup SUBSET Sinks, fresh' \in BOOLEAN
    PROVE  IInv'
  <1>1. TypeOK /\ InOnePlace /\ t \in Threads /\ \A s \in Sinks : Carried(t, s) = {}
    BY WorkerFacts
  <1>2. r.todo \in SUBSET Sinks
    BY DEF Thread
  <1>3. \A s \in r.todo : <<s, thr[t].line>> \notin accepted
    BY <1>2 DEF IInv, StillToVisit
  <1>4. thr' \in [Threads -> Thread] /\ StepsApart' /\ LinesApart' /\ StillToVisit'
    BY <1>3, IdleFacts, WorkerKeeps DEF WorkerSteps
  <1>5. TypeOK'
    BY <1>1, <1>4 DEF TypeOK
  <1>6. InOnePlace'
    BY <1>1, CarriesNothing, SamePlaces
  <1>7. QED
    BY <1>4, <1>5, <1>6 DEF IInv

LEMMA ReturnStep == ASSUME IInv, NEW t \in Workers, ReturnList(t) PROVE IInv'
  <1> DEFINE S == IF cache = NoList THEN {} ELSE cache
             r == Visiting(thr[t], S)
  <1>1. /\ thr[t].pc = "list" /\ thr' = [thr EXCEPT ![t] = r]
        /\ UNCHANGED <<enabled, changes, builds, cache, fresh, lines, buffer, flushing, accepted, uploaded, lost>>
    BY DEF ReturnList, store, list
  <1>2. thr[t] \in Thread /\ thr[t].body = {} /\ TypeOK
    BY <1>1, WorkerFacts
  <1>3. S \in SUBSET Sinks
    BY <1>2 DEF TypeOK
  <1> HIDE DEF S
  <1>4. /\ r \in Thread /\ r.body = {}
        /\ r = Idle \/ (r.line = thr[t].line /\ r.pc \in {"publish", "visit"})
    BY <1>2, <1>3, VisitFacts, IdleFacts
  <1> HIDE DEF r
  <1>5. builds' \in 0 .. MaxBuilds /\ cache' \in {NoList} \cup SUBSET Sinks /\ fresh' \in BOOLEAN
    BY <1>1, <1>2 DEF TypeOK
  <1>6. QED
    BY <1>1, <1>4, <1>5, ChooseStep

LEMMA LoadStep ==
    ASSUME IInv, NEW t \in Workers, NEW found \in SUBSET enabled, LoadDestinations(t, found)
    PROVE  IInv'
  <1> DEFINE r == [thr[t] EXCEPT !.pc = "publish", !.todo = {builds + 1} \X found]
  <1>1. /\ thr[t].pc = "load" /\ builds < MaxBuilds /\ builds' = builds + 1
        /\ thr' = [thr EXCEPT ![t] = r]
        /\ UNCHANGED <<enabled, changes, cache, fresh, lines, buffer, flushing, accepted, uploaded, lost>>
    BY DEF LoadDestinations, store
  <1>2. thr[t] \in Thread /\ thr[t].body = {} /\ TypeOK
    BY <1>1, WorkerFacts
  <1>3. builds + 1 \in 1 .. MaxBuilds /\ found \subseteq Destinations
    BY <1>1, <1>2, BoundAssumption DEF TypeOK
  <1>4. {builds + 1} \X found \in SUBSET Sinks
    BY <1>3 DEF Sinks
  <1>5. r \in Thread /\ r.body = {} /\ r.line = thr[t].line /\ r.pc = "publish"
    BY <1>2, <1>4 DEF Thread
  <1> HIDE DEF r
  <1>6. builds' \in 0 .. MaxBuilds /\ cache' \in {NoList} \cup SUBSET Sinks /\ fresh' \in BOOLEAN
    BY <1>1, <1>2, <1>3 DEF TypeOK
  <1>7. QED
    BY <1>1, <1>5, <1>6, ChooseStep

LEMMA PublishStep == ASSUME IInv, NEW t \in Workers, PublishList(t) PROVE IInv'
  <1> DEFINE r == Visiting(thr[t], thr[t].todo)
  <1>1. /\ thr[t].pc = "publish" /\ cache' = thr[t].todo /\ fresh' = TRUE
        /\ thr' = [thr EXCEPT ![t] = r]
        /\ UNCHANGED <<enabled, changes, builds, lines, buffer, flushing, accepted, uploaded, lost>>
    BY DEF PublishList, store
  <1>2. thr[t] \in Thread /\ thr[t].body = {} /\ thr[t].todo \in SUBSET Sinks /\ TypeOK
    BY <1>1, WorkerFacts
  <1>3. /\ r \in Thread /\ r.body = {}
        /\ r = Idle \/ (r.line = thr[t].line /\ r.pc \in {"publish", "visit"})
    BY <1>2, VisitFacts, IdleFacts
  <1> HIDE DEF r
  <1>4. builds' \in 0 .. MaxBuilds /\ cache' \in {NoList} \cup SUBSET Sinks /\ fresh' \in BOOLEAN
    BY <1>1, <1>2 DEF TypeOK
  <1>5. QED
    BY <1>1, <1>3, <1>4, ChooseStep

(* A sink takes the line of the worker that visits it.                     *)
LEMMA LineTaken ==
    ASSUME IInv, NEW t \in Workers, NEW r \in Thread, thr' = [thr EXCEPT ![t] = r],
           thr[t].pc = "visit", NEW s \in thr[t].todo,
           accepted' = accepted \cup {<<s, thr[t].line>>}, lines' = lines,
           r.body = {}, r.pc \in {"idle", "visit", "flush"},
           r.pc = "flush" => r.at \in Sinks,
           r.pc # "idle" => r.line = thr[t].line /\ r.todo = thr[t].todo \ {s},
           r.pc = "idle" => r.todo = {}
    PROVE  thr' \in [Threads -> Thread] /\ StepsApart' /\ LinesApart' /\ StillToVisit'
  <1>1. t \in Threads /\ Workers \subseteq Threads /\ Handler \in Threads /\ Handler # t
    BY HandlerAssumption DEF Threads
  <1>2. TypeOK /\ StepsApart /\ LinesApart /\ StillToVisit
    BY DEF IInv
  <1>3. /\ thr' \in [Threads -> Thread] /\ thr'[t] = r
        /\ \A u \in Threads : u # t => thr'[u] = thr[u]
    BY <1>1, <1>2, OneMoves
  <1>4. StepsApart'
    BY <1>1, <1>2, <1>3 DEF StepsApart, WorkerSteps
  <1>5. LinesApart'
    <2>1. thr[t].line \in 1 .. lines
      BY <1>2 DEF LinesApart
    <2>2. \A p \in accepted' : p[2] \in 1 .. lines
      BY <1>2, <2>1 DEF LinesApart
    <2>3. QED
      BY <1>1, <1>2, <1>3, <2>2 DEF LinesApart
  <1>6. StillToVisit'
    <2> SUFFICES ASSUME NEW u \in Workers
                 PROVE  /\ thr'[u].pc \in {"list", "load", "publish"} =>
                             \A q \in Sinks : <<q, thr'[u].line>> \notin accepted'
                        /\ thr'[u].pc # "idle" =>
                             \A q \in thr'[u].todo : <<q, thr'[u].line>> \notin accepted'
      BY DEF StillToVisit
    <2>1. CASE u = t
      <3>1. \A q \in thr[t].todo : <<q, thr[t].line>> \notin accepted
        BY <1>2 DEF StillToVisit
      <3>2. QED
        BY <1>1, <1>3, <2>1, <3>1
    <2>2. CASE u # t
      <3>1. thr'[u] = thr[u]
        BY <1>1, <1>3, <2>2
      <3>2. thr[u].pc # "idle" => thr[u].line # thr[t].line
        BY <1>2, <2>2 DEF LinesApart
      <3>3. /\ thr[u].pc \in {"list", "load", "publish"} =>
                 \A q \in Sinks : <<q, thr[u].line>> \notin accepted
            /\ thr[u].pc # "idle" => \A q \in thr[u].todo : <<q, thr[u].line>> \notin accepted
        BY <1>2 DEF StillToVisit
      <3>4. QED
        BY <3>1, <3>2, <3>3
    <2>3. QED
      BY <2>1, <2>2
  <1>7. QED
    BY <1>3, <1>4, <1>5, <1>6

LEMMA AtOnceStep ==
    ASSUME IInv, NEW t \in Workers, NEW s \in thr[t].todo, NEW ok \in BOOLEAN,
           DeliverAtOnce(t, s, ok)
    PROVE  IInv'
  <1> DEFINE l == thr[t].line
             r == Visiting(thr[t], thr[t].todo \ {s})
  <1>1. /\ thr[t].pc = "visit" /\ accepted' = accepted \cup {<<s, l>>} /\ Put(s, {l}, ok)
        /\ thr' = [thr EXCEPT ![t] = r]
        /\ UNCHANGED <<enabled, changes, builds, cache, fresh, buffer, flushing, lines>>
    BY DEF DeliverAtOnce, store, list
  <1>2. /\ t \in Threads /\ thr[t] \in Thread /\ thr[t].todo \in SUBSET Sinks /\ l \in Lines
        /\ thr[t].body = {} /\ TypeOK /\ InOnePlace
        /\ \A q \in Sinks : Carried(t, q) = {}
    BY <1>1, WorkerFacts
  <1>3. s \in Sinks /\ {l} \in SUBSET Lines
    BY <1>2
  <1>4. <<s, l>> \notin accepted
    BY <1>1 DEF IInv, StillToVisit
  <1>5. /\ r \in Thread /\ r.body = {} /\ r.pc \in {"idle", "visit"}
        /\ r.pc # "idle" => r.line = l /\ r.todo = thr[t].todo \ {s}
        /\ r.pc = "idle" => r.todo = {}
    BY <1>2, VisitFacts, IdleFacts
  <1> HIDE DEF r
  <1>6. thr' \in [Threads -> Thread] /\ StepsApart' /\ LinesApart' /\ StillToVisit'
    BY <1>1, <1>5, LineTaken
  <1>7. uploaded' \subseteq Sinks \X Lines /\ lost' \subseteq Sinks \X Lines
    BY <1>1, <1>2, <1>3, PutType
  <1>8. TypeOK'
    BY <1>1, <1>2, <1>3, <1>6, <1>7 DEF TypeOK
  <1>9. \A u \in Threads, q \in Sinks : Carried(u, q)' = Carried(u, q)
    BY <1>1, <1>2, <1>5, CarriesNothing
  <1>10. InOnePlace'
    BY <1>1, <1>2, <1>3, <1>4, <1>9, NewAtEnd
  <1>11. QED
    BY <1>6, <1>8, <1>10 DEF IInv

LEMMA AppendStep ==
    ASSUME IInv, NEW t \in Workers, NEW s \in thr[t].todo, AppendLine(t, s)
    PROVE  IInv'
  <1> DEFINE l == thr[t].line
             full == Cardinality(buffer[s] \cup {l}) >= BatchSize
             f == [thr[t] EXCEPT !.pc = "flush", !.at = s, !.todo = thr[t].todo \ {s}]
             v == Visiting(thr[t], thr[t].todo \ {s})
             r == IF full THEN f ELSE v
  <1>1. /\ thr[t].pc = "visit" /\ accepted' = accepted \cup {<<s, l>>}
        /\ buffer' = [buffer EXCEPT ![s] = @ \cup {l}]
        /\ thr' = [thr EXCEPT ![t] = r]
        /\ UNCHANGED <<enabled, changes, builds, cache, fresh, flushing, uploaded, lost, lines>>
    BY DEF AppendLine, store, list
  <1>2. /\ t \in Threads /\ thr[t] \in Thread /\ thr[t].todo \in SUBSET Sinks /\ l \in Lines
        /\ thr[t].body = {} /\ TypeOK /\ InOnePlace
        /\ \A q \in Sinks : Carried(t, q) = {}
    BY <1>1, WorkerFacts
  <1>3. s \in Sinks
    BY <1>2
  <1>4. <<s, l>> \notin accepted
    BY <1>1 DEF IInv, StillToVisit
  <1>5. /\ v \in Thread /\ v.body = {} /\ v.pc \in {"idle", "visit"}
        /\ v.pc # "idle" => v.line = l /\ v.todo = thr[t].todo \ {s}
        /\ v.pc = "idle" => v.todo = {}
    BY <1>2, VisitFacts, IdleFacts
  <1>6. /\ f \in Thread /\ f.body = {} /\ f.pc = "flush" /\ f.at = s
        /\ f.line = l /\ f.todo = thr[t].todo \ {s}
    BY <1>2, <1>3 DEF Thread
  <1> HIDE DEF f, v, full
  <1>7. /\ r \in Thread /\ r.body = {} /\ r.pc \in {"idle", "visit", "flush"}
        /\ r.pc = "flush" => r.at \in Sinks
        /\ r.pc # "idle" => r.line = l /\ r.todo = thr[t].todo \ {s}
        /\ r.pc = "idle" => r.todo = {}
    BY <1>3, <1>5, <1>6
  <1> HIDE DEF r
  <1>8. thr' \in [Threads -> Thread] /\ StepsApart' /\ LinesApart' /\ StillToVisit'
    BY <1>1, <1>7, LineTaken
  <1>9. TypeOK'
    BY <1>1, <1>2, <1>3, <1>8 DEF TypeOK
  <1>10. \A u \in Threads, q \in Sinks : Carried(u, q)' = Carried(u, q)
    BY <1>1, <1>2, <1>7, CarriesNothing
  <1>11. InOnePlace'
    BY <1>1, <1>2, <1>3, <1>4, <1>10, NewInBuffer
  <1>12. QED
    BY <1>8, <1>9, <1>11 DEF IInv

LEMMA TakesBuffer ==
    ASSUME TypeOK, InOnePlace, NEW s \in Sinks, NEW t \in Threads, NEW r \in Thread,
           thr' = [thr EXCEPT ![t] = r], r.at = s, r.body = buffer[s],
           \A q \in Sinks : Carried(t, q) = {},
           buffer' = [buffer EXCEPT ![s] = {}],
           UNCHANGED <<flushing, accepted, uploaded, lost>>
    PROVE  InOnePlace'
  <1>1. thr'[t] = r /\ \A v \in Threads : v # t => thr'[v] = thr[v]
    BY DEF TypeOK
  <1>2. \A v \in Threads, q \in Sinks : v # t => Carried(v, q)' = Carried(v, q)
    BY <1>1 DEF Carried
  <1>3. \A q \in Sinks : Carried(t, q)' = IF q = s THEN buffer[s] ELSE {}
    BY <1>1 DEF Carried
  <1>4. QED
    BY <1>2, <1>3, BufferCarried

(* A worker takes the buffer it filled, if it is not empty by now. *)
LEMMA SwapStep == ASSUME IInv, NEW t \in Workers, SwapBuffer(t) PROVE IInv'
  <1> DEFINE s == thr[t].at
             a == Advance(thr[t])
             u == [thr[t] EXCEPT !.pc = "upload", !.body = buffer[s]]
             r == IF buffer[s] = {} THEN a ELSE u
  <1>1. /\ thr[t].pc = "flush" /\ buffer' = [buffer EXCEPT ![s] = {}]
        /\ thr' = [thr EXCEPT ![t] = r]
        /\ UNCHANGED <<enabled, changes, builds, cache, fresh, flushing, accepted, uploaded, lost, lines>>
    BY DEF SwapBuffer, store, list
  <1>2. /\ t \in Threads /\ thr[t] \in Thread /\ s \in Sinks /\ thr[t].body = {}
        /\ TypeOK /\ InOnePlace /\ \A q \in Sinks : Carried(t, q) = {}
    BY <1>1, WorkerFacts
  <1>3. buffer[s] \in SUBSET Lines
    BY <1>2 DEF TypeOK
  <1>4. \A q \in thr[t].todo : <<q, thr[t].line>> \notin accepted
    BY <1>1 DEF IInv, StillToVisit
  <1>5. /\ a \in Thread /\ a.body = {} /\ a.pc \in {"idle", "visit"}
        /\ a.pc # "idle" => a.line = thr[t].line /\ a.todo = thr[t].todo
    BY <1>2, AdvanceFacts, IdleFacts
  <1>6. /\ u \in Thread /\ u.body = buffer[s] /\ u.pc = "upload" /\ u.at = s
        /\ u.line = thr[t].line /\ u.todo = thr[t].todo
    BY <1>2, <1>3 DEF Thread
  <1> HIDE DEF a, u, s
  <1>7. /\ r \in Thread /\ r.pc \in {"idle", "visit", "upload"}
        /\ r.pc = "upload" => r.at \in Sinks
        /\ r.pc # "upload" => r.body = {}
        /\ r.pc # "idle" => r.line = thr[t].line /\ r.todo = thr[t].todo
    BY <1>2, <1>5, <1>6
  <1>8. thr' \in [Threads -> Thread] /\ StepsApart' /\ LinesApart' /\ StillToVisit'
    <2> HIDE DEF r
    <2>1. QED
      BY <1>1, <1>4, <1>7, WorkerKeeps DEF WorkerSteps
  <1>9. TypeOK'
    BY <1>1, <1>2, <1>8 DEF TypeOK
  <1>10. InOnePlace'
    <2>1. CASE buffer[s] = {}
      <3>1. buffer' = buffer
        BY <1>1, <1>2, <2>1 DEF TypeOK
      <3>2. \A q \in Threads, p \in Sinks : Carried(q, p)' = Carried(q, p)
        BY <1>1, <1>2, <1>5, <2>1, CarriesNothing
      <3>3. QED
        BY <1>1, <1>2, <3>1, <3>2, SamePlaces
    <2>2. CASE buffer[s] # {}
      <3>1. thr' = [thr EXCEPT ![t] = u]
        BY <1>1, <2>2
      <3>2. QED
        BY <1>1, <1>2, <1>6, <3>1, TakesBuffer
    <2>3. QED
      BY <2>1, <2>2
  <1>11. QED
    BY <1>8, <1>9, <1>10 DEF IInv

(* What a thread at an upload carries is what it uploads. *)
LEMMA CarriesBody ==
    ASSUME NEW t \in Threads, NEW s, thr[t].at = s
    PROVE  \A q \in Sinks : Carried(t, q) = IF q = s THEN thr[t].body ELSE {}
  BY DEF Carried

LEMMA UploadStep ==
    ASSUME IInv, NEW t \in Workers, NEW ok \in BOOLEAN, Upload(t, ok) PROVE IInv'
  <1> DEFINE s == thr[t].at
             body == thr[t].body
             r == Advance(thr[t])
  <1>1. /\ thr[t].pc = "upload" /\ Put(s, body, ok)
        /\ thr' = [thr EXCEPT ![t] = r]
        /\ UNCHANGED <<enabled, changes, builds, cache, fresh, buffer, flushing, accepted, lines>>
    BY DEF Upload, store, list
  <1>2. /\ t \in Threads /\ thr[t] \in Thread /\ s \in Sinks /\ body \in SUBSET Lines
        /\ TypeOK /\ InOnePlace
    BY <1>1, WorkerFacts
  <1>3. \A q \in thr[t].todo : <<q, thr[t].line>> \notin accepted
    BY <1>1 DEF IInv, StillToVisit
  <1>4. /\ r \in Thread /\ r.body = {} /\ r.pc \in {"idle", "visit"}
        /\ r.pc # "idle" => r.line = thr[t].line /\ r.todo = thr[t].todo
    BY <1>2, AdvanceFacts, IdleFacts
  <1> HIDE DEF r
  <1>5. thr' \in [Threads -> Thread] /\ StepsApart' /\ LinesApart' /\ StillToVisit'
    BY <1>1, <1>3, <1>4, WorkerKeeps DEF WorkerSteps
  <1>6. uploaded' \subseteq Sinks \X Lines /\ lost' \subseteq Sinks \X Lines
    BY <1>1, <1>2, PutType
  <1>7. TypeOK'
    BY <1>1, <1>2, <1>5, <1>6 DEF TypeOK
  <1>8. \A q \in Sinks : Carried(t, q) = IF q = s THEN body ELSE {}
    BY <1>2, CarriesBody
  <1>9. /\ \A q \in Sinks : Carried(t, q)' = {}
        /\ \A v \in Threads, q \in Sinks : v # t => Carried(v, q)' = Carried(v, q)
    BY <1>1, <1>2, <1>4, OneMoves
  <1> HIDE DEF s, body
  <1>10. InOnePlace'
    BY <1>1, <1>2, <1>8, <1>9, CarriedEnds
  <1>11. QED
    BY <1>5, <1>7, <1>10 DEF IInv

(* What the handler at some step knows. *)
LEMMA HandlerFacts ==
    ASSUME IInv
    PROVE  /\ Handler \in Threads /\ thr[Handler] \in Thread
           /\ thr[Handler].todo \in SUBSET Sinks /\ thr[Handler].body \in SUBSET Lines
           /\ thr[Handler].pc # "flushed" =>
                  thr[Handler].body = {} /\ \A s \in Sinks : Carried(Handler, s) = {}
           /\ thr[Handler].pc = "flushed" => thr[Handler].at \in Sinks
           /\ TypeOK /\ InOnePlace
  <1>1. Handler \in Threads /\ thr[Handler] \in Thread
    BY DEF IInv, TypeOK, Threads
  <1>2. thr[Handler].pc # "flushed" => thr[Handler].body = {}
    BY <1>1 DEF IInv, StepsApart, HandlerSteps
  <1>3. thr[Handler].pc # "flushed" => \A s \in Sinks : Carried(Handler, s) = {}
    BY <1>2 DEF Carried
  <1>4. thr[Handler].pc = "flushed" => thr[Handler].at \in Sinks
    BY <1>1 DEF IInv, StepsApart
  <1>5. thr[Handler].todo \in SUBSET Sinks /\ thr[Handler].body \in SUBSET Lines
    BY <1>1 DEF Thread
  <1>6. QED
    BY <1>1, <1>2, <1>3, <1>4, <1>5 DEF IInv

(* The handler changes a destination, collects sinks and drops the list    *)
(* without touching a line.                                                *)
LEMMA HandlerGoesOn ==
    ASSUME IInv, NEW r \in Thread, thr' = [thr EXCEPT ![Handler] = r],
           thr[Handler].pc # "flushed",
           r.body = {}, r.pc \in HandlerSteps \ {"flushed"},
           UNCHANGED <<builds, fresh, lines, buffer, flushing, accepted, uploaded, lost>>,
           enabled' \subseteq Destinations, changes' \in 0 .. MaxChanges,
           cache' \in {NoList} \cup SUBSET Sinks
    PROVE  IInv'
  <1>1. /\ Handler \in Threads /\ TypeOK /\ InOnePlace
        /\ \A s \in Sinks : Carried(Handler, s) = {}
    BY HandlerFacts
  <1>2. thr' \in [Threads -> Thread] /\ StepsApart' /\ LinesApart' /\ StillToVisit'
    BY HandlerKeeps
  <1>3. TypeOK'
    BY <1>1, <1>2 DEF TypeOK
  <1>4. InOnePlace'
    BY <1>1, CarriesNothing, SamePlaces
  <1>5. QED
    BY <1>2, <1>3, <1>4 DEF IInv

LEMMA ChangeStep ==
    ASSUME IInv, NEW d \in Destinations, ChangeDestination(d) PROVE IInv'
  <1> DEFINE r == [thr[Handler] EXCEPT !.pc = "invalidate"]
  <1>1. /\ thr[Handler].pc = "idle" /\ changes < MaxChanges /\ changes' = changes + 1
        /\ enabled' = IF d \in enabled THEN enabled \ {d} ELSE enabled \cup {d}
        /\ thr' = [thr EXCEPT ![Handler] = r]
        /\ UNCHANGED <<builds, cache, fresh, lines, buffer, flushing, accepted, uploaded, lost>>
    BY DEF ChangeDestination, list
  <1>2. thr[Handler] \in Thread /\ thr[Handler].body = {} /\ TypeOK
    BY <1>1, HandlerFacts
  <1>3. r \in Thread /\ r.body = {} /\ r.pc \in HandlerSteps \ {"flushed"}
    BY <1>2 DEF Thread, HandlerSteps
  <1> HIDE DEF r
  <1>4. /\ enabled' \subseteq Destinations /\ changes' \in 0 .. MaxChanges
        /\ cache' \in {NoList} \cup SUBSET Sinks
    BY <1>1, <1>2, BoundAssumption DEF TypeOK
  <1>5. QED
    BY <1>1, <1>3, <1>4, HandlerGoesOn

LEMMA InvalidateStep == ASSUME IInv, Invalidate PROVE IInv'
  <1> DEFINE S == IF cache = NoList THEN {} ELSE {s \in cache : Dest(s) \in Buffered}
             r == Flushing(thr[Handler], S)
  <1>1. /\ thr[Handler].pc = "invalidate" /\ thr' = [thr EXCEPT ![Handler] = r]
        /\ UNCHANGED <<enabled, changes, builds, cache, fresh, lines, buffer, flushing, accepted, uploaded, lost>>
    BY DEF Invalidate, store, list
  <1>2. thr[Handler] \in Thread /\ TypeOK
    BY HandlerFacts
  <1>3. S \in SUBSET Sinks
    BY <1>2 DEF TypeOK
  <1> HIDE DEF S
  <1>4. r \in Thread /\ r.body = {} /\ r.pc \in HandlerSteps \ {"flushed"}
    BY <1>2, <1>3, FlushingFacts DEF HandlerSteps
  <1> HIDE DEF r
  <1>5. /\ enabled' \subseteq Destinations /\ changes' \in 0 .. MaxChanges
        /\ cache' \in {NoList} \cup SUBSET Sinks
    BY <1>1, <1>2 DEF TypeOK
  <1>6. QED
    BY <1>1, <1>4, <1>5, HandlerGoesOn

LEMMA DropStep == ASSUME IInv, DropList PROVE IInv'
  <1>1. /\ thr[Handler].pc = "drop" /\ cache' = NoList /\ thr' = [thr EXCEPT ![Handler] = Idle]
        /\ UNCHANGED <<enabled, changes, builds, fresh, lines, buffer, flushing, accepted, uploaded, lost>>
    BY DEF DropList, store
  <1>2. Idle \in Thread /\ Idle.body = {} /\ Idle.pc \in HandlerSteps \ {"flushed"}
    BY IdleFacts DEF HandlerSteps
  <1>3. /\ enabled' \subseteq Destinations /\ changes' \in 0 .. MaxChanges
        /\ cache' \in {NoList} \cup SUBSET Sinks
    BY <1>1, HandlerFacts DEF TypeOK
  <1>4. QED
    BY <1>1, <1>2, <1>3, HandlerGoesOn

LEMMA InvalidateSwapStep ==
    ASSUME IInv, NEW s \in thr[Handler].todo, InvalidateSwaps(s) PROVE IInv'
  <1> DEFINE a == Flushing(thr[Handler], thr[Handler].todo \ {s})
             u == [thr[Handler] EXCEPT !.pc = "flushed", !.todo = thr[Handler].todo \ {s},
                                       !.at = s, !.body = buffer[s]]
             r == IF buffer[s] = {} THEN a ELSE u
  <1>1. /\ thr[Handler].pc = "flushing" /\ buffer' = [buffer EXCEPT ![s] = {}]
        /\ thr' = [thr EXCEPT ![Handler] = r]
        /\ UNCHANGED <<enabled, changes, builds, cache, fresh, flushing, accepted, uploaded, lost, lines>>
    BY DEF InvalidateSwaps, store, list
  <1>2. /\ Handler \in Threads /\ thr[Handler] \in Thread /\ thr[Handler].todo \in SUBSET Sinks
        /\ TypeOK /\ InOnePlace /\ \A q \in Sinks : Carried(Handler, q) = {}
    BY <1>1, HandlerFacts
  <1>3. s \in Sinks /\ buffer[s] \in SUBSET Lines
    BY <1>2 DEF TypeOK
  <1>4. a \in Thread /\ a.body = {} /\ a.pc \in {"drop", "flushing"}
    BY <1>2, FlushingFacts
  <1>5. u \in Thread /\ u.body = buffer[s] /\ u.pc = "flushed" /\ u.at = s
    BY <1>2, <1>3 DEF Thread
  <1> HIDE DEF a, u
  <1>6. /\ r \in Thread /\ r.pc \in HandlerSteps
        /\ r.pc = "flushed" => r.at \in Sinks
        /\ r.pc # "flushed" => r.body = {}
    BY <1>3, <1>4, <1>5 DEF HandlerSteps
  <1>7. thr' \in [Threads -> Thread] /\ StepsApart' /\ LinesApart' /\ StillToVisit'
    <2> HIDE DEF r
    <2>1. QED
      BY <1>1, <1>6, HandlerKeeps
  <1>8. TypeOK'
    BY <1>1, <1>2, <1>7 DEF TypeOK
  <1>9. InOnePlace'
    <2>1. CASE buffer[s] = {}
      <3>1. buffer' = buffer
        BY <1>1, <1>2, <2>1 DEF TypeOK
      <3>2. \A q \in Threads, p \in Sinks : Carried(q, p)' = Carried(q, p)
        BY <1>1, <1>2, <1>4, <2>1, CarriesNothing
      <3>3. QED
        BY <1>1, <1>2, <3>1, <3>2, SamePlaces
    <2>2. CASE buffer[s] # {}
      <3>1. thr' = [thr EXCEPT ![Handler] = u]
        BY <1>1, <2>2
      <3>2. QED
        BY <1>1, <1>2, <1>3, <1>5, <3>1, TakesBuffer
    <2>3. QED
      BY <2>1, <2>2
  <1>10. QED
    BY <1>7, <1>8, <1>9 DEF IInv

LEMMA InvalidateUploadStep ==
    ASSUME IInv, NEW ok \in BOOLEAN, InvalidateUploads(ok) PROVE IInv'
  <1> DEFINE s == thr[Handler].at
             body == thr[Handler].body
             r == Flushing(thr[Handler], thr[Handler].todo)
  <1>1. /\ thr[Handler].pc = "flushed" /\ Put(s, body, ok)
        /\ thr' = [thr EXCEPT ![Handler] = r]
        /\ UNCHANGED <<enabled, changes, builds, cache, fresh, buffer, flushing, accepted, lines>>
    BY DEF InvalidateUploads, store, list
  <1>2. /\ Handler \in Threads /\ thr[Handler] \in Thread /\ s \in Sinks /\ body \in SUBSET Lines
        /\ thr[Handler].todo \in SUBSET Sinks /\ TypeOK /\ InOnePlace
    BY <1>1, HandlerFacts
  <1>3. /\ r \in Thread /\ r.body = {} /\ r.pc \in {"drop", "flushing"}
    BY <1>2, FlushingFacts
  <1> HIDE DEF r
  <1>4. thr' \in [Threads -> Thread] /\ StepsApart' /\ LinesApart' /\ StillToVisit'
    BY <1>1, <1>3, HandlerKeeps DEF HandlerSteps
  <1>5. uploaded' \subseteq Sinks \X Lines /\ lost' \subseteq Sinks \X Lines
    BY <1>1, <1>2, PutType
  <1>6. TypeOK'
    BY <1>1, <1>2, <1>4, <1>5 DEF TypeOK
  <1>7. \A q \in Sinks : Carried(Handler, q) = IF q = s THEN body ELSE {}
    BY <1>2, CarriesBody
  <1>8. /\ \A q \in Sinks : Carried(Handler, q)' = {}
        /\ \A v \in Threads, q \in Sinks : v # Handler => Carried(v, q)' = Carried(v, q)
    BY <1>1, <1>2, <1>3, OneMoves
  <1> HIDE DEF s, body
  <1>9. InOnePlace'
    BY <1>1, <1>2, <1>7, <1>8, CarriedEnds
  <1>10. QED
    BY <1>4, <1>6, <1>9 DEF IInv

-----------------------------------------------------------------------------
(* The flusher threads, time and restarts *)

LEMMA ThreadsRest ==
    ASSUME IInv, UNCHANGED <<thr, accepted, lines>>
    PROVE  /\ StepsApart' /\ LinesApart' /\ StillToVisit'
           /\ \A t \in Threads, q \in Sinks : Carried(t, q)' = Carried(t, q)
  BY DEF IInv, StepsApart, LinesApart, StillToVisit, Carried

LEMMA FlusherSwapStep == ASSUME IInv, NEW s \in Sinks, FlusherSwaps(s) PROVE IInv'
  <1>1. /\ flushing[s] = {} /\ flushing' = [flushing EXCEPT ![s] = buffer[s]]
        /\ buffer' = [buffer EXCEPT ![s] = {}]
        /\ UNCHANGED <<enabled, changes, builds, cache, fresh, thr, accepted, uploaded, lost, lines>>
    BY DEF FlusherSwaps, store, list
  <1>2. TypeOK /\ InOnePlace
    BY DEF IInv
  <1>3. TypeOK'
    BY <1>1, <1>2 DEF TypeOK
  <1>4. /\ StepsApart' /\ LinesApart' /\ StillToVisit'
        /\ \A t \in Threads, q \in Sinks : Carried(t, q)' = Carried(t, q)
    BY <1>1, ThreadsRest
  <1>5. InOnePlace'
    BY <1>1, <1>2, <1>4, BufferFlushed
  <1>6. QED
    BY <1>3, <1>4, <1>5 DEF IInv

LEMMA FlusherUploadStep ==
    ASSUME IInv, NEW s \in Sinks, NEW ok \in BOOLEAN, FlusherUploads(s, ok) PROVE IInv'
  <1>1. /\ Put(s, flushing[s], ok) /\ flushing' = [flushing EXCEPT ![s] = {}]
        /\ UNCHANGED <<enabled, changes, builds, cache, fresh, thr, buffer, accepted, lines>>
    BY DEF FlusherUploads, store, list
  <1>2. TypeOK /\ InOnePlace /\ flushing[s] \in SUBSET Lines
    BY DEF IInv, TypeOK
  <1>3. uploaded' \subseteq Sinks \X Lines /\ lost' \subseteq Sinks \X Lines
    BY <1>1, <1>2, PutType
  <1>4. TypeOK'
    BY <1>1, <1>2, <1>3 DEF TypeOK
  <1>5. /\ StepsApart' /\ LinesApart' /\ StillToVisit'
        /\ \A t \in Threads, q \in Sinks : Carried(t, q)' = Carried(t, q)
    BY <1>1, ThreadsRest
  <1>6. InOnePlace'
    BY <1>1, <1>2, <1>5, FlushedEnds
  <1>7. QED
    BY <1>4, <1>5, <1>6 DEF IInv

LEMMA RestartStep == ASSUME IInv, Restart PROVE IInv'
  <1>1. TypeOK /\ LinesApart
    BY DEF IInv
  <1>2. /\ \A t \in Threads : thr'[t] = Idle
        /\ \A s \in Sinks : buffer'[s] = {} /\ flushing'[s] = {}
        /\ lost' = accepted \ uploaded
        /\ UNCHANGED <<enabled, builds, accepted, uploaded, lines>>
    BY DEF Restart
  <1>3. Workers \subseteq Threads /\ Handler \in Threads
    BY DEF Threads
  <1>4. TypeOK'
    <2>1. /\ buffer' \in [Sinks -> SUBSET Lines] /\ flushing' \in [Sinks -> SUBSET Lines]
          /\ thr' \in [Threads -> Thread]
      BY IdleFacts DEF Restart
    <2>2. changes < MaxChanges /\ changes' = changes + 1 /\ cache' = NoList /\ fresh' = FALSE
      BY DEF Restart
    <2>3. changes' \in 0 .. MaxChanges
      BY <1>1, <2>2, BoundAssumption DEF TypeOK
    <2>4. lost' \subseteq Sinks \X Lines
      BY <1>1, <1>2 DEF TypeOK
    <2>5. QED
      BY <1>1, <1>2, <2>1, <2>2, <2>3, <2>4 DEF TypeOK
  <1>5. StepsApart'
    BY <1>2, <1>3, IdleFacts DEF StepsApart, WorkerSteps, HandlerSteps
  <1>6. LinesApart' /\ StillToVisit'
    BY <1>1, <1>2, <1>3, IdleFacts DEF LinesApart, StillToVisit
  <1>7. \A t \in Threads, s \in Sinks : Carried(t, s)' = {}
    BY <1>2, IdleFacts DEF Carried
  <1>8. InOnePlace'
    <2> SUFFICES ASSUME NEW s \in Sinks, NEW l \in Lines, OnePlace(s, l) PROVE OnePlace(s, l)'
      BY DEF IInv, InOnePlace
    <2>1. <<s, l>> \in uploaded => <<s, l>> \in accepted
      BY DEF OnePlace
    <2>2. l \notin buffer'[s] /\ l \notin flushing'[s] /\ \A t \in Threads : l \notin Carried(t, s)'
      BY <1>2, <1>7
    <2>3. QED
      BY <1>2, <2>1, <2>2 DEF OnePlace
  <1>9. QED
    BY <1>4, <1>5, <1>6, <1>8 DEF IInv

LEMMA RestStep ==
    ASSUME IInv, UNCHANGED <<enabled, changes, builds, cache, thr, buffer, flushing,
                             accepted, uploaded, lost, lines>>, fresh' \in BOOLEAN
    PROVE  IInv'
  <1>1. TypeOK'
    BY DEF IInv, TypeOK
  <1>2. /\ StepsApart' /\ LinesApart' /\ StillToVisit'
        /\ \A t \in Threads, q \in Sinks : Carried(t, q)' = Carried(t, q)
    BY ThreadsRest
  <1>3. InOnePlace'
    BY <1>2, SamePlaces DEF IInv
  <1>4. QED
    BY <1>1, <1>2, <1>3 DEF IInv

LEMMA NextIInv == IInv /\ [Next]_vars => IInv'
  <1> SUFFICES ASSUME IInv, [Next]_vars PROVE IInv'
    OBVIOUS
  <1>1. CASE \E t \in Workers : StartDelivery(t) \/ WorkerStep(t)
    <2> PICK t \in Workers : StartDelivery(t) \/ WorkerStep(t)
      BY <1>1
    <2>1. CASE StartDelivery(t)
      BY <2>1, StartStep
    <2>2. CASE WorkerStep(t)
      BY <2>2, ReturnStep, PublishStep, SwapStep, LoadStep, UploadStep, AtOnceStep, AppendStep
         DEF WorkerStep
    <2>3. QED
      BY <2>1, <2>2
  <1>2. CASE \E s \in Sinks : FlusherStep(s)
    BY <1>2, FlusherSwapStep, FlusherUploadStep DEF FlusherStep
  <1>3. CASE \E d \in Destinations : ChangeDestination(d)
    BY <1>3, ChangeStep
  <1>4. CASE HandlerStep
    BY <1>4, InvalidateStep, DropStep, InvalidateSwapStep, InvalidateUploadStep DEF HandlerStep
  <1>5. CASE Expire
    BY <1>5, RestStep DEF Expire, store
  <1>6. CASE Restart
    BY <1>6, RestartStep
  <1>7. CASE UNCHANGED vars
    <2>1. fresh' \in BOOLEAN
      BY <1>7 DEF vars, IInv, TypeOK
    <2>2. QED
      BY <1>7, <2>1, RestStep DEF vars
  <1>8. QED
    BY <1>1, <1>2, <1>3, <1>4, <1>5, <1>6, <1>7 DEF Next

LEMMA SpecIInv == Spec => []IInv
  BY InitIInv, NextIInv, PTL DEF Spec

(* What the threads, sinks and sets of delivery hold has its type. *)
THEOREM DeliveryTypeCorrect == Spec => []TypeOK
  <1>1. IInv => TypeOK
    BY DEF IInv
  <1>2. QED
    BY <1>1, SpecIInv, PTL

(* Whoever flushes and however often the list is rebuilt, a line a sink    *)
(* has taken is in its buffer, in one upload, at the destination, or given *)
(* up, and in one of them only.                                            *)
THEOREM OnePlaceTheorem == Spec => []InOnePlace
  <1>1. IInv => InOnePlace
    BY DEF IInv
  <1>2. QED
    BY <1>1, SpecIInv, PTL

-----------------------------------------------------------------------------
(* The live stream *)

ViewerRow ==
    [pc : {"new", "wait", "send", "ping", "over"}, filter : Sources \cup {AnySource},
     since : Nat, queue : Seq(Nat), msg : Nat, gone : BOOLEAN, sent : Seq(Nat),
     dropped : SUBSET Nat]

(* Numbers on their way: increasing, and all of one stage before the next. *)
Inc(s) == \A i, j \in 1 .. Len(s) : i < j => s[i] < s[j]
Before(s, q) == \A i \in 1 .. Len(s), j \in 1 .. Len(q) : s[i] < q[j]
In(k, s) == \E i \in 1 .. Len(s) : s[i] = k

(* What a viewer sees, the message under way included. *)
SeenIn(r) == IF r.pc = "send" THEN Append(r.sent, r.msg) ELSE r.sent

(* A message waits for the loop, then in a queue, and is seen. *)
InOrder(r, P, R, here) ==
    /\ Inc(SeenIn(r)) /\ Inc(r.queue) /\ Before(SeenIn(r), r.queue)
    /\ here => Before(SeenIn(r), R) /\ Before(r.queue, R)
    /\ \A k : In(k, SeenIn(r)) => k \in 1 .. Len(P) /\ r.filter \in {AnySource, P[k]}
    /\ \A k : In(k, r.queue) => k \in 1 .. Len(P)

(* What a viewer in the hub is to see is on its way; what one that left    *)
(* has not seen came after all it saw.                                     *)
NoGap(r, P, R, here) ==
    \A k \in 1 .. Len(P) :
        r.since < k /\ r.filter \in {AnySource, P[k]} =>
            \/ In(k, SeenIn(r)) \/ k \in r.dropped
            \/ here /\ (In(k, r.queue) \/ In(k, R))
            \/ ~here /\ \A l : In(l, SeenIn(r)) => l < k

RowInv(r, P, R, here) ==
    /\ r \in ViewerRow
    /\ here <=> r.pc \notin {"new", "over"}
    /\ r.pc = "new" => r.queue = <<>> /\ r.sent = <<>>
    /\ InOrder(r, P, R, here) /\ NoGap(r, P, R, here)

HubInv ==
    /\ published \in Seq(Sources)
    /\ ready \in Seq(Nat) /\ Inc(ready)
    /\ \A k : In(k, ready) => k \in 1 .. Len(published)
    /\ subs \subseteq Viewers
    /\ ws = [v \in Viewers |-> ws[v]]
    /\ \A v \in Viewers : RowInv(ws[v], published, ready, v \in subs)

-----------------------------------------------------------------------------
(* Sequences of numbers *)

LEMMA AppendFacts ==
    ASSUME NEW s \in Seq(Nat), NEW x \in Nat
    PROVE  /\ Append(s, x) \in Seq(Nat)
           /\ \A k : In(k, Append(s, x)) <=> In(k, s) \/ k = x
           /\ Inc(s) /\ (\A k : In(k, s) => k < x) => Inc(Append(s, x))
           /\ Inc(Append(s, x)) => Inc(s) /\ \A k : In(k, s) => k < x
           /\ \A q : Before(Append(s, x), q) <=> Before(s, q) /\ \A j \in 1 .. Len(q) : x < q[j]
           /\ \A q : Before(q, Append(s, x)) <=> Before(q, s) /\ \A i \in 1 .. Len(q) : q[i] < x
  <1>1. /\ Append(s, x) \in Seq(Nat) /\ Len(Append(s, x)) = Len(s) + 1 /\ Len(s) \in Nat
        /\ \A i \in 1 .. Len(s) : Append(s, x)[i] = s[i]
        /\ Append(s, x)[Len(s) + 1] = x
    BY AppendProperties
  <1>2. \A i : i \in 1 .. Len(Append(s, x)) <=> i \in 1 .. Len(s) \/ i = Len(s) + 1
    BY <1>1
  <1>3. \A k : In(k, Append(s, x)) <=> In(k, s) \/ k = x
    BY <1>1, <1>2 DEF In
  <1>4. Inc(s) /\ (\A k : In(k, s) => k < x) => Inc(Append(s, x))
    <2> SUFFICES ASSUME Inc(s), \A k : In(k, s) => k < x,
                        NEW i \in 1 .. Len(Append(s, x)), NEW j \in 1 .. Len(Append(s, x)), i < j
                 PROVE  Append(s, x)[i] < Append(s, x)[j]
      BY DEF Inc
    <2>1. i \in 1 .. Len(s)
      BY <1>1
    <2>2. In(s[i], s)
      BY <2>1 DEF In
    <2>3. CASE j \in 1 .. Len(s)
      BY <1>1, <2>1, <2>3 DEF Inc
    <2>4. CASE j = Len(s) + 1
      BY <1>1, <2>1, <2>2, <2>4
    <2>5. QED
      BY <1>2, <2>3, <2>4
  <1>5. \A q : Before(Append(s, x), q) <=> Before(s, q) /\ \A j \in 1 .. Len(q) : x < q[j]
    BY <1>1, <1>2 DEF Before
  <1>6. \A q : Before(q, Append(s, x)) <=> Before(q, s) /\ \A i \in 1 .. Len(q) : q[i] < x
    BY <1>1, <1>2 DEF Before
  <1>7. Inc(Append(s, x)) => Inc(s) /\ \A k : In(k, s) => k < x
    <2>1. \A i \in 1 .. Len(s) : i < Len(s) + 1 /\ i \in 1 .. Len(Append(s, x))
      BY <1>1
    <2>2. Len(s) + 1 \in 1 .. Len(Append(s, x))
      BY <1>2
    <2>3. QED
      BY <1>1, <2>1, <2>2 DEF Inc, In
  <1>8. QED
    BY <1>1, <1>3, <1>4, <1>5, <1>6, <1>7

LEMMA TailFacts ==
    ASSUME NEW s \in Seq(Nat), s # <<>>
    PROVE  /\ Tail(s) \in Seq(Nat) /\ Head(s) \in Nat
           /\ \A k : In(k, s) <=> In(k, Tail(s)) \/ k = Head(s)
           /\ Inc(s) => Inc(Tail(s)) /\ \A j \in 1 .. Len(Tail(s)) : Head(s) < Tail(s)[j]
           /\ \A q : Before(s, q) => Before(Tail(s), q) /\ \A j \in 1 .. Len(q) : Head(s) < q[j]
           /\ \A q : Before(q, s) => Before(q, Tail(s)) /\ \A i \in 1 .. Len(q) : q[i] < Head(s)
  <1>1. /\ Tail(s) \in Seq(Nat) /\ Head(s) \in Nat /\ Len(Tail(s)) = Len(s) - 1
        /\ \A i \in 1 .. Len(Tail(s)) : Tail(s)[i] = s[i + 1]
        /\ Head(s) = s[1] /\ Len(s) \in Nat /\ Len(s) > 0
    BY HeadTailProperties
  <1>2. \A i : i \in 1 .. Len(Tail(s)) => i \in Nat /\ i + 1 \in 1 .. Len(s) /\ 1 < i + 1
    BY <1>1
  <1>3. 1 \in 1 .. Len(s)
    BY <1>1
  <1>4. ASSUME NEW k, In(k, s) PROVE In(k, Tail(s)) \/ k = Head(s)
    <2>1. PICK i \in 1 .. Len(s) : s[i] = k
      BY <1>4 DEF In
    <2>2. CASE i = 1
      BY <1>1, <2>1, <2>2
    <2>3. CASE i # 1
      <3>1. i - 1 \in 1 .. Len(Tail(s)) /\ (i - 1) + 1 = i
        BY <1>1, <2>3
      <3>2. Tail(s)[i - 1] = k
        BY <1>1, <2>1, <3>1
      <3>3. QED
        BY <3>1, <3>2 DEF In
    <2>4. QED
      BY <2>2, <2>3
  <1>5. ASSUME NEW k, In(k, Tail(s)) \/ k = Head(s) PROVE In(k, s)
    BY <1>1, <1>2, <1>3, <1>5 DEF In
  <1>6. Inc(s) => Inc(Tail(s)) /\ \A j \in 1 .. Len(Tail(s)) : Head(s) < Tail(s)[j]
    <2> SUFFICES ASSUME Inc(s)
                 PROVE  Inc(Tail(s)) /\ \A j \in 1 .. Len(Tail(s)) : Head(s) < Tail(s)[j]
      OBVIOUS
    <2>1. \A j \in 1 .. Len(Tail(s)) : Head(s) < Tail(s)[j]
      BY <1>1, <1>2, <1>3 DEF Inc
    <2>2. ASSUME NEW i \in 1 .. Len(Tail(s)), NEW j \in 1 .. Len(Tail(s)), i < j
          PROVE  Tail(s)[i] < Tail(s)[j]
      <3>1. i + 1 \in 1 .. Len(s) /\ j + 1 \in 1 .. Len(s) /\ i + 1 < j + 1
        BY <1>2, <2>2
      <3>2. QED
        BY <1>1, <3>1 DEF Inc
    <2>3. QED
      BY <2>1, <2>2 DEF Inc
  <1>7. \A q : Before(s, q) => Before(Tail(s), q) /\ \A j \in 1 .. Len(q) : Head(s) < q[j]
    BY <1>1, <1>2, <1>3 DEF Before
  <1>8. \A q : Before(q, s) => Before(q, Tail(s)) /\ \A i \in 1 .. Len(q) : q[i] < Head(s)
    BY <1>1, <1>2, <1>3 DEF Before
  <1>9. QED
    BY <1>1, <1>4, <1>5, <1>6, <1>7, <1>8

LEMMA EmptyFacts ==
    /\ \A k : ~In(k, <<>>)
    /\ Inc(<<>>)
    /\ \A q : Before(<<>>, q) /\ Before(q, <<>>)
  <1>1. Len(<<>>) = 0
    OBVIOUS
  <1>2. QED
    BY <1>1 DEF In, Inc, Before

LEMMA RowFacts ==
    ASSUME NEW r \in ViewerRow
    PROVE  /\ r.sent \in Seq(Nat) /\ r.queue \in Seq(Nat) /\ r.msg \in Nat /\ r.since \in Nat
           /\ r.dropped \subseteq Nat
           /\ SeenIn(r) \in Seq(Nat)
           /\ r.sent \o (IF r.pc = "send" THEN <<r.msg>> ELSE <<>>) = SeenIn(r)
  <1>1. r.sent \in Seq(Nat) /\ r.queue \in Seq(Nat) /\ r.msg \in Nat /\ r.since \in Nat
        /\ r.dropped \subseteq Nat
    BY DEF ViewerRow
  <1>2. CASE r.pc = "send"
    BY <1>1, <1>2, AppendIsConcat, AppendProperties DEF SeenIn
  <1>3. CASE r.pc # "send"
    BY <1>1, <1>3, ConcatEmptySeq DEF SeenIn
  <1>4. QED
    BY <1>1, <1>2, <1>3

-----------------------------------------------------------------------------
(* The rows *)

LEMMA InitRows == LiveInit => HubInv
  <1> SUFFICES ASSUME LiveInit PROVE HubInv
    OBVIOUS
  <1>1. /\ published = <<>> /\ ready = <<>> /\ subs = {} /\ ws = [v \in Viewers |-> Closed]
        /\ Len(<<>>) = 0
    BY DEF LiveInit
  <1>2. Closed \in ViewerRow /\ Closed.pc = "new" /\ Closed.queue = <<>> /\ Closed.sent = <<>>
    BY DEF Closed, ViewerRow
  <1>3. SeenIn(Closed) = <<>>
    BY <1>2 DEF SeenIn
  <1>4. RowInv(Closed, <<>>, <<>>, FALSE)
    BY <1>1, <1>2, <1>3, EmptyFacts DEF RowInv, InOrder, NoGap
  <1>5. \A v \in Viewers : ws[v] = Closed /\ (v \in subs) = FALSE
    BY <1>1
  <1>6. \A v \in Viewers : RowInv(ws[v], published, ready, v \in subs)
    BY <1>1, <1>4, <1>5
  <1>7. QED
    BY <1>1, <1>6, EmptyFacts DEF HubInv

(* One viewer's row changes, its place in the hub perhaps with it. *)
LEMMA OneRow ==
    ASSUME HubInv, NEW v \in Viewers, NEW r, ws' = [ws EXCEPT ![v] = r],
           published' = published, ready' = ready,
           subs' \subseteq Viewers, \A u \in Viewers : u # v => (u \in subs' <=> u \in subs),
           RowInv(r, published, ready, v \in subs')
    PROVE  HubInv'
  <1>1. /\ ws' = [u \in Viewers |-> ws'[u]] /\ ws'[v] = r
        /\ \A u \in Viewers : u # v => ws'[u] = ws[u]
    <2>1. ws = [u \in Viewers |-> ws[u]]
      BY DEF HubInv
    <2>2. DOMAIN ws = Viewers
      BY <2>1
    <2>3. QED
      BY <2>1, <2>2
  <1>2. \A u \in Viewers : RowInv(ws'[u], published', ready', u \in subs')
    <2> SUFFICES ASSUME NEW u \in Viewers PROVE RowInv(ws'[u], published, ready, u \in subs')
      OBVIOUS
    <2>1. CASE u = v
      BY <1>1, <2>1
    <2>2. CASE u # v
      <3>1. (u \in subs') = (u \in subs)
        BY <2>2
      <3>2. QED
        BY <1>1, <2>2, <3>1 DEF HubInv
    <2>3. QED
      BY <2>1, <2>2
  <1>3. QED
    BY <1>1, <1>2 DEF HubInv

(* A step that moves nothing. *)
LEMMA SameView ==
    ASSUME HubInv, NEW v \in Viewers, NEW r \in ViewerRow, ws' = [ws EXCEPT ![v] = r],
           UNCHANGED <<published, ready, subs>>,
           SeenIn(r) = SeenIn(ws[v]), r.queue = ws[v].queue, r.filter = ws[v].filter,
           r.since = ws[v].since, r.dropped = ws[v].dropped,
           r.pc \notin {"new", "over"}, ws[v].pc \notin {"new", "over"}
    PROVE  HubInv'
  <1>1. RowInv(ws[v], published, ready, v \in subs)
    BY DEF HubInv
  <1>2. RowInv(r, published, ready, v \in subs')
    BY <1>1 DEF RowInv, InOrder, NoGap
  <1>3. subs' \subseteq Viewers
    BY DEF HubInv
  <1>4. QED
    BY <1>2, <1>3, OneRow

LEMMA TimeoutRow == ASSUME HubInv, NEW v \in Viewers, Timeout(v) PROVE HubInv'
  <1> DEFINE r == [ws[v] EXCEPT !.pc = "ping"]
  <1>1. ws[v] \in ViewerRow /\ ws[v].pc = "wait"
    BY DEF HubInv, RowInv, Timeout
  <1>2. ws' = [ws EXCEPT ![v] = r] /\ UNCHANGED <<published, ready, subs>>
    BY DEF Timeout
  <1>3. /\ r \in ViewerRow /\ r.pc = "ping" /\ r.sent = ws[v].sent /\ r.queue = ws[v].queue
        /\ r.filter = ws[v].filter /\ r.since = ws[v].since /\ r.dropped = ws[v].dropped
    BY <1>1 DEF ViewerRow
  <1> HIDE DEF r
  <1>4. SeenIn(r) = SeenIn(ws[v])
    BY <1>1, <1>3 DEF SeenIn
  <1>5. QED
    BY <1>1, <1>2, <1>3, <1>4, SameView

LEMMA LeaveRow == ASSUME HubInv, NEW v \in Viewers, Leave(v) PROVE HubInv'
  <1> DEFINE r == [ws[v] EXCEPT !.gone = TRUE]
  <1>1. ws[v] \in ViewerRow /\ ws[v].pc \notin {"new", "over"}
    BY DEF HubInv, RowInv, Leave
  <1>2. ws' = [ws EXCEPT ![v] = r] /\ UNCHANGED <<published, ready, subs>>
    BY DEF Leave
  <1>3. /\ r \in ViewerRow /\ r.pc = ws[v].pc /\ r.sent = ws[v].sent /\ r.queue = ws[v].queue
        /\ r.filter = ws[v].filter /\ r.since = ws[v].since /\ r.dropped = ws[v].dropped
        /\ r.msg = ws[v].msg
    BY <1>1 DEF ViewerRow
  <1> HIDE DEF r
  <1>4. SeenIn(r) = SeenIn(ws[v])
    BY <1>3 DEF SeenIn
  <1>5. QED
    BY <1>1, <1>2, <1>3, <1>4, SameView

LEMMA SendRow == ASSUME HubInv, NEW v \in Viewers, Send(v) PROVE HubInv'
  <1> DEFINE out == IF ws[v].pc = "send" THEN Append(ws[v].sent, ws[v].msg) ELSE ws[v].sent
             r == [ws[v] EXCEPT !.pc = "wait", !.msg = 0, !.sent = out]
  <1>1. ws[v] \in ViewerRow /\ ws[v].pc \in {"send", "ping"} /\ v \in DOMAIN ws
    BY DEF HubInv, RowInv, Send
  <1>2. ws' = [ws EXCEPT ![v] = r] /\ UNCHANGED <<published, ready, subs>>
    BY <1>1 DEF Send
  <1>3. out = SeenIn(ws[v]) /\ out \in Seq(Nat)
    BY <1>1, RowFacts DEF SeenIn
  <1> HIDE DEF out
  <1>4. /\ r \in ViewerRow /\ r.pc = "wait" /\ r.sent = out /\ r.queue = ws[v].queue
        /\ r.filter = ws[v].filter /\ r.since = ws[v].since /\ r.dropped = ws[v].dropped
    BY <1>1, <1>3 DEF ViewerRow
  <1> HIDE DEF r
  <1>5. SeenIn(r) = SeenIn(ws[v])
    BY <1>3, <1>4 DEF SeenIn
  <1>6. QED
    BY <1>1, <1>2, <1>4, <1>5, SameView

(* A viewer comes: what it has to see is what comes after. *)
LEMMA OpenRow ==
    ASSUME HubInv, NEW v \in Viewers, NEW f \in Sources \cup {AnySource}, ws_live(v, f) PROVE HubInv'
  <1> DEFINE r == [ws[v] EXCEPT !.pc = "wait", !.filter = f, !.since = Len(published)]
  <1>1. /\ RowInv(ws[v], published, ready, v \in subs) /\ ws[v] \in ViewerRow
        /\ ws[v].pc = "new" /\ v \in DOMAIN ws /\ Len(published) \in Nat
    BY DEF HubInv, RowInv, ws_live
  <1>2. /\ ws' = [ws EXCEPT ![v] = r] /\ UNCHANGED <<published, ready>>
        /\ subs' = subs \cup {v}
    BY <1>1 DEF ws_live
  <1>3. /\ r \in ViewerRow /\ r.pc = "wait" /\ r.sent = <<>> /\ r.queue = <<>>
        /\ r.since = Len(published)
    BY <1>1 DEF ViewerRow, RowInv
  <1> HIDE DEF r
  <1>4. SeenIn(r) = <<>>
    BY <1>3 DEF SeenIn
  <1>5. InOrder(r, published, ready, TRUE)
    BY <1>3, <1>4, EmptyFacts DEF InOrder
  <1>6. NoGap(r, published, ready, TRUE)
    BY <1>1, <1>3 DEF NoGap
  <1>7. RowInv(r, published, ready, TRUE)
    BY <1>3, <1>5, <1>6 DEF RowInv
  <1>8. (v \in subs') = TRUE /\ subs' \subseteq Viewers
    BY <1>2 DEF HubInv
  <1>9. QED
    BY <1>2, <1>7, <1>8, OneRow

(* A message leaves the queue; it passes the filter or is left out. *)
LEMMA ReceiveRow == ASSUME HubInv, NEW v \in Viewers, Receive(v) PROVE HubInv'
  <1> DEFINE o == ws[v]
             k == Head(o.queue)
             q == Tail(o.queue)
             rest == [o EXCEPT !.queue = q]
             seen == [rest EXCEPT !.pc = "send", !.msg = k]
             pass == o.filter \in {AnySource, published[k]}
  <1>1. /\ o \in ViewerRow /\ o.pc = "wait" /\ o.queue # <<>> /\ v \in subs
        /\ RowInv(o, published, ready, TRUE)
    <2>1. RowInv(o, published, ready, v \in subs) /\ o.pc = "wait" /\ o.queue # <<>>
      BY DEF HubInv, Receive
    <2>2. v \in subs /\ o \in ViewerRow
      BY <2>1 DEF RowInv
    <2>3. (v \in subs) = TRUE
      BY <2>2
    <2>4. QED
      BY <2>1, <2>2, <2>3
  <1>2. /\ ws' = [ws EXCEPT ![v] = IF pass THEN seen ELSE rest]
        /\ UNCHANGED <<published, ready, subs>>
    BY DEF Receive
  <1>3. /\ o.sent \in Seq(Nat) /\ o.queue \in Seq(Nat) /\ SeenIn(o) = o.sent
    BY <1>1, RowFacts DEF SeenIn
  <1>4. /\ q \in Seq(Nat) /\ k \in Nat
        /\ \A m : In(m, o.queue) <=> In(m, q) \/ m = k
        /\ Inc(q) /\ \A j \in 1 .. Len(q) : k < q[j]
        /\ Before(o.sent, q) /\ \A i \in 1 .. Len(o.sent) : o.sent[i] < k
        /\ Before(q, ready) /\ \A j \in 1 .. Len(ready) : k < ready[j]
    BY <1>1, <1>3, TailFacts DEF RowInv, InOrder
  <1>5. /\ rest \in ViewerRow /\ rest.pc = "wait" /\ rest.sent = o.sent /\ rest.queue = q
        /\ rest.filter = o.filter /\ rest.since = o.since /\ rest.dropped = o.dropped
    BY <1>1, <1>4 DEF ViewerRow
  <1>6. /\ seen \in ViewerRow /\ seen.pc = "send" /\ seen.sent = o.sent /\ seen.queue = q
        /\ seen.filter = o.filter /\ seen.since = o.since /\ seen.dropped = o.dropped
        /\ seen.msg = k
    BY <1>1, <1>4, <1>5 DEF ViewerRow
  <1> HIDE DEF o, k, q, rest, seen
  <1>7. (v \in subs') = TRUE /\ subs' \subseteq Viewers
    BY <1>1, <1>2 DEF HubInv
  <1>8. CASE ~pass
    <2>1. SeenIn(rest) = o.sent
      BY <1>5 DEF SeenIn
    <2>2. InOrder(rest, published, ready, TRUE)
      BY <1>1, <1>3, <1>4, <1>5, <2>1 DEF RowInv, InOrder
    <2>3. NoGap(rest, published, ready, TRUE)
      BY <1>1, <1>3, <1>4, <1>5, <1>8, <2>1 DEF RowInv, NoGap
    <2>4. RowInv(rest, published, ready, TRUE)
      BY <1>5, <2>2, <2>3 DEF RowInv
    <2>5. QED
      BY <1>2, <1>7, <1>8, <2>4, OneRow
  <1>9. CASE pass
    <2>1. SeenIn(seen) = Append(o.sent, k)
      BY <1>6 DEF SeenIn
    <2>2. \A m : In(m, o.sent) => m < k
      BY <1>4 DEF In
    <2>3. /\ \A m : In(m, SeenIn(seen)) <=> In(m, o.sent) \/ m = k
          /\ Inc(SeenIn(seen))
          /\ Before(SeenIn(seen), q) /\ Before(SeenIn(seen), ready)
      <3>1. \A m : In(m, SeenIn(seen)) <=> (In(m, o.sent) \/ m = k)
        BY <1>3, <1>4, <2>1, AppendFacts
      <3>2. Inc(o.sent)
        BY <1>1, <1>3, <1>4 DEF RowInv, InOrder
      <3>3. Inc(SeenIn(seen))
        BY <1>3, <1>4, <2>1, <2>2, <3>2, AppendFacts
      <3>4. Before(SeenIn(seen), q) /\ Before(SeenIn(seen), ready)
        BY <1>1, <1>3, <1>4, <2>1, AppendFacts DEF RowInv, InOrder
      <3>5. QED
        BY <3>1, <3>3, <3>4
    <2>4. InOrder(seen, published, ready, TRUE)
      BY <1>1, <1>3, <1>4, <1>6, <1>9, <2>3 DEF RowInv, InOrder
    <2>5. NoGap(seen, published, ready, TRUE)
      BY <1>1, <1>3, <1>4, <1>6, <2>3 DEF RowInv, NoGap
    <2>6. RowInv(seen, published, ready, TRUE)
      BY <1>6, <2>4, <2>5 DEF RowInv
    <2>7. QED
      BY <1>2, <1>7, <1>9, <2>6, OneRow
  <1>10. QED
    BY <1>8, <1>9

(* A viewer leaves: what it has not seen came after all it saw. *)
LEMMA SendFailsRow == ASSUME HubInv, NEW v \in Viewers, SendFails(v) PROVE HubInv'
  <1> DEFINE o == ws[v]
             r == [o EXCEPT !.pc = "over"]
  <1>1. /\ o \in ViewerRow /\ o.pc \in {"send", "ping"} /\ RowInv(o, published, ready, TRUE)
    <2>1. RowInv(o, published, ready, v \in subs) /\ o.pc \in {"send", "ping"}
      BY DEF HubInv, SendFails
    <2>2. (v \in subs) = TRUE /\ o \in ViewerRow
      BY <2>1 DEF RowInv
    <2>3. QED
      BY <2>1, <2>2
  <1>2. /\ ws' = [ws EXCEPT ![v] = r] /\ UNCHANGED <<published, ready>>
        /\ subs' = subs \ {v}
    BY DEF SendFails
  <1>3. /\ r \in ViewerRow /\ r.pc = "over" /\ r.sent = o.sent /\ r.queue = o.queue
        /\ r.filter = o.filter /\ r.since = o.since /\ r.dropped = o.dropped
    BY <1>1 DEF ViewerRow
  <1>4. /\ o.sent \in Seq(Nat) /\ o.queue \in Seq(Nat) /\ o.msg \in Nat /\ SeenIn(o) \in Seq(Nat)
    BY <1>1, RowFacts
  <1> HIDE DEF o, r
  <1>5. SeenIn(r) = o.sent
    BY <1>3 DEF SeenIn
  <1>6. /\ Inc(o.sent) /\ Before(o.sent, o.queue)
        /\ \A k : In(k, o.sent) => In(k, SeenIn(o))
        /\ \A k : In(k, SeenIn(o)) => In(k, o.sent) \/ \A l : In(l, o.sent) => l < k
    <2>1. CASE o.pc = "send"
      <3>1. SeenIn(o) = Append(o.sent, o.msg)
        BY <2>1 DEF SeenIn
      <3>2. QED
        BY <1>1, <1>4, <3>1, AppendFacts DEF RowInv, InOrder
    <2>2. CASE o.pc # "send"
      BY <1>1, <2>2 DEF SeenIn, RowInv, InOrder
    <2>3. QED
      BY <2>1, <2>2
  <1>7. InOrder(r, published, ready, FALSE)
    BY <1>1, <1>3, <1>5, <1>6 DEF RowInv, InOrder
  <1>8. NoGap(r, published, ready, FALSE)
    <2>1. \A k : In(k, o.queue) \/ In(k, ready) => \A l : In(l, o.sent) => l < k
      <3>1. \A k, l : In(k, o.queue) /\ In(l, SeenIn(o)) => l < k
        BY <1>1 DEF RowInv, InOrder, Before, In
      <3>2. \A k, l : In(k, ready) /\ In(l, SeenIn(o)) => l < k
        BY <1>1 DEF RowInv, InOrder, Before, In
      <3>3. QED
        BY <1>6, <3>1, <3>2
    <2>2. QED
      BY <1>1, <1>3, <1>5, <1>6, <2>1 DEF RowInv, NoGap
  <1>9. RowInv(r, published, ready, FALSE)
    BY <1>3, <1>7, <1>8 DEF RowInv
  <1>10. (v \in subs') = FALSE /\ subs' \subseteq Viewers
    BY <1>2 DEF HubInv
  <1>11. QED
    BY <1>2, <1>9, <1>10, OneRow

(* The loop hands the first message to a viewer. *)
LEMMA PutRow ==
    ASSUME HubInv, NEW o, RowInv(o, published, ready, TRUE), ready # <<>>,
           NEW r, r = IF Len(o.queue) < QueueSize
                      THEN [o EXCEPT !.queue = Append(@, Head(ready))]
                      ELSE [o EXCEPT !.dropped = @ \cup {Head(ready)}]
    PROVE  RowInv(r, published, Tail(ready), TRUE)
  <1> DEFINE h == Head(ready)
             R == Tail(ready)
             q == Append(o.queue, h)
             taken == [o EXCEPT !.queue = q]
             missed == [o EXCEPT !.dropped = o.dropped \cup {h}]
  <1>1. o \in ViewerRow /\ o.queue \in Seq(Nat) /\ SeenIn(o) \in Seq(Nat) /\ o.dropped \subseteq Nat
    BY RowFacts DEF RowInv
  <1>2. /\ R \in Seq(Nat) /\ h \in Nat /\ h \in 1 .. Len(published)
        /\ \A k : In(k, ready) <=> In(k, R) \/ k = h
        /\ Inc(R) /\ \A j \in 1 .. Len(R) : h < R[j]
        /\ Before(SeenIn(o), R) /\ \A i \in 1 .. Len(SeenIn(o)) : SeenIn(o)[i] < h
        /\ Before(o.queue, R) /\ \A i \in 1 .. Len(o.queue) : o.queue[i] < h
    BY TailFacts DEF HubInv, RowInv, InOrder
  <1>3. /\ q \in Seq(Nat) /\ Inc(q) /\ Before(SeenIn(o), q) /\ Before(q, R)
        /\ \A k : In(k, q) <=> In(k, o.queue) \/ k = h
    <2>1. \A k : In(k, o.queue) => k < h
      BY <1>2 DEF In
    <2>2. Inc(o.queue) /\ Before(SeenIn(o), o.queue)
      BY DEF RowInv, InOrder
    <2>3. QED
      BY <1>1, <1>2, <2>1, <2>2, AppendFacts
  <1>4. r = taken \/ r = missed
    OBVIOUS
  <1>5. /\ taken \in ViewerRow /\ taken.pc = o.pc /\ taken.sent = o.sent /\ taken.queue = q
        /\ taken.filter = o.filter /\ taken.since = o.since /\ taken.dropped = o.dropped
        /\ taken.msg = o.msg
    BY <1>1, <1>3 DEF ViewerRow
  <1>6. /\ missed \in ViewerRow /\ missed.pc = o.pc /\ missed.sent = o.sent
        /\ missed.queue = o.queue /\ missed.filter = o.filter /\ missed.since = o.since
        /\ missed.dropped = o.dropped \cup {h} /\ missed.msg = o.msg
    BY <1>1, <1>2 DEF ViewerRow
  <1> HIDE DEF taken, missed, q, h, R
  <1>7. SeenIn(taken) = SeenIn(o) /\ SeenIn(missed) = SeenIn(o)
    BY <1>5, <1>6 DEF SeenIn
  <1>8. RowInv(taken, published, R, TRUE)
    <2>1. InOrder(taken, published, R, TRUE)
      BY <1>2, <1>3, <1>5, <1>7 DEF RowInv, InOrder
    <2>2. NoGap(taken, published, R, TRUE)
      BY <1>2, <1>3, <1>5, <1>7 DEF RowInv, NoGap
    <2>3. QED
      BY <1>5, <2>1, <2>2 DEF RowInv
  <1>9. RowInv(missed, published, R, TRUE)
    <2>1. InOrder(missed, published, R, TRUE)
      BY <1>2, <1>6, <1>7 DEF RowInv, InOrder
    <2>2. NoGap(missed, published, R, TRUE)
      BY <1>2, <1>6, <1>7 DEF RowInv, NoGap
    <2>3. QED
      BY <1>6, <2>1, <2>2 DEF RowInv
  <1>10. QED
    BY <1>4, <1>8, <1>9 DEF R

LEMMA PutRows == ASSUME HubInv, _put PROVE HubInv'
  <1> DEFINE put(v) == IF Len(ws[v].queue) < QueueSize
                       THEN [ws[v] EXCEPT !.queue = Append(@, Head(ready))]
                       ELSE [ws[v] EXCEPT !.dropped = @ \cup {Head(ready)}]
  <1>1. /\ ready # <<>> /\ ready' = Tail(ready) /\ UNCHANGED <<published, subs>>
        /\ ws' = [v \in Viewers |-> IF v \notin subs THEN ws[v] ELSE put(v)]
    BY DEF _put
  <1>2. /\ ready' \in Seq(Nat) /\ Inc(ready') /\ \A k : In(k, ready') => In(k, ready)
    BY <1>1, TailFacts DEF HubInv
  <1>3. ASSUME NEW v \in Viewers PROVE RowInv(ws'[v], published', ready', v \in subs')
    <2>1. RowInv(ws[v], published, ready, v \in subs)
      BY DEF HubInv
    <2>2. CASE v \in subs
      <3>1. (v \in subs) = TRUE /\ (v \in subs') = TRUE
        BY <1>1, <2>2
      <3>2. ws'[v] = put(v)
        BY <1>1, <2>2
      <3>3. RowInv(put(v), published, Tail(ready), TRUE)
        BY <1>1, <2>1, <3>1, PutRow
      <3>4. QED
        BY <1>1, <3>1, <3>2, <3>3
    <2>3. CASE v \notin subs
      <3>1. (v \in subs) = FALSE /\ (v \in subs') = FALSE /\ ws'[v] = ws[v]
        BY <1>1, <2>3
      <3>2. RowInv(ws[v], published, ready', FALSE)
        BY <2>1, <3>1 DEF RowInv, InOrder, NoGap
      <3>3. QED
        BY <1>1, <3>1, <3>2
    <2>4. QED
      BY <2>2, <2>3
  <1>4. ws' = [v \in Viewers |-> ws'[v]]
    BY <1>1
  <1> HIDE DEF put
  <1>5. QED
    BY <1>1, <1>2, <1>3, <1>4 DEF HubInv

LEMMA PublishRows == ASSUME HubInv, NEW s \in Sources, publish(s) PROVE HubInv'
  <1> DEFINE n == Len(published) + 1
  <1>1. /\ published' = Append(published, s) /\ UNCHANGED <<subs, ws>>
        /\ ready' = IF subs = {} THEN ready ELSE Append(ready, n)
    BY DEF publish
  <1>2. /\ published' \in Seq(Sources) /\ Len(published') = n /\ Len(published) \in Nat
        /\ \A k \in 1 .. Len(published) : published'[k] = published[k]
    BY <1>1, AppendProperties DEF HubInv
  <1>3. \A k : k \in 1 .. n <=> k \in 1 .. Len(published) \/ k = n
    BY <1>2
  <1>4. \A k \in 1 .. Len(published) : k < n
    BY <1>2
  <1> HIDE DEF n
  <1>5. n \in Nat
    BY <1>2
  <1>6. /\ ready' \in Seq(Nat) /\ Inc(ready')
        /\ \A k : In(k, ready') => k \in 1 .. n
        /\ \A k : In(k, ready) => In(k, ready')
        /\ subs # {} => In(n, ready')
        /\ \A q : Before(q, ready) /\ (\A i \in 1 .. Len(q) : q[i] < n) => Before(q, ready')
    <2>1. /\ ready \in Seq(Nat) /\ Inc(ready) /\ \A k : In(k, ready) => k \in 1 .. Len(published)
      BY DEF HubInv
    <2>2. CASE subs = {}
      BY <1>1, <1>3, <2>1, <2>2
    <2>3. CASE subs # {}
      BY <1>1, <1>3, <1>4, <1>5, <2>1, <2>3, AppendFacts
    <2>4. QED
      BY <2>2, <2>3
  <1>7. ASSUME NEW v \in Viewers PROVE RowInv(ws'[v], published', ready', v \in subs')
    <2> DEFINE r == ws[v]
    <2>1. RowInv(r, published, ready, v \in subs) /\ (v \in subs => subs # {})
      BY DEF HubInv
    <2> HIDE DEF r
    <2>2. /\ \A i \in 1 .. Len(SeenIn(r)) : SeenIn(r)[i] < n
          /\ \A i \in 1 .. Len(r.queue) : r.queue[i] < n
      BY <1>4, <2>1 DEF RowInv, InOrder, In
    <2>3. InOrder(r, published', ready', v \in subs)
      BY <1>2, <1>3, <1>6, <2>1, <2>2 DEF RowInv, InOrder
    <2>4. NoGap(r, published', ready', v \in subs)
      <3> SUFFICES ASSUME NEW k \in 1 .. Len(published'),
                          r.since < k, r.filter \in {AnySource, published'[k]}
                   PROVE  \/ In(k, SeenIn(r)) \/ k \in r.dropped
                          \/ v \in subs /\ (In(k, r.queue) \/ In(k, ready'))
                          \/ v \notin subs /\ \A l : In(l, SeenIn(r)) => l < k
        BY DEF NoGap
      <3>1. CASE k \in 1 .. Len(published)
        BY <1>2, <1>6, <2>1, <3>1 DEF RowInv, NoGap
      <3>2. CASE k = n
        BY <1>4, <1>6, <2>1, <3>2 DEF RowInv, InOrder
      <3>3. QED
        BY <1>2, <1>3, <3>1, <3>2
    <2>5. RowInv(r, published', ready', v \in subs)
      BY <2>1, <2>3, <2>4 DEF RowInv
    <2>6. QED
      BY <1>1, <2>5 DEF r
  <1>8. QED
    BY <1>1, <1>2, <1>6, <1>7 DEF HubInv

LEMMA NextHub == HubInv /\ [LiveNext]_liveVars => HubInv'
  <1> SUFFICES ASSUME HubInv, [LiveNext]_liveVars PROVE HubInv'
    OBVIOUS
  <1>1. CASE UNCHANGED liveVars
    BY <1>1 DEF HubInv, liveVars
  <1>2. CASE LiveNext
    BY <1>2, PublishRows, PutRows, ReceiveRow, TimeoutRow, SendRow, SendFailsRow, LeaveRow, OpenRow
       DEF LiveNext, ViewerStep
  <1>3. QED
    BY <1>1, <1>2

LEMMA HubShows == HubInv => ViewersSeeInOrder
  <1> SUFFICES ASSUME HubInv, NEW v \in Viewers
               PROVE  /\ \A i, j \in DOMAIN Seen(v) : i < j => Seen(v)[i] < Seen(v)[j]
                      /\ \A k \in Range(Seen(v)) : k \in DOMAIN published /\ Passes(v, k)
                      /\ \A k \in DOMAIN published :
                            /\ ws[v].since < k /\ Passes(v, k)
                            /\ \E l \in Range(Seen(v)) : k < l
                            => k \in Range(Seen(v)) \cup ws[v].dropped
    BY DEF ViewersSeeInOrder
  <1> DEFINE r == ws[v]
             s == Seen(v)
  <1>1. RowInv(r, published, ready, v \in subs) /\ r \in ViewerRow
    BY DEF HubInv, RowInv
  <1>2. s = SeenIn(r) /\ s \in Seq(Nat)
    BY <1>1, RowFacts DEF Seen
  <1> HIDE DEF r, s
  <1>3. /\ DOMAIN s = 1 .. Len(s) /\ DOMAIN published = 1 .. Len(published)
        /\ \A k : k \in Range(s) <=> In(k, s)
        /\ \A k : In(k, s) => k \in Nat
    <2>1. DOMAIN published = 1 .. Len(published)
      BY DEF HubInv
    <2>2. s \in Seq(Nat) /\ DOMAIN s = 1 .. Len(s)
      BY <1>2
    <2>3. \A k : k \in Range(s) <=> In(k, s)
      BY <2>2 DEF Range, In
    <2>4. \A k : In(k, s) => k \in Nat
      BY <2>2 DEF In
    <2>5. QED
      BY <2>1, <2>2, <2>3, <2>4
  <1>4. \A i, j \in DOMAIN s : i < j => s[i] < s[j]
    BY <1>1, <1>2, <1>3 DEF RowInv, InOrder, Inc
  <1>5. \A k \in Range(s) : k \in DOMAIN published /\ Passes(v, k)
    BY <1>1, <1>2, <1>3 DEF RowInv, InOrder, Passes, r
  <1>6. ASSUME NEW k \in DOMAIN published, r.since < k, Passes(v, k), NEW l \in Range(s), k < l
        PROVE  k \in Range(s) \cup r.dropped
    <2>1. k \in Nat /\ l \in Nat /\ In(l, SeenIn(r)) /\ ~(l < k)
      BY <1>2, <1>3, <1>6
    <2>2. ~In(k, r.queue) \/ v \notin subs
      BY <1>1, <2>1 DEF RowInv, InOrder, Before, In
    <2>3. ~In(k, ready) \/ v \notin subs
      BY <1>1, <2>1 DEF RowInv, InOrder, Before, In
    <2>4. In(k, SeenIn(r)) \/ k \in r.dropped
      BY <1>1, <1>3, <1>6, <2>1, <2>2, <2>3 DEF RowInv, NoGap, Passes, r
    <2>5. QED
      BY <1>2, <1>3, <2>4
  <1>7. QED
    BY <1>4, <1>5, <1>6 DEF r, s

(* A viewer sees messages of its filter in order and none twice, and of    *)
(* those since it came misses only what its full queue turned away, whoever*)
(* else watches, comes or leaves (publish, _put, ws_live).                 *)
THEOREM StreamTheorem == LiveSpec => []ViewersSeeInOrder
  <1>1. LiveInit => HubInv
    BY InitRows
  <1>2. HubInv /\ [LiveNext]_liveVars => HubInv'
    BY NextHub
  <1>3. HubInv => ViewersSeeInOrder
    BY HubShows
  <1>4. QED
    BY <1>1, <1>2, <1>3, PTL DEF LiveSpec

-----------------------------------------------------------------------------
(* Ids in order *)

Falls(s) == \A i, j \in DOMAIN s : i < j => s[i] > s[j]

(* Finitely many numbers can be put in order: a smallest set that cannot   *)
(* would be in order without its least element.                            *)
LEMMA OrderExists ==
    ASSUME NEW S \in SUBSET Nat, IsFiniteSet(S)
    PROVE  \E s \in [1 .. Cardinality(S) -> S] : Falls(s)
  <1> DEFINE Ordered(T) == \E s \in [1 .. Cardinality(T) -> T] : Falls(s)
             Bad == {T \in SUBSET S : ~Ordered(T)}
  <1>1. Bad = {}
    <2> SUFFICES ASSUME Bad # {} PROVE FALSE
      OBVIOUS
    <2>1. PICK T \in Bad : \A U \in Bad : ~(<<U, T>> \in StrictSubsetOrdering(S))
      <3>1. IsWellFoundedOn(StrictSubsetOrdering(S), FiniteSubsetsOf(S))
        BY FS_StrictSubsetOrderingWellFounded
      <3>2. Bad \subseteq FiniteSubsetsOf(S)
        BY FS_Subset DEF FiniteSubsetsOf
      <3>3. QED
        BY <3>1, <3>2, WFMin
    <2>2. T \in SUBSET Nat /\ IsFiniteSet(T) /\ Cardinality(T) \in Nat
      BY FS_Subset, FS_CardinalityType
    <2>3. CASE T = {}
      <3>1. Cardinality(T) = 0
        BY <2>3, FS_EmptySet
      <3>2. <<>> \in [1 .. Cardinality(T) -> T] /\ Falls(<<>>)
        BY <3>1 DEF Falls
      <3>3. QED
        BY <2>1, <3>2
    <2>4. CASE T # {}
      <3> DEFINE m == Min(T)
                 U == T \ {m}
                 n == Cardinality(T)
      <3>1. m \in T /\ \A y \in T : m <= y
        BY <2>2, <2>4, NumbersHaveMin
      <3> HIDE DEF m
      <3>2. Cardinality(U) = n - 1
        BY <2>2, <3>1, FS_RemoveElement
      <3>3. <<U, T>> \in StrictSubsetOrdering(S)
        BY <3>1 DEF StrictSubsetOrdering
      <3>4. U \in SUBSET S
        OBVIOUS
      <3>5. Ordered(U)
        BY <2>1, <3>3, <3>4
      <3>6. PICK s \in [1 .. n - 1 -> U] : Falls(s)
        BY <3>2, <3>5
      <3> DEFINE f == [i \in 1 .. n |-> IF i = n THEN m ELSE s[i]]
      <3>7. n \in Nat
        BY <2>2
      <3> HIDE DEF n
      <3>8. f \in [1 .. n -> T]
        <4> SUFFICES ASSUME NEW i \in 1 .. n PROVE f[i] \in T
          BY <3>1
        <4>1. i # n => i \in 1 .. n - 1
          BY <3>7
        <4>2. QED
          BY <3>1, <4>1
      <3>9. Falls(f)
        <4> SUFFICES ASSUME NEW i \in 1 .. n, NEW j \in 1 .. n, i < j PROVE f[i] > f[j]
          BY DEF Falls
        <4>1. i \in 1 .. n - 1 /\ f[i] = s[i] /\ s[i] \in U
          BY <3>7
        <4>2. CASE j = n
          <5>1. s[i] \in T /\ s[i] # m
            BY <4>1
          <5>2. s[i] \in Nat /\ m \in Nat /\ m <= s[i]
            BY <2>2, <3>1, <5>1
          <5>3. QED
            BY <4>1, <4>2, <5>1, <5>2 DEF f
        <4>3. CASE j # n
          <5>1. j \in 1 .. n - 1 /\ f[j] = s[j]
            BY <3>7, <4>3
          <5>2. QED
            BY <3>6, <4>1, <5>1 DEF Falls
        <4>4. QED
          BY <4>2, <4>3
      <3>10. Ordered(T)
        BY <3>8, <3>9 DEF n
      <3>11. QED
        BY <2>1, <3>10
    <2>5. QED
      BY <2>3, <2>4
  <1>2. QED
    BY <1>1

LEMMA NewestFacts ==
    ASSUME NEW S \in SUBSET Nat, IsFiniteSet(S)
    PROVE  /\ NewestFirst(S) \in [1 .. Cardinality(S) -> S] /\ NewestFirst(S) \in Seq(S)
           /\ Len(NewestFirst(S)) = Cardinality(S) /\ Cardinality(S) \in Nat
           /\ Falls(NewestFirst(S)) /\ IsInjective(NewestFirst(S))
           /\ Range(NewestFirst(S)) = S
  <1> DEFINE s == NewestFirst(S)
             n == Cardinality(S)
  <1>1. n \in Nat
    BY FS_CardinalityType
  <1>2. s \in [1 .. n -> S] /\ Falls(s)
    BY OrderExists DEF NewestFirst, Falls
  <1> HIDE DEF s
  <1>3. s \in Seq(S) /\ Len(s) = n
    BY <1>1, <1>2, SeqDef, LenProperties
  <1>4. IsInjective(s)
    <2> SUFFICES ASSUME NEW i \in 1 .. n, NEW j \in 1 .. n, s[i] = s[j] PROVE i = j
      BY <1>2 DEF IsInjective
    <2>1. ~(i < j) /\ ~(j < i)
      <3>1. s[i] \in Nat /\ s[j] \in Nat
        BY <1>2
      <3>2. QED
        BY <1>2, <3>1 DEF Falls
    <2>2. QED
      BY <1>1, <2>1
  <1>5. s \in Injection(1 .. n, S)
    BY <1>2, <1>4 DEF Injection
  <1>6. IsFiniteSet(1 .. n) /\ Cardinality(1 .. n) = n
    BY <1>1, FS_Interval
  <1>7. s \in Surjection(1 .. n, S)
    BY <1>5, <1>6, FS_Injection
  <1>8. Range(s) = S
    BY <1>2, <1>7 DEF Surjection, Range
  <1>9. QED
    BY <1>1, <1>2, <1>3, <1>4, <1>8 DEF s

(* There is one such order. *)
LEMMA OrderIsUnique ==
    ASSUME NEW S \in SUBSET Nat, IsFiniteSet(S), NEW f \in [1 .. Cardinality(S) -> S], Falls(f)
    PROVE  f = NewestFirst(S)
  <1> DEFINE n == Cardinality(S)
             g == NewestFirst(S)
             Differ == {i \in 1 .. n : f[i] # g[i]}
  <1>1. n \in Nat /\ g \in [1 .. n -> S] /\ Falls(g) /\ Range(g) = S
    BY NewestFacts
  <1>2. Range(f) = S
    <2>1. IsInjective(f)
      <3> SUFFICES ASSUME NEW i \in 1 .. n, NEW j \in 1 .. n, f[i] = f[j] PROVE i = j
        BY DEF IsInjective
      <3>1. f[i] \in Nat /\ f[j] \in Nat
        OBVIOUS
      <3>2. ~(i < j) /\ ~(j < i)
        BY <3>1 DEF Falls
      <3>3. QED
        BY <1>1, <3>2
    <2>2. f \in Injection(1 .. n, S)
      BY <2>1 DEF Injection
    <2>3. IsFiniteSet(1 .. n) /\ Cardinality(1 .. n) = n
      BY <1>1, FS_Interval
    <2>4. f \in Surjection(1 .. n, S)
      BY <2>2, <2>3, FS_Injection
    <2>5. QED
      BY <2>4 DEF Surjection, Range
  <1>3. f \in [1 .. n -> S]
    OBVIOUS
  <1> HIDE DEF g, n
  <1>4. Differ = {}
    <2> SUFFICES ASSUME Differ # {} PROVE FALSE
      OBVIOUS
    <2> DEFINE k == Min(Differ)
    <2>1. k \in Differ /\ \A y \in Differ : k <= y
      BY NumbersHaveMin
    <2> HIDE DEF k
    <2>2. k \in 1 .. n /\ f[k] # g[k] /\ f[k] \in Nat /\ g[k] \in Nat
      BY <1>1, <1>3, <2>1
    <2>3. \A j \in 1 .. n : j < k => f[j] = g[j]
      <3> SUFFICES ASSUME NEW j \in 1 .. n, j < k, f[j] # g[j] PROVE FALSE
        OBVIOUS
      <3>1. k <= j
        BY <2>1
      <3>2. QED
        BY <1>1, <2>2, <3>1
    <2>4. PICK i \in 1 .. n : g[i] = f[k]
      BY <1>1, <1>3, <2>2 DEF Range
    <2>5. PICK j \in 1 .. n : f[j] = g[k]
      <3>1. g[k] \in Range(f)
        BY <1>1, <1>2, <2>2
      <3>2. QED
        BY <1>3, <3>1 DEF Range
    <2>6. ~(i < k)
      <3> SUFFICES ASSUME i < k PROVE FALSE
        OBVIOUS
      <3>1. f[i] = f[k] /\ f[i] > f[k]
        BY <1>3, <2>2, <2>3, <2>4 DEF Falls
      <3>2. QED
        BY <2>2, <3>1
    <2>7. ~(j < k)
      <3> SUFFICES ASSUME j < k PROVE FALSE
        OBVIOUS
      <3>1. g[j] = g[k] /\ g[j] > g[k]
        BY <1>1, <2>2, <2>3, <2>5 DEF Falls
      <3>2. QED
        BY <2>2, <3>1
    <2>8. i # k /\ j # k
      BY <2>2, <2>4, <2>5
    <2>9. g[k] > f[k]
      <3>1. k < i
        BY <1>1, <2>2, <2>6, <2>8
      <3>2. QED
        BY <1>1, <2>2, <2>4, <3>1 DEF Falls
    <2>10. f[k] > g[k]
      <3>1. k < j
        BY <1>1, <2>2, <2>7, <2>8
      <3>2. QED
        BY <1>3, <2>2, <2>5, <3>1 DEF Falls
    <2>11. QED
      BY <2>2, <2>9, <2>10
  <1>5. \A i \in 1 .. n : f[i] = g[i]
    BY <1>4
  <1>6. f = g
    <2>1. f = [i \in 1 .. n |-> f[i]] /\ g = [i \in 1 .. n |-> g[i]]
      BY <1>1, <1>3
    <2>2. [i \in 1 .. n |-> f[i]] = [i \in 1 .. n |-> g[i]]
      BY <1>5
    <2>3. QED
      BY <2>1, <2>2, Zenon
  <1>7. QED
    BY <1>6 DEF g

-----------------------------------------------------------------------------
(* Batch runs *)

Run == [total : Nat, processed : Nat, ended : BOOLEAN]
Batch == [pc : {"idle", "lines"}, lines : Nat, left : Nat, mine : SUBSET Nat,
          processed : Nat, run : Nat]

TablesInv ==
    /\ rows \in Seq(Row)
    /\ runs \in Seq(Run)
    /\ bt \in Batch
    /\ bt.mine \subseteq RowIds
    /\ bt.run <= Len(runs)

(* A row is listed under the run that stored it, or under none. *)
StoredBy == \A d \in RowIds : rows[d].batch \in {0, rows[d].by} /\ rows[d].by <= Len(runs)

(* The batch at work knows the rows of its run, and that run has not ended. *)
MineOnly ==
    /\ bt.run # 0 => ~runs[bt.run].ended
    /\ \A d \in RowIds : bt.run # 0 /\ rows[d].by = bt.run => d \in bt.mine
    /\ \A d \in bt.mine : rows[d].live => bt.run # 0 /\ rows[d].by = bt.run
    /\ IsFiniteSet(bt.mine) /\ Cardinality(bt.mine) <= bt.processed
    /\ bt.processed + bt.left <= bt.lines

Under(k) == {d \in RowIds : rows[d].batch = k /\ rows[d].live}
EndedRuns ==
    \A k \in DOMAIN runs :
        runs[k].ended =>
            /\ \A d \in RowIds : rows[d].by = k => rows[d].batch = k
            /\ Cardinality(Under(k)) <= runs[k].processed
            /\ runs[k].processed <= runs[k].total

RunsInv == TablesInv /\ StoredBy /\ MineOnly /\ EndedRuns

LEMMA EventRowFacts ==
    /\ Gone \in Row /\ ~Gone.live /\ Gone.batch = 0 /\ Gone.by = 0
    /\ \A r \in Row : /\ r.batch \in Nat /\ r.by \in Nat /\ r.live \in BOOLEAN /\ r.status \in Status
                      /\ r.live => \A s \in Status : [r EXCEPT !.status = s] \in Row
    /\ \A r \in Row : \A k \in Nat : r.live => [r EXCEPT !.batch = k] \in Row
    /\ \A a \in Arrivals, k \in Nat : /\ NewRow(a, k) \in Row /\ NewRow(a, k).live
                                      /\ NewRow(a, k).batch = 0 /\ NewRow(a, k).by = k
  <1>1. /\ Gone \in Row /\ Gone.live = FALSE /\ Gone.batch = 0 /\ Gone.by = 0 /\ Gone.status \in Status
        /\ Gone.batch \in Nat /\ Gone.by \in Nat /\ Gone.live \in BOOLEAN
    BY DEF Gone, Row, Status, Held
  <1> DEFINE Live == [env : {a.env : a \in Arrivals}, shape : {a.shape : a \in Arrivals},
                      status : Status, batch : Nat, by : Nat, live : {TRUE}]
  <1>2. Row = Live \cup {Gone}
    BY DEF Row
  <1>3. \A r \in Live :
          /\ r.batch \in Nat /\ r.by \in Nat /\ r.live /\ r.status \in Status
          /\ \A s \in Status : [r EXCEPT !.status = s] \in Live
          /\ \A k \in Nat : [r EXCEPT !.batch = k] \in Live
    OBVIOUS
  <1>4. \A a \in Arrivals, k \in Nat : /\ NewRow(a, k) \in Live /\ NewRow(a, k).live
                                       /\ NewRow(a, k).batch = 0 /\ NewRow(a, k).by = k
    BY ArrivalAssumption DEF NewRow
  <1> HIDE DEF Live
  <1>5. \A r \in Row : r.live => r \in Live
    BY <1>1, <1>2
  <1>6. \A r \in Row : r \in Live \/ r = Gone
    BY <1>2
  <1>7. \A r \in Row : /\ r.batch \in Nat /\ r.by \in Nat /\ r.live \in BOOLEAN /\ r.status \in Status
    <2> SUFFICES ASSUME NEW r \in Row
                 PROVE  r.batch \in Nat /\ r.by \in Nat /\ r.live \in BOOLEAN /\ r.status \in Status
      OBVIOUS
    <2>1. CASE r \in Live
      BY <1>3, <2>1
    <2>2. CASE r = Gone
      BY <1>1, <2>2, Zenon
    <2>3. QED
      BY <1>6, <2>1, <2>2
  <1>8. \A r \in Row : r.live => /\ \A s \in Status : [r EXCEPT !.status = s] \in Row
                                /\ \A k \in Nat : [r EXCEPT !.batch = k] \in Row
    BY <1>2, <1>3, <1>5
  <1>9. \A a \in Arrivals, k \in Nat : NewRow(a, k) \in Row
    BY <1>2, <1>4
  <1>10. QED
    BY <1>1, <1>2, <1>4, <1>7, <1>8, <1>9

LEMMA NoBatchFacts ==
    /\ NoBatch \in Batch /\ NoBatch.pc = "idle" /\ NoBatch.lines = 0 /\ NoBatch.left = 0
    /\ NoBatch.mine = {} /\ NoBatch.processed = 0 /\ NoBatch.run = 0
  BY DEF NoBatch, Batch

LEMMA UnderFinite ==
    ASSUME TablesInv, NEW k
    PROVE  IsFiniteSet(Under(k)) /\ Cardinality(Under(k)) \in Nat
  <1>1. IsFiniteSet(RowIds)
    BY FS_Interval DEF TablesInv, RowIds
  <1>2. IsFiniteSet(Under(k))
    BY <1>1, FS_Subset DEF Under
  <1>3. QED
    BY <1>2, FS_CardinalityType

(* What a step does to a row that no run which has ended gains or loses by. *)
KeptRow(d) ==
    /\ d \in RowIds
    /\ rows'[d].by = rows[d].by /\ rows'[d].batch = rows[d].batch
    /\ rows'[d].live => rows[d].live
FreshRow(d) ==
    /\ rows'[d].batch = 0
    /\ \A k \in DOMAIN runs' : runs'[k].ended => rows'[d].by # k

LEMMA EndedStays ==
    ASSUME RunsInv, TablesInv',
           \A k \in DOMAIN runs' : runs'[k].ended => k \in DOMAIN runs /\ runs'[k] = runs[k],
           \A d \in RowIds' : KeptRow(d) \/ FreshRow(d)
    PROVE  EndedRuns'
  <1> SUFFICES ASSUME NEW k \in DOMAIN runs', runs'[k].ended
               PROVE  /\ \A d \in RowIds' : rows'[d].by = k => rows'[d].batch = k
                      /\ Cardinality(Under(k)') <= runs'[k].processed
                      /\ runs'[k].processed <= runs'[k].total
    BY DEF EndedRuns
  <1>1. k \in DOMAIN runs /\ runs'[k] = runs[k] /\ runs[k].ended
    OBVIOUS
  <1>2. /\ \A d \in RowIds : rows[d].by = k => rows[d].batch = k
        /\ Cardinality(Under(k)) <= runs[k].processed
        /\ runs[k].processed <= runs[k].total
    BY <1>1 DEF RunsInv, EndedRuns
  <1>3. k # 0
    BY DEF TablesInv
  <1>4. Under(k)' \subseteq Under(k)
    BY <1>3 DEF Under, KeptRow, FreshRow
  <1>5. /\ Cardinality(Under(k)') <= Cardinality(Under(k))
        /\ Cardinality(Under(k)) \in Nat /\ Cardinality(Under(k)') \in Nat
    <2>1. IsFiniteSet(Under(k)) /\ Cardinality(Under(k)) \in Nat
      BY UnderFinite DEF RunsInv
    <2>2. IsFiniteSet(Under(k)') /\ Cardinality(Under(k)') <= Cardinality(Under(k))
      BY <1>4, <2>1, FS_Subset
    <2>3. QED
      BY <2>1, <2>2, FS_CardinalityType
  <1>6. \A d \in RowIds' : rows'[d].by = k => rows'[d].batch = k
    <2> SUFFICES ASSUME NEW d \in RowIds', rows'[d].by = k PROVE rows'[d].batch = k
      OBVIOUS
    <2>1. KeptRow(d)
      BY DEF FreshRow
    <2>2. QED
      BY <1>2, <2>1 DEF KeptRow
  <1>7. runs[k].processed \in Nat
    <2>1. runs \in Seq(Run)
      BY DEF RunsInv, TablesInv
    <2>2. runs[k] \in Run
      BY <1>1, <2>1
    <2>3. QED
      BY <2>2 DEF Run
  <1>8. QED
    BY <1>1, <1>2, <1>5, <1>6, <1>7

(* Steps that leave the tables alone. *)
LEMMA SameTables ==
    ASSUME RunsInv, UNCHANGED <<rows, runs, bt>>
    PROVE  RunsInv'
  BY DEF RunsInv, TablesInv, StoredBy, MineOnly, EndedRuns, Under, RowIds

(* Steps of the batch between its commits. *)
LEMMA BatchMoves ==
    ASSUME RunsInv, UNCHANGED <<rows, runs>>, bt' \in Batch,
           \/ bt'.run = bt.run /\ bt'.mine = bt.mine /\ bt.processed <= bt'.processed
           \/ bt'.run = 0 /\ bt'.mine = {},
           bt'.processed + bt'.left <= bt'.lines
    PROVE  RunsInv'
  <1>1. TablesInv /\ StoredBy /\ MineOnly /\ EndedRuns
    BY DEF RunsInv
  <1>2. TablesInv'
    BY <1>1 DEF TablesInv, RowIds
  <1>3. StoredBy' /\ EndedRuns'
    BY <1>1 DEF StoredBy, EndedRuns, Under, RowIds
  <1>4. IsFiniteSet(bt'.mine) /\ Cardinality(bt'.mine) <= bt'.processed
    <2>1. bt \in Batch /\ bt.processed \in Nat /\ bt'.processed \in Nat
      BY <1>1 DEF TablesInv, Batch
    <2>2. CASE bt'.mine = bt.mine /\ bt.processed <= bt'.processed
      <3>1. IsFiniteSet(bt.mine) /\ Cardinality(bt.mine) <= bt.processed
        BY <1>1 DEF MineOnly
      <3>2. Cardinality(bt.mine) \in Nat
        BY <3>1, FS_CardinalityType
      <3>3. QED
        BY <2>1, <2>2, <3>1, <3>2
    <2>3. CASE bt'.mine = {}
      BY <2>1, <2>3, FS_EmptySet
    <2>4. QED
      BY <2>2, <2>3
  <1>5. MineOnly'
    BY <1>1, <1>4 DEF MineOnly, RowIds
  <1>6. QED
    BY <1>2, <1>3, <1>5 DEF RunsInv

LEMMA BetweenCommits ==
    ASSUME RunsInv,
           \/ \E n \in BatchSizes : process_batch(n)
           \/ \E d \in RowIds : ReplayLine(d)
           \/ FailLine \/ BatchDies
    PROVE  RunsInv'
  <1>1. /\ bt \in Batch /\ bt.processed \in Nat /\ bt.left \in Nat /\ bt.lines \in Nat
        /\ bt.processed + bt.left <= bt.lines
    BY DEF RunsInv, TablesInv, Batch, MineOnly
  <1>2. CASE \E n \in BatchSizes : process_batch(n)
    <2>1. PICK n \in BatchSizes : process_batch(n)
      BY <1>2
    <2>2. n \in Nat
      BY ViewBoundAssumption
    <2>3. bt' = [NoBatch EXCEPT !.pc = "lines", !.left = n, !.lines = n] /\ UNCHANGED <<rows, runs>>
      BY <2>1 DEF process_batch
    <2>4. /\ bt' \in Batch /\ bt'.run = 0 /\ bt'.mine = {} /\ bt'.processed = 0
          /\ bt'.left = n /\ bt'.lines = n
      BY <2>2, <2>3, NoBatchFacts DEF Batch
    <2>5. bt'.processed + bt'.left <= bt'.lines
      BY <2>2, <2>4
    <2>6. QED
      BY <2>3, <2>4, <2>5, BatchMoves
  <1>3. CASE \E d \in RowIds : ReplayLine(d)
    <2>1. /\ bt' = [bt EXCEPT !.left = @ - 1, !.processed = @ + 1] /\ bt.left > 0
          /\ UNCHANGED <<rows, runs>>
      BY <1>3 DEF ReplayLine, Processed
    <2>2. /\ bt' \in Batch /\ bt'.run = bt.run /\ bt'.mine = bt.mine /\ bt'.lines = bt.lines
          /\ bt'.processed = bt.processed + 1 /\ bt'.left = bt.left - 1
      <3> DEFINE p == bt.processed + 1
                 q == bt.left - 1
      <3>1. bt' = [bt EXCEPT !.left = q, !.processed = p] /\ p \in Nat /\ q \in Nat
        BY <1>1, <2>1
      <3> HIDE DEF p, q
      <3>2. /\ bt' \in Batch /\ bt'.run = bt.run /\ bt'.mine = bt.mine /\ bt'.lines = bt.lines
            /\ bt'.processed = p /\ bt'.left = q
        BY <1>1, <3>1 DEF Batch
      <3>3. QED
        BY <3>2 DEF p, q
    <2>3. bt.processed <= bt'.processed /\ bt'.processed + bt'.left <= bt'.lines
      BY <1>1, <2>2
    <2>4. QED
      BY <2>1, <2>2, <2>3, BatchMoves
  <1>4. CASE FailLine
    <2>1. bt' = [bt EXCEPT !.left = @ - 1] /\ bt.left > 0 /\ UNCHANGED <<rows, runs>>
      BY <1>4 DEF FailLine
    <2>2. /\ bt' \in Batch /\ bt'.run = bt.run /\ bt'.mine = bt.mine /\ bt'.lines = bt.lines
          /\ bt'.processed = bt.processed /\ bt'.left = bt.left - 1
      BY <1>1, <2>1 DEF Batch
    <2>3. bt.processed <= bt'.processed /\ bt'.processed + bt'.left <= bt'.lines
      BY <1>1, <2>2
    <2>4. QED
      BY <2>1, <2>2, <2>3, BatchMoves
  <1>5. CASE BatchDies
    <2>1. bt' = NoBatch /\ UNCHANGED <<rows, runs>>
      BY <1>5 DEF BatchDies
    <2>2. QED
      BY <2>1, NoBatchFacts, BatchMoves
  <1>6. QED
    BY <1>2, <1>3, <1>4, <1>5

(* A commit of another request: rows are changed, removed or added. *)
LEMMA OthersCommit ==
    ASSUME RunsInv, UNCHANGED <<runs, bt>>, rows' \in Seq(Row), Len(rows) <= Len(rows'),
           \A d \in RowIds' :
              \/ KeptRow(d)
              \/ rows'[d].batch = 0 /\ rows'[d].by = 0 /\ (d \in RowIds => ~rows'[d].live)
    PROVE  RunsInv'
  <1>1. TablesInv /\ StoredBy /\ MineOnly
    BY DEF RunsInv
  <1>2. RowIds \subseteq RowIds'
    BY <1>1 DEF TablesInv, RowIds
  <1>3. TablesInv'
    BY <1>1, <1>2 DEF TablesInv
  <1>4. StoredBy'
    <2>1. Len(runs) \in Nat
      BY <1>1 DEF TablesInv
    <2>2. QED
      BY <1>1, <2>1 DEF StoredBy, KeptRow
  <1>5. MineOnly'
    <2>1. \A d \in RowIds' : bt.run # 0 /\ rows'[d].by = bt.run => d \in bt.mine
      BY <1>1 DEF MineOnly, KeptRow
    <2>2. \A d \in bt.mine : rows'[d].live => bt.run # 0 /\ rows'[d].by = bt.run
      <3> SUFFICES ASSUME NEW d \in bt.mine, rows'[d].live
                   PROVE  bt.run # 0 /\ rows'[d].by = bt.run
        OBVIOUS
      <3>1. d \in RowIds /\ d \in RowIds'
        BY <1>1, <1>2 DEF TablesInv
      <3>2. KeptRow(d)
        BY <3>1
      <3>3. QED
        BY <1>1, <3>2 DEF MineOnly, KeptRow
    <2>3. QED
      BY <1>1, <2>1, <2>2 DEF MineOnly
  <1>6. \A d \in RowIds' : KeptRow(d) \/ FreshRow(d)
    BY <1>1 DEF FreshRow, TablesInv
  <1>7. EndedRuns'
    BY <1>3, <1>6, EndedStays
  <1>8. QED
    BY <1>3, <1>4, <1>5, <1>7 DEF RunsInv

LEMMA IngestRuns ==
    ASSUME RunsInv, NEW a \in Arrivals, Ingest(a)
    PROVE  RunsInv'
  <1>1. rows' = Append(rows, NewRow(a, 0)) /\ UNCHANGED <<runs, bt>>
    BY DEF Ingest, Commit
  <1>2. rows \in Seq(Row) /\ NewRow(a, 0) \in Row /\ NewRow(a, 0).batch = 0 /\ NewRow(a, 0).by = 0
    BY EventRowFacts DEF RunsInv, TablesInv
  <1>3. /\ rows' \in Seq(Row) /\ Len(rows') = Len(rows) + 1 /\ Len(rows) \in Nat
        /\ \A d \in RowIds : rows'[d] = rows[d]
        /\ rows'[Len(rows) + 1] = NewRow(a, 0)
    BY <1>1, <1>2 DEF RowIds
  <1>4. \A d \in RowIds' : KeptRow(d) \/ (d \notin RowIds /\ rows'[d].batch = 0 /\ rows'[d].by = 0)
    <2> SUFFICES ASSUME NEW d \in RowIds'
                 PROVE  KeptRow(d) \/ (d \notin RowIds /\ rows'[d].batch = 0 /\ rows'[d].by = 0)
      OBVIOUS
    <2>1. d \in RowIds \/ d = Len(rows) + 1
      BY <1>3 DEF RowIds
    <2>2. CASE d \in RowIds
      BY <1>3, <2>2 DEF KeptRow
    <2>3. CASE d = Len(rows) + 1
      BY <1>2, <1>3, <2>3 DEF RowIds
    <2>4. QED
      BY <2>1, <2>2, <2>3
  <1>5. rows' \in Seq(Row) /\ Len(rows) <= Len(rows')
    BY <1>3
  <1>6. QED
    BY <1>1, <1>4, <1>5, OthersCommit

LEMMA RetryRuns ==
    ASSUME RunsInv, NEW d \in RowIds, NEW s \in {"normalized", "quarantined"}, retry_event(d, s)
    PROVE  RunsInv'
  <1>1. rows' = [rows EXCEPT ![d].status = s] /\ rows[d].live /\ UNCHANGED <<runs, bt>>
    BY DEF retry_event, Commit
  <1>2. rows \in Seq(Row) /\ rows[d] \in Row /\ Len(rows) \in Nat /\ s \in Status
    BY DEF RunsInv, TablesInv, RowIds, Status, Held
  <1> DEFINE r == [rows[d] EXCEPT !.status = s]
  <1>3. /\ rows' = [rows EXCEPT ![d] = r]
        /\ r \in Row /\ r.by = rows[d].by /\ r.batch = rows[d].batch /\ r.live = rows[d].live
    <2>1. r \in Row
      BY <1>1, <1>2, EventRowFacts
    <2>2. r.by = rows[d].by /\ r.batch = rows[d].batch /\ r.live = rows[d].live
      BY <1>2 DEF Row, Gone
    <2>3. QED
      BY <1>1, <2>1, <2>2
  <1> HIDE DEF r
  <1>4. /\ rows' \in Seq(Row) /\ Len(rows') = Len(rows)
        /\ \A e \in RowIds : rows'[e] = IF e = d THEN r ELSE rows[e]
    BY <1>2, <1>3 DEF RowIds
  <1>5. \A e \in RowIds' : KeptRow(e)
    BY <1>3, <1>4 DEF KeptRow, RowIds
  <1>6. QED
    BY <1>1, <1>2, <1>4, <1>5, OthersCommit

LEMMA DeleteRuns ==
    ASSUME RunsInv, NEW S \in SUBSET RowIds, batch_delete_events(S)
    PROVE  RunsInv'
  <1>1. rows' = [d \in RowIds |-> IF d \in S THEN Gone ELSE rows[d]] /\ UNCHANGED <<runs, bt>>
    BY DEF batch_delete_events, Commit
  <1>2. rows \in Seq(Row) /\ Len(rows) \in Nat /\ RowIds = 1 .. Len(rows) /\ Gone \in Row
    BY EventRowFacts DEF RunsInv, TablesInv, RowIds
  <1>3. rows' \in Seq(Row) /\ Len(rows') = Len(rows) /\ RowIds' = RowIds
    <2>1. rows' \in [1 .. Len(rows) -> Row]
      BY <1>1, <1>2
    <2>2. QED
      BY <1>2, <2>1, SeqDef, LenProperties DEF RowIds
  <1>4. \A d \in RowIds' : \/ KeptRow(d)
                           \/ rows'[d].batch = 0 /\ rows'[d].by = 0 /\ ~rows'[d].live
    <2> SUFFICES ASSUME NEW d \in RowIds
                 PROVE  \/ KeptRow(d)
                        \/ rows'[d].batch = 0 /\ rows'[d].by = 0 /\ ~rows'[d].live
      BY <1>3
    <2>1. rows'[d] = IF d \in S THEN Gone ELSE rows[d]
      BY <1>1
    <2>2. QED
      BY <2>1, EventRowFacts DEF KeptRow
  <1>5. QED
    BY <1>1, <1>2, <1>3, <1>4, OthersCommit

(* The run of the batch at work, written by its first commit. *)
LEMMA RunOfBatch ==
    ASSUME RunsInv, RunCommitted
    PROVE  /\ runs' \in Seq(Run) /\ RunId \in 1 .. Len(runs') /\ ~runs'[RunId].ended
           /\ RunId \in Nat \ {0} /\ Len(runs) <= Len(runs') /\ Len(runs) \in Nat
           /\ \A k \in DOMAIN runs' : runs'[k].ended => k \in DOMAIN runs /\ runs'[k] = runs[k]
           /\ bt.run # 0 => RunId = bt.run
           /\ bt.run = 0 => RunId = Len(runs) + 1
  <1>1. /\ runs \in Seq(Run) /\ bt.run \in Nat /\ bt.run <= Len(runs) /\ Len(runs) \in Nat
        /\ bt.run # 0 => ~runs[bt.run].ended
    BY DEF RunsInv, TablesInv, MineOnly, Batch
  <1>2. CASE bt.run = 0
    <2> DEFINE r == [total |-> 0, processed |-> 0, ended |-> FALSE]
    <2>1. runs' = Append(runs, r) /\ r \in Run /\ ~r.ended /\ RunId = Len(runs) + 1
      BY <1>2 DEF RunCommitted, Run, RunId
    <2> HIDE DEF r
    <2>2. /\ runs' \in Seq(Run) /\ Len(runs') = Len(runs) + 1 /\ runs'[Len(runs) + 1] = r
          /\ \A k \in 1 .. Len(runs) : runs'[k] = runs[k]
      BY <1>1, <2>1
    <2>3. \A k \in DOMAIN runs' : k \in DOMAIN runs \/ k = Len(runs) + 1
      BY <1>1, <2>2
    <2>4. \A k \in DOMAIN runs' : runs'[k].ended => k \in DOMAIN runs /\ runs'[k] = runs[k]
      BY <1>1, <2>1, <2>2, <2>3
    <2>5. QED
      BY <1>1, <1>2, <2>1, <2>2, <2>4
  <1>3. CASE bt.run # 0
    <2>1. runs' = runs /\ RunId = bt.run
      BY <1>3 DEF RunCommitted, RunId
    <2>2. QED
      BY <1>1, <1>3, <2>1
  <1>4. QED
    BY <1>2, <1>3

LEMMA StoreRuns ==
    ASSUME RunsInv, NEW a \in Arrivals, StoreLine(a)
    PROVE  RunsInv'
  <1> DEFINE n == Len(rows) + 1
             p == bt.processed + 1
             q == bt.left - 1
             M == bt.mine \cup {n}
  <1>1. /\ RunCommitted /\ bt.left > 0
        /\ rows' = Append(rows, NewRow(a, RunId))
        /\ bt' = [[bt EXCEPT !.run = RunId, !.mine = M] EXCEPT !.left = q, !.processed = p]
    <2>1. Processed([bt EXCEPT !.run = RunId, !.mine = M])
            = [[bt EXCEPT !.run = RunId, !.mine = M] EXCEPT !.left = q, !.processed = p]
      BY DEF Processed, RunsInv, TablesInv, Batch
    <2>2. bt' = Processed([bt EXCEPT !.run = RunId, !.mine = M])
      BY DEF StoreLine
    <2>3. QED
      BY <2>1, <2>2 DEF StoreLine, Commit
  <1>2. TablesInv /\ StoredBy /\ MineOnly
    BY DEF RunsInv
  <1>3. /\ runs' \in Seq(Run) /\ RunId \in 1 .. Len(runs') /\ ~runs'[RunId].ended
        /\ RunId \in Nat \ {0} /\ Len(runs) <= Len(runs') /\ Len(runs) \in Nat
        /\ \A k \in DOMAIN runs' : runs'[k].ended => k \in DOMAIN runs /\ runs'[k] = runs[k]
        /\ bt.run # 0 => RunId = bt.run
        /\ bt.run = 0 => RunId = Len(runs) + 1
    BY <1>1, RunOfBatch
  <1>4. /\ bt \in Batch /\ bt.processed \in Nat /\ bt.left \in Nat /\ bt.lines \in Nat
        /\ bt.mine \subseteq RowIds /\ bt.mine \subseteq Nat
        /\ rows \in Seq(Row) /\ Len(rows) \in Nat /\ RowIds = 1 .. Len(rows)
    BY <1>2 DEF TablesInv, Batch, RowIds
  <1>5. p \in Nat /\ q \in Nat /\ M \subseteq Nat /\ n \in Nat
    BY <1>1, <1>4
  <1>6. /\ bt' \in Batch /\ bt'.run = RunId /\ bt'.mine = M /\ bt'.lines = bt.lines
        /\ bt'.processed = p /\ bt'.left = q
    <2> HIDE DEF p, q, M
    <2> DEFINE i == RunId
    <2>1. i \in Nat
      BY <1>3
    <2> HIDE DEF i
    <2>2. bt' = [[bt EXCEPT !.run = i, !.mine = M] EXCEPT !.left = q, !.processed = p]
      BY <1>1 DEF i
    <2>3. /\ bt' \in Batch /\ bt'.run = i /\ bt'.mine = M /\ bt'.lines = bt.lines
          /\ bt'.processed = p /\ bt'.left = q
      BY <1>4, <1>5, <2>1, <2>2 DEF Batch
    <2>4. QED
      BY <2>3 DEF i
  <1>7. /\ NewRow(a, RunId) \in Row /\ NewRow(a, RunId).batch = 0 /\ NewRow(a, RunId).by = RunId
    BY <1>3, EventRowFacts
  <1>8. /\ rows' \in Seq(Row) /\ Len(rows') = n /\ RowIds' = 1 .. n
        /\ \A d \in RowIds : rows'[d] = rows[d]
        /\ rows'[n].batch = 0 /\ rows'[n].by = RunId
    BY <1>1, <1>4, <1>7 DEF RowIds
  <1>9. \A d \in RowIds' : (d \in RowIds /\ rows'[d] = rows[d]) \/ d = n
    BY <1>4, <1>8
  <1>10. TablesInv'
    <2>1. M \subseteq 1 .. n
      BY <1>4
    <2> HIDE DEF M, n, p, q
    <2>2. QED
      BY <1>3, <1>6, <1>8, <2>1 DEF TablesInv
  <1>11. StoredBy'
    <2> SUFFICES ASSUME NEW d \in RowIds'
                 PROVE  rows'[d].batch \in {0, rows'[d].by} /\ rows'[d].by <= Len(runs')
      BY DEF StoredBy
    <2>1. CASE d \in RowIds /\ rows'[d] = rows[d]
      <3>1. rows[d].batch \in {0, rows[d].by} /\ rows[d].by <= Len(runs)
        BY <1>2, <2>1 DEF StoredBy
      <3>2. rows[d].by \in Nat
        BY <1>4, <2>1, EventRowFacts
      <3>3. QED
        BY <1>3, <2>1, <3>1, <3>2
    <2>2. CASE d = n
      BY <1>3, <1>8, <2>2
    <2>3. QED
      BY <1>9, <2>1, <2>2
  <1>12. MineOnly'
    <2>1. bt'.run # 0 => ~runs'[bt'.run].ended
      BY <1>3, <1>6
    <2>2. ASSUME NEW d \in RowIds', rows'[d].by = RunId PROVE d \in M
      <3>1. CASE d \in RowIds /\ rows'[d] = rows[d]
        <4>1. rows[d].by = RunId /\ rows[d].by <= Len(runs)
          BY <1>2, <2>2, <3>1 DEF StoredBy
        <4>2. bt.run # 0
          BY <1>3, <4>1
        <4>3. QED
          BY <1>2, <1>3, <3>1, <4>1, <4>2 DEF MineOnly
      <3>2. QED
        BY <1>9, <3>1
    <2>3. ASSUME NEW d \in M, rows'[d].live PROVE rows'[d].by = RunId
      <3>1. CASE d \in bt.mine
        <4>1. d \in RowIds /\ rows'[d] = rows[d]
          BY <1>4, <1>8, <3>1
        <4>2. QED
          BY <1>2, <1>3, <2>3, <3>1, <4>1 DEF MineOnly
      <3>2. CASE d = n
        BY <1>8, <3>2
      <3>3. QED
        BY <3>1, <3>2
    <2>4. IsFiniteSet(M) /\ Cardinality(M) <= p
      <3>1. IsFiniteSet(bt.mine) /\ Cardinality(bt.mine) <= bt.processed
        BY <1>2 DEF MineOnly
      <3>2. Cardinality(bt.mine) \in Nat
        BY <3>1, FS_CardinalityType
      <3>3. IsFiniteSet(M) /\ Cardinality(M) <= Cardinality(bt.mine) + 1
        <4>1. /\ IsFiniteSet(M)
              /\ Cardinality(M) = IF n \in bt.mine THEN Cardinality(bt.mine)
                                 ELSE Cardinality(bt.mine) + 1
          BY <3>1, FS_AddElement
        <4> HIDE DEF M
        <4>2. QED
          BY <3>2, <4>1
      <3>4. Cardinality(M) \in Nat
        BY <3>3, FS_CardinalityType
      <3> HIDE DEF M
      <3>5. QED
        BY <1>4, <3>1, <3>2, <3>3, <3>4
    <2>5. p + q <= bt.lines
      BY <1>2, <1>4 DEF MineOnly
    <2> HIDE DEF M, n, p, q
    <2>6. QED
      BY <1>3, <1>6, <2>1, <2>2, <2>3, <2>4, <2>5 DEF MineOnly
  <1>13. \A d \in RowIds' : KeptRow(d) \/ FreshRow(d)
    <2> SUFFICES ASSUME NEW d \in RowIds' PROVE KeptRow(d) \/ FreshRow(d)
      OBVIOUS
    <2>1. CASE d \in RowIds /\ rows'[d] = rows[d]
      BY <2>1 DEF KeptRow
    <2>2. CASE d = n
      BY <1>3, <1>8, <2>2 DEF FreshRow
    <2>3. QED
      BY <1>9, <2>1, <2>2
  <1>14. EndedRuns'
    BY <1>3, <1>10, <1>13, EndedStays
  <1>15. QED
    BY <1>10, <1>11, <1>12, <1>14 DEF RunsInv

LEMMA FinishRuns ==
    ASSUME RunsInv, FinishBatch
    PROVE  RunsInv'
  <1> DEFINE i == RunId
             Joined(d) == IF d \in bt.mine /\ rows[d].live
                          THEN [rows[d] EXCEPT !.batch = i] ELSE rows[d]
             row == [total |-> bt.lines, processed |-> bt.processed, ended |-> TRUE]
  <1>1. TablesInv /\ StoredBy /\ MineOnly /\ EndedRuns
    BY DEF RunsInv
  <1>2. /\ bt \in Batch /\ bt.processed \in Nat /\ bt.left \in Nat /\ bt.lines \in Nat
        /\ bt.run \in Nat /\ bt.run <= Len(runs) /\ runs \in Seq(Run) /\ Len(runs) \in Nat
        /\ rows \in Seq(Row) /\ Len(rows) \in Nat /\ RowIds = 1 .. Len(rows)
    BY <1>1 DEF TablesInv, Batch, RowIds
  <1>3. /\ rows' = [d \in RowIds |-> Joined(d)]
        /\ runs' = IF bt.run = 0 THEN Append(runs, row) ELSE [runs EXCEPT ![bt.run] = row]
        /\ bt' = NoBatch /\ bt.left = 0
    BY DEF FinishBatch, Commit
  <1>4. i \in Nat \ {0} /\ (bt.run # 0 => i = bt.run) /\ (bt.run = 0 => i = Len(runs) + 1)
    BY <1>2 DEF RunId
  <1>5. row \in Run /\ row.total = bt.lines /\ row.processed = bt.processed /\ row.ended
    BY <1>2 DEF Run
  <1> HIDE DEF i, row
  <1>6. /\ runs' \in Seq(Run) /\ i \in DOMAIN runs' /\ runs'[i] = row
        /\ Len(runs) <= Len(runs') /\ DOMAIN runs' = 1 .. Len(runs') /\ Len(runs') \in Nat
        /\ \A k \in DOMAIN runs' : k # i => k \in DOMAIN runs /\ runs'[k] = runs[k]
    <2>1. CASE bt.run = 0
      <3>1. /\ runs' \in Seq(Run) /\ Len(runs') = Len(runs) + 1 /\ runs'[Len(runs) + 1] = row
            /\ \A k \in 1 .. Len(runs) : runs'[k] = runs[k]
        BY <1>2, <1>3, <1>5, <2>1
      <3>2. QED
        BY <1>2, <1>4, <2>1, <3>1
    <2>2. CASE bt.run # 0
      <3>1. /\ runs' \in Seq(Run) /\ Len(runs') = Len(runs) /\ runs'[bt.run] = row
            /\ \A k \in 1 .. Len(runs) : k # bt.run => runs'[k] = runs[k]
        BY <1>2, <1>3, <1>5, <2>2
      <3>2. QED
        BY <1>2, <1>4, <2>2, <3>1
    <2>3. QED
      BY <2>1, <2>2
  <1>7. ASSUME NEW d \in RowIds
        PROVE  /\ Joined(d) \in Row /\ Joined(d).by = rows[d].by /\ Joined(d).live = rows[d].live
               /\ d \in bt.mine /\ rows[d].live => Joined(d).batch = i
               /\ ~(d \in bt.mine /\ rows[d].live) => Joined(d).batch = rows[d].batch
    <2>1. rows[d] \in Row
      BY <1>2
    <2>2. CASE d \in bt.mine /\ rows[d].live
      <3>1. Joined(d) = [rows[d] EXCEPT !.batch = i]
        BY <2>2
      <3>2. [rows[d] EXCEPT !.batch = i] \in Row
        BY <1>4, <2>1, <2>2, EventRowFacts
      <3>3. /\ [rows[d] EXCEPT !.batch = i].by = rows[d].by
            /\ [rows[d] EXCEPT !.batch = i].live = rows[d].live
            /\ [rows[d] EXCEPT !.batch = i].batch = i
        BY <2>1 DEF Row, Gone
      <3>4. QED
        BY <2>2, <3>1, <3>2, <3>3
    <2>3. CASE ~(d \in bt.mine /\ rows[d].live)
      BY <2>1, <2>3
    <2>4. QED
      BY <2>2, <2>3
  <1> HIDE DEF Joined
  <1>8. /\ rows' \in Seq(Row) /\ Len(rows') = Len(rows) /\ RowIds' = RowIds
        /\ \A d \in RowIds : rows'[d] = Joined(d)
    <2>1. rows' \in [1 .. Len(rows) -> Row]
      BY <1>2, <1>3, <1>7
    <2>2. rows' \in Seq(Row) /\ Len(rows') = Len(rows)
      BY <1>2, <2>1, SeqDef, LenProperties
    <2>3. QED
      BY <1>2, <1>3, <2>2 DEF RowIds
  <1>9. TablesInv'
    BY <1>3, <1>6, <1>8, NoBatchFacts DEF TablesInv
  <1>10. \A d \in RowIds : d \in bt.mine /\ rows[d].live => rows[d].by = i
    BY <1>1, <1>4 DEF MineOnly
  <1>11. StoredBy'
    <2> SUFFICES ASSUME NEW d \in RowIds
                 PROVE  rows'[d].batch \in {0, rows'[d].by} /\ rows'[d].by <= Len(runs')
      BY <1>8 DEF StoredBy
    <2>1. rows[d].batch \in {0, rows[d].by} /\ rows[d].by <= Len(runs)
      BY <1>1 DEF StoredBy
    <2>2. rows[d].by \in Nat
      BY <1>2, EventRowFacts
    <2>3. QED
      BY <1>2, <1>6, <1>7, <1>8, <1>10, <2>1, <2>2
  <1>12. MineOnly'
    BY <1>3, NoBatchFacts, FS_EmptySet DEF MineOnly
  <1>13. ASSUME NEW k \in DOMAIN runs', runs'[k].ended
         PROVE  /\ \A d \in RowIds' : rows'[d].by = k => rows'[d].batch = k
                /\ Cardinality(Under(k)') <= runs'[k].processed
                /\ runs'[k].processed <= runs'[k].total
    <2>1. CASE k = i
      <3>1. \A d \in RowIds : rows[d].by = i => d \in bt.mine
        <4> SUFFICES ASSUME NEW d \in RowIds, rows[d].by = i PROVE d \in bt.mine
          OBVIOUS
        <4>1. rows[d].by <= Len(runs)
          BY <1>1 DEF StoredBy
        <4>2. bt.run # 0
          BY <1>2, <1>4, <4>1
        <4>3. QED
          BY <1>1, <1>4, <4>2 DEF MineOnly
      <3>2. \A d \in RowIds : rows[d].by = i => rows[d].live
        <4> SUFFICES ASSUME NEW d \in RowIds, ~rows[d].live PROVE rows[d].by # i
          OBVIOUS
        <4>1. rows[d] = Gone
          <5>1. rows[d] \in Row
            BY <1>2
          <5>2. QED
            BY <5>1 DEF Row
        <4>2. QED
          BY <1>4, <4>1, EventRowFacts
      <3>3. \A d \in RowIds' : rows'[d].by = k => rows'[d].batch = k
        BY <1>7, <1>8, <2>1, <3>1, <3>2
      <3>4. Under(k)' \subseteq bt.mine
        <4> SUFFICES ASSUME NEW d \in RowIds, rows'[d].batch = i, rows'[d].live
                     PROVE  d \in bt.mine
          BY <1>8, <2>1 DEF Under
        <4>1. CASE rows[d].batch = i
          <5>1. rows[d].by = i
            BY <1>1, <1>4, <4>1 DEF StoredBy
          <5>2. QED
            BY <3>1, <5>1
        <4>2. CASE rows[d].batch # i
          BY <1>7, <1>8, <4>2
        <4>3. QED
          BY <4>1, <4>2
      <3>5. Cardinality(Under(k)') <= bt.processed
        <4>1. IsFiniteSet(bt.mine) /\ Cardinality(bt.mine) <= bt.processed
          BY <1>1 DEF MineOnly
        <4>2. IsFiniteSet(Under(k)') /\ Cardinality(Under(k)') <= Cardinality(bt.mine)
          BY <3>4, <4>1, FS_Subset
        <4>3. Cardinality(Under(k)') \in Nat /\ Cardinality(bt.mine) \in Nat
          BY <4>1, <4>2, FS_CardinalityType
        <4>4. QED
          BY <1>2, <4>1, <4>2, <4>3
      <3>6. bt.processed <= bt.lines
        BY <1>1, <1>2 DEF MineOnly
      <3>7. QED
        BY <1>5, <1>6, <2>1, <3>3, <3>5, <3>6
    <2>2. CASE k # i
      <3>1. k \in DOMAIN runs /\ runs'[k] = runs[k] /\ runs[k].ended /\ k # 0
        BY <1>2, <1>6, <1>13, <2>2
      <3>2. /\ \A d \in RowIds : rows[d].by = k => rows[d].batch = k
            /\ Cardinality(Under(k)) <= runs[k].processed
            /\ runs[k].processed <= runs[k].total
        BY <1>1, <3>1 DEF EndedRuns
      <3>3. \A d \in RowIds : rows'[d].batch = k => rows[d].batch = k
        BY <1>7, <1>8, <2>2
      <3>4. \A d \in RowIds' : rows'[d].by = k => rows'[d].batch = k
        BY <1>7, <1>8, <1>10, <2>2, <3>2
      <3>5. Under(k)' \subseteq Under(k)
        BY <1>7, <1>8, <3>3 DEF Under
      <3>6. Cardinality(Under(k)') <= runs[k].processed
        <4>1. IsFiniteSet(Under(k)) /\ Cardinality(Under(k)) \in Nat
          BY <1>1, UnderFinite
        <4>2. IsFiniteSet(Under(k)') /\ Cardinality(Under(k)') <= Cardinality(Under(k))
          BY <3>5, <4>1, FS_Subset
        <4>3. Cardinality(Under(k)') \in Nat
          BY <4>2, FS_CardinalityType
        <4>4. runs[k].processed \in Nat
          <5>1. runs[k] \in Run
            BY <1>2, <3>1
          <5>2. QED
            BY <5>1 DEF Run
        <4>5. QED
          BY <3>2, <4>1, <4>2, <4>3, <4>4
      <3>7. QED
        BY <3>1, <3>2, <3>4, <3>6
    <2>3. QED
      BY <2>1, <2>2
  <1>14. EndedRuns'
    BY <1>13, Zenon DEF EndedRuns
  <1>15. QED
    BY <1>9, <1>11, <1>12, <1>14 DEF RunsInv

LEMMA RunsInit == ViewsInit => RunsInv
  <1> SUFFICES ASSUME ViewsInit PROVE RunsInv
    OBVIOUS
  <1>1. rows = <<>> /\ runs = <<>> /\ bt = NoBatch
    BY DEF ViewsInit
  <1>2. RowIds = {} /\ DOMAIN runs = {}
    BY <1>1 DEF RowIds
  <1>3. TablesInv
    BY <1>1, NoBatchFacts DEF TablesInv
  <1>4. StoredBy /\ EndedRuns
    BY <1>2 DEF StoredBy, EndedRuns
  <1>5. MineOnly
    BY <1>1, <1>2, NoBatchFacts, FS_EmptySet DEF MineOnly
  <1>6. QED
    BY <1>3, <1>4, <1>5 DEF RunsInv

ReaderStep ==
    \/ \E f \in Filters, lim \in Limits : _run_export(f, <<>>, lim, "export")
    \/ \E f \in Filters, lim \in Limits, ids \in Pinned : _run_export(f, ids, lim, "ids")
    \/ CountTotal \/ CountNormalized \/ NextPage \/ NextPinned \/ Close
    \/ \E f \in Filters : event_groups(f)
    \/ ScanPage
    \/ \E k \in DOMAIN runs : batch_groups(k)
    \/ \E g \in Range(rd.groups), lim \in Limits : DownloadType(g, lim)
BatchStep ==
    \/ \E n \in BatchSizes : process_batch(n)
    \/ \E d \in RowIds : ReplayLine(d)
    \/ FailLine \/ BatchDies
CommitStep ==
    \/ \E a \in Arrivals : StoreLine(a) \/ Ingest(a)
    \/ \E d \in RowIds, s \in {"normalized", "quarantined"} : retry_event(d, s)
    \/ FinishBatch
    \/ \E S \in SUBSET RowIds : batch_delete_events(S)

LEMMA StepKinds == ViewsNext => ReaderStep \/ BatchStep \/ CommitStep
  BY DEF ViewsNext, ReaderStep, BatchStep, CommitStep

LEMMA ReadersOnlyRead == ReaderStep => UNCHANGED <<rows, runs, bt>>
  BY DEF ReaderStep, _run_export, CountTotal, CountNormalized, NextPage, NextPinned, Close,
         event_groups, ScanPage, batch_groups, DownloadType

LEMMA RunsNext ==
    ASSUME RunsInv, [ViewsNext]_viewVars
    PROVE  RunsInv'
  <1>1. CASE ReaderStep
    BY <1>1, ReadersOnlyRead, SameTables
  <1>2. CASE BatchStep
    BY <1>2, BetweenCommits DEF BatchStep
  <1>3. CASE CommitStep
    BY <1>3, StoreRuns, IngestRuns, RetryRuns, FinishRuns, DeleteRuns DEF CommitStep
  <1>4. CASE UNCHANGED viewVars
    BY <1>4, SameTables DEF viewVars
  <1>5. QED
    BY <1>1, <1>2, <1>3, <1>4, StepKinds

LEMMA SpecRuns == ViewsSpec => []RunsInv
  <1>1. ViewsInit => RunsInv
    BY RunsInit
  <1>2. RunsInv /\ [ViewsNext]_viewVars => RunsInv'
    BY RunsNext
  <1>3. QED
    BY <1>1, <1>2, PTL DEF ViewsSpec

(* A batch run lists rows it stored and no others, all of them once it has *)
(* ended, and no more than it processed, whatever is replayed, retried,    *)
(* purged or lost in a crash (process_batch, list_batches).                *)
THEOREM RunTheorem == ViewsSpec => []RunOwnsItsRows
  <1>1. RunsInv => RunOwnsItsRows
    <2> SUFFICES ASSUME RunsInv PROVE RunOwnsItsRows
      OBVIOUS
    <2>1. TablesInv /\ StoredBy /\ EndedRuns
      BY DEF RunsInv
    <2>2. ASSUME NEW k \in DOMAIN runs, runs[k].ended
          PROVE  /\ \A d \in RowIds : rows[d].by = k => rows[d].batch = k
                 /\ list_batches(k).live_normalized + list_batches(k).live_held
                      <= runs[k].processed
                 /\ runs[k].processed <= runs[k].total
      <3> DEFINE A == {d \in RowIds : rows[d].batch = k /\ rows[d].live
                                        /\ rows[d].status \in {"normalized"}}
                 B == {d \in RowIds : rows[d].batch = k /\ rows[d].live
                                        /\ rows[d].status \in Held}
      <3>1. list_batches(k).live_normalized = Cardinality(A)
            /\ list_batches(k).live_held = Cardinality(B)
        BY DEF list_batches
      <3>2. A \cup B \subseteq Under(k) /\ A \cap B = {}
        BY DEF Under, Held
      <3> HIDE DEF A, B
      <3>3. IsFiniteSet(Under(k)) /\ Cardinality(Under(k)) \in Nat
        BY <2>1, UnderFinite
      <3>4. IsFiniteSet(A) /\ IsFiniteSet(B) /\ IsFiniteSet(A \cup B)
        BY <3>2, <3>3, FS_Subset
      <3>5. Cardinality(A \cup B) <= Cardinality(Under(k))
        BY <3>2, <3>3, FS_Subset
      <3>6. Cardinality(A \cup B) = Cardinality(A) + Cardinality(B)
        <4>1. Cardinality(A \cup B) = Cardinality(A) + Cardinality(B) - Cardinality(A \cap B)
          BY <3>4, FS_Union
        <4>2. Cardinality(A \cap B) = 0 /\ Cardinality(A) \in Nat /\ Cardinality(B) \in Nat
          BY <3>2, <3>4, FS_EmptySet, FS_CardinalityType
        <4>3. QED
          BY <4>1, <4>2
      <3>7. Cardinality(A) \in Nat /\ Cardinality(B) \in Nat
        BY <3>4, FS_CardinalityType
      <3>8. /\ \A d \in RowIds : rows[d].by = k => rows[d].batch = k
            /\ Cardinality(Under(k)) <= runs[k].processed
            /\ runs[k].processed <= runs[k].total
        BY <2>1, <2>2 DEF EndedRuns
      <3>9. runs[k].processed \in Nat
        <4>1. runs[k] \in Run
          BY <2>1 DEF TablesInv
        <4>2. QED
          BY <4>1 DEF Run
      <3>10. Cardinality(A) + Cardinality(B) <= runs[k].processed
        BY <3>3, <3>5, <3>6, <3>7, <3>8, <3>9
      <3>11. QED
        BY <3>1, <3>8, <3>10
    <2>3. QED
      BY <2>1, <2>2, Zenon DEF RunOwnsItsRows, StoredBy
  <1>2. QED
    BY <1>1, SpecRuns, PTL

-----------------------------------------------------------------------------
(* Pages *)

LEMMA SliceFacts ==
    ASSUME NEW T, NEW s \in Seq(T), NEW k \in Nat, NEW n \in Nat
    PROVE  /\ Slice(s, k, n) \in Seq(T) /\ Len(Slice(s, k, n)) \in Nat
           /\ Len(Slice(s, k, n)) <= n
           /\ Len(Slice(s, k, n)) # 0 => k + Len(Slice(s, k, n)) <= Len(s)
           /\ Len(Slice(s, k, n)) < n => k + Len(Slice(s, k, n)) >= Len(s)
           /\ \A i \in 1 .. Len(Slice(s, k, n)) :
                 k + i \in 1 .. Len(s) /\ Slice(s, k, n)[i] = s[k + i]
  <1> DEFINE m == Min({k + n, Len(s)})
             p == SubSeq(s, k + 1, m)
  <1>1. Len(s) \in Nat /\ k + n \in Nat
    OBVIOUS
  <1>2. m \in {k + n, Len(s)} /\ m <= k + n /\ m <= Len(s)
    BY <1>1, NumbersHaveMin
  <1>3. Slice(s, k, n) = p
    BY DEF Slice
  <1> HIDE DEF m
  <1>4. m \in Nat
    BY <1>1, <1>2
  <1>5. \A i \in k + 1 .. m : s[i] \in T
    BY <1>1, <1>2, <1>4
  <1>6. /\ p \in Seq(T)
        /\ Len(p) = IF k + 1 <= m THEN m - (k + 1) + 1 ELSE 0
        /\ \A i \in 1 .. m - (k + 1) + 1 : p[i] = s[k + 1 + i - 1]
    <2>1. k + 1 \in Int /\ m \in Int
      BY <1>4
    <2> DEFINE a == k + 1
    <2> HIDE DEF p
    <2>2. a \in Int /\ p = SubSeq(s, a, m) /\ \A i \in a .. m : s[i] \in T
      BY <1>5, <2>1 DEF p
    <2> HIDE DEF a
    <2>3. /\ p \in Seq(T)
          /\ Len(p) = IF a <= m THEN m - a + 1 ELSE 0
          /\ \A i \in 1 .. m - a + 1 : p[i] = s[a + i - 1]
      BY <2>1, <2>2, SubSeqProperties
    <2>4. QED
      BY <2>3 DEF a
  <1> HIDE DEF p
  <1>7. Len(p) = IF k < m THEN m - k ELSE 0
    BY <1>4, <1>6
  <1>8. /\ Len(p) \in Nat /\ Len(p) <= n
        /\ Len(p) # 0 => k + Len(p) <= Len(s)
        /\ Len(p) < n => k + Len(p) >= Len(s)
    BY <1>1, <1>2, <1>4, <1>7
  <1>9. ASSUME NEW i \in 1 .. Len(p) PROVE k + i \in 1 .. Len(s) /\ p[i] = s[k + i]
    <2>1. k < m /\ i \in 1 .. m - (k + 1) + 1 /\ k + 1 + i - 1 = k + i
      BY <1>4, <1>7
    <2>2. p[i] = s[k + i]
      BY <1>6, <2>1
    <2>3. QED
      BY <1>1, <1>2, <1>4, <2>1, <2>2
  <1>10. QED
    BY <1>3, <1>6, <1>8, <1>9

LEMMA SeqWidens ==
    ASSUME NEW T, NEW S \in SUBSET T, NEW s \in Seq(S)
    PROVE  s \in Seq(T)
  <1>1. Len(s) \in Nat /\ s \in [1 .. Len(s) -> S]
    BY SeqDef, LenProperties
  <1>2. s \in [1 .. Len(s) -> T]
    BY <1>1
  <1>3. QED
    BY <1>1, <1>2, SeqDef

(* A stretch of an order is in order, *)
LEMMA SliceFalls ==
    ASSUME NEW s \in Seq(Nat), Falls(s), NEW k \in Nat, NEW n \in Nat
    PROVE  Falls(Slice(s, k, n))
  <1> DEFINE p == Slice(s, k, n)
  <1>1. /\ p \in Seq(Nat) /\ Len(p) \in Nat
        /\ \A i \in 1 .. Len(p) : k + i \in 1 .. Len(s) /\ p[i] = s[k + i]
    BY SliceFacts
  <1> HIDE DEF p
  <1>2. ASSUME NEW i \in 1 .. Len(p), NEW j \in 1 .. Len(p), i < j PROVE p[i] > p[j]
    <2>1. k + i \in 1 .. Len(s) /\ k + j \in 1 .. Len(s)
      BY <1>1, <1>2
    <2>2. i \in Nat /\ j \in Nat /\ DOMAIN s = 1 .. Len(s)
      BY <1>1, <1>2
    <2>3. k + i < k + j
      BY <1>2, <2>2
    <2>4. s[k + i] > s[k + j]
      BY <2>1, <2>2, <2>3 DEF Falls
    <2>5. QED
      BY <1>1, <1>2, <2>4
  <1>3. DOMAIN p = 1 .. Len(p)
    BY <1>1
  <1>4. Falls(p)
    BY <1>2, <1>3 DEF Falls
  <1>5. QED
    BY <1>4 DEF p

(* and two of them are when one ends above the other. *)
LEMMA ConcatFacts ==
    ASSUME NEW T, NEW s \in Seq(T), NEW t \in Seq(T)
    PROVE  s \o t \in Seq(T) /\ Range(s \o t) = Range(s) \cup Range(t)
  <1>1. /\ s \o t \in Seq(T) /\ Len(s \o t) = Len(s) + Len(t)
        /\ \A i \in 1 .. Len(s) + Len(t) : (s \o t)[i] = IF i <= Len(s) THEN s[i] ELSE t[i - Len(s)]
        /\ Len(s) \in Nat /\ Len(t) \in Nat
    BY ConcatProperties
  <1> DEFINE c == s \o t
  <1> HIDE DEF c
  <1>2. DOMAIN c = 1 .. Len(s) + Len(t) /\ DOMAIN s = 1 .. Len(s) /\ DOMAIN t = 1 .. Len(t)
    BY <1>1 DEF c
  <1>3. \A i \in DOMAIN s : i \in DOMAIN c /\ c[i] = s[i]
    BY <1>1, <1>2 DEF c
  <1>4. \A i \in DOMAIN t : i + Len(s) \in DOMAIN c /\ c[i + Len(s)] = t[i]
    BY <1>1, <1>2 DEF c
  <1>5. ASSUME NEW i \in DOMAIN c PROVE c[i] \in Range(s) \cup Range(t)
    <2>1. CASE i <= Len(s)
      <3>1. i \in DOMAIN s /\ c[i] = s[i]
        BY <1>1, <1>2, <2>1 DEF c
      <3>2. QED
        BY <3>1 DEF Range
    <2>2. CASE i > Len(s)
      <3>1. i - Len(s) \in DOMAIN t /\ c[i] = t[i - Len(s)]
        BY <1>1, <1>2, <2>2 DEF c
      <3>2. QED
        BY <3>1 DEF Range
    <2>3. QED
      BY <1>1, <1>2, <2>1, <2>2
  <1>6. Range(c) = Range(s) \cup Range(t)
    <2>1. Range(s) \subseteq Range(c)
      BY <1>3 DEF Range
    <2>2. Range(t) \subseteq Range(c)
      BY <1>4 DEF Range
    <2>3. Range(c) \subseteq Range(s) \cup Range(t)
      BY <1>5 DEF Range
    <2>4. QED
      BY <2>1, <2>2, <2>3
  <1>7. QED
    BY <1>1, <1>6 DEF c

LEMMA ConcatFalls ==
    ASSUME NEW s \in Seq(Nat), NEW t \in Seq(Nat), Falls(s), Falls(t),
           \A i \in DOMAIN s, j \in DOMAIN t : s[i] > t[j]
    PROVE  Falls(s \o t)
  <1> DEFINE c == s \o t
  <1>1. /\ c \in Seq(Nat) /\ Len(c) = Len(s) + Len(t)
        /\ \A i \in 1 .. Len(s) + Len(t) : c[i] = IF i <= Len(s) THEN s[i] ELSE t[i - Len(s)]
        /\ Len(s) \in Nat /\ Len(t) \in Nat
    BY ConcatProperties
  <1> HIDE DEF c
  <1>2. DOMAIN c = 1 .. Len(s) + Len(t) /\ DOMAIN s = 1 .. Len(s) /\ DOMAIN t = 1 .. Len(t)
    BY <1>1
  <1>3. /\ \A i \in DOMAIN c : i <= Len(s) => i \in DOMAIN s /\ c[i] = s[i]
        /\ \A i \in DOMAIN c : i > Len(s) => i - Len(s) \in DOMAIN t /\ c[i] = t[i - Len(s)]
        /\ \A i \in DOMAIN c : i \in Nat
    BY <1>1, <1>2
  <1>4. ASSUME NEW i \in DOMAIN c, NEW j \in DOMAIN c, i < j PROVE c[i] > c[j]
    <2> DEFINE n == Len(s)
               a == i - n
               b == j - n
    <2>1. n \in Nat /\ i \in Nat /\ j \in Nat
      BY <1>1, <1>3
    <2>2. CASE j <= n
      <3>1. i <= n
        BY <1>4, <2>1, <2>2
      <3>2. i \in DOMAIN s /\ j \in DOMAIN s /\ c[i] = s[i] /\ c[j] = s[j]
        BY <1>3, <2>2, <3>1
      <3>3. QED
        BY <1>4, <3>2 DEF Falls
    <2>3. CASE i <= n /\ j > n
      <3>1. i \in DOMAIN s /\ b \in DOMAIN t /\ c[i] = s[i] /\ c[j] = t[b]
        BY <1>3, <2>3
      <3> HIDE DEF b
      <3>2. s[i] > t[b]
        BY <3>1
      <3>3. QED
        BY <3>1, <3>2
    <2>4. CASE i > n
      <3>1. j > n /\ a < b
        BY <1>4, <2>1, <2>4
      <3>2. a \in DOMAIN t /\ b \in DOMAIN t /\ c[i] = t[a] /\ c[j] = t[b]
        BY <1>3, <2>4, <3>1
      <3> HIDE DEF a, b
      <3>3. t[a] > t[b]
        BY <3>1, <3>2 DEF Falls
      <3>4. QED
        BY <3>2, <3>3
    <2>5. QED
      BY <2>1, <2>2, <2>3, <2>4
  <1>5. Falls(c)
    BY <1>4 DEF Falls
  <1>6. QED
    BY <1>5 DEF c

(* The first rows of a set, newest first: with one of them come all that   *)
(* are newer, and a page that is not full holds all there is.              *)
LEMMA PageFacts ==
    ASSUME NEW S \in SUBSET Nat, IsFiniteSet(S), NEW n \in Nat
    PROVE  LET p == FirstOf(NewestFirst(S), n)
           IN  /\ p \in Seq(S) /\ p \in Seq(Nat) /\ Len(p) \in Nat /\ Falls(p)
               /\ Len(p) <= n /\ Len(p) <= Cardinality(S) /\ Range(p) \subseteq S
               /\ Len(p) < n => Range(p) = S /\ Len(p) = Cardinality(S)
               /\ Len(p) # 0 => \A d \in S : d >= p[Len(p)] => d \in Range(p)
  <1> DEFINE N == NewestFirst(S)
             p == FirstOf(N, n)
  <1>1. /\ N \in Seq(S) /\ N \in Seq(Nat) /\ Len(N) = Cardinality(S) /\ Len(N) \in Nat
        /\ Falls(N) /\ Range(N) = S
    <2>1. /\ N \in Seq(S) /\ Len(N) = Cardinality(S) /\ Cardinality(S) \in Nat
          /\ Falls(N) /\ Range(N) = S
      BY NewestFacts
    <2> HIDE DEF N
    <2>2. N \in Seq(Nat)
      BY <2>1, SeqWidens
    <2>3. QED
      BY <2>1, <2>2
  <1> HIDE DEF N
  <1>2. /\ p \in Seq(S) /\ Len(p) \in Nat /\ Len(p) <= n
        /\ Len(p) # 0 => 0 + Len(p) <= Len(N)
        /\ Len(p) < n => 0 + Len(p) >= Len(N)
        /\ \A i \in 1 .. Len(p) : 0 + i \in 1 .. Len(N) /\ p[i] = N[0 + i]
    <2>1. p = Slice(N, 0, n)
      BY DEF FirstOf
    <2> HIDE DEF p
    <2>2. QED
      BY <1>1, <2>1, SliceFacts
  <1>3. Falls(p)
    BY <1>1, SliceFalls DEF FirstOf
  <1> HIDE DEF p
  <1>4. /\ Len(p) <= Len(N) /\ (Len(p) < n => Len(p) = Len(N))
        /\ \A i \in 1 .. Len(p) : i \in 1 .. Len(N) /\ p[i] = N[i]
    BY <1>1, <1>2
  <1>5. Range(p) \subseteq S
    BY <1>2 DEF Range
  <1>6. ASSUME Len(p) < n PROVE S \subseteq Range(p)
    <2>1. \A i \in DOMAIN N : i \in DOMAIN p /\ p[i] = N[i]
      BY <1>1, <1>2, <1>4, <1>6
    <2>2. QED
      BY <1>1, <2>1 DEF Range
  <1>7. ASSUME Len(p) # 0, NEW d \in S, d >= p[Len(p)] PROVE d \in Range(p)
    <2>1. PICK i \in DOMAIN N : N[i] = d
      BY <1>1 DEF Range
    <2>2. i \in 1 .. Len(N) /\ Len(p) \in 1 .. Len(N) /\ p[Len(p)] = N[Len(p)]
      BY <1>1, <1>2, <1>4, <1>7
    <2>3. i <= Len(p)
      <3> SUFFICES ASSUME Len(p) < i PROVE FALSE
        BY <1>2, <2>2
      <3>1. N[Len(p)] > N[i] /\ N[Len(p)] \in Nat /\ N[i] \in Nat
        BY <1>1, <2>2 DEF Falls
      <3>2. QED
        BY <1>7, <2>1, <2>2, <3>1
    <2>4. i \in DOMAIN p /\ p[i] = d
      BY <1>2, <1>4, <2>1, <2>2, <2>3
    <2>5. QED
      BY <2>4 DEF Range
  <1>8. p \in Seq(Nat)
    BY <1>2, SeqWidens
  <1>9. QED
    BY <1>1, <1>2, <1>3, <1>4, <1>5, <1>6, <1>7, <1>8 DEF p, N
-----------------------------------------------------------------------------
(* A reader of the table *)

Shape == {a.shape : a \in Arrivals} \cup {NoEnv}
Group == [ids : Seq(Nat), count : Nat]
RunFilter == [env : {NoEnv}, statuses : {{}}, batch : Nat]
Grouping == UNION {[D -> Group] : D \in SUBSET Shape}
Reader == [op : {"none", "export", "ids", "groups", "types"},
           pc : {"idle", "total", "normalized", "page", "scan", "done"},
           filter : Filters \cup RunFilter, ids : Seq(Nat), limit : Nat \cup {NoLimit},
           total : Nat, normalized : Nat, last : Nat, offset : Nat, shipped : Seq(Nat),
           groups : Grouping, steady : SUBSET Nat, quiet : BOOLEAN]

(* Which request is where. *)
Phases ==
    /\ rd \in Reader
    /\ rd.pc = "idle" => rd = NoReader
    /\ rd.pc \in {"total", "normalized", "page"} => rd.op \in {"export", "ids"}
    /\ rd.pc = "scan" => rd.op = "groups"
    /\ rd.op = "types" => rd.pc = "done"
    /\ rd.pc = "total" => rd.steady = {}
    /\ rd.pc \in {"total", "normalized"} => rd.shipped = <<>> /\ rd.last = 0 /\ rd.offset = 0
    /\ rd.steady \subseteq Matching(rd)

(* What an export by filters has shipped: everything steady from the last  *)
(* id up, in order; a pinned one, everything steady of its list so far.    *)
Walked ==
    /\ rd.op = "export" =>
         Falls(rd.shipped) /\ (rd.limit # NoLimit => Len(rd.shipped) <= rd.limit)
    /\ rd.op = "export" /\ rd.pc = "page" =>
         /\ rd.last = 0 => rd.shipped = <<>>
         /\ \A d \in Range(rd.shipped) : d >= rd.last
         /\ rd.limit = NoLimit =>
              \A d \in rd.steady : rd.last # 0 /\ d >= rd.last => d \in Range(rd.shipped)
    /\ rd.op = "ids" /\ rd.pc = "page" =>
         /\ rd.offset <= Len(Wanted)
         /\ \A i \in 1 .. rd.offset : Wanted[i] \in rd.steady => Wanted[i] \in Range(rd.shipped)
    /\ rd.pc = "done" /\ rd.op \in {"export", "ids"} /\ (rd.op = "export" => rd.limit = NoLimit) =>
         rd.steady \subseteq Range(rd.shipped)

WalkInv == Phases /\ Walked

LEMMA RowSets ==
    ASSUME rows \in Seq(Row), NEW S \in SUBSET RowIds
    PROVE  /\ S \in SUBSET Nat /\ 0 \notin S /\ IsFiniteSet(S)
           /\ Cardinality(S) \in Nat /\ Cardinality(S) <= Len(rows)
  <1>1. Len(rows) \in Nat /\ RowIds = 1 .. Len(rows)
    BY DEF RowIds
  <1>2. IsFiniteSet(RowIds) /\ Cardinality(RowIds) = Len(rows)
    BY <1>1, FS_Interval
  <1>3. IsFiniteSet(S) /\ Cardinality(S) <= Len(rows)
    BY <1>2, FS_Subset
  <1>4. QED
    BY <1>1, <1>3, FS_CardinalityType

LEMMA MatchingRows ==
    ASSUME NEW r
    PROVE  Matching(r) \in SUBSET RowIds
  BY DEF Matching

(* What a reader is after depends on what it was asked alone. *)
LEMMA SameRequest ==
    ASSUME rd'.op = rd.op, rd'.filter = rd.filter, rd'.ids = rd.ids, rd'.limit = rd.limit
    PROVE  Wanted' = Wanted /\ (rows' = rows => Matching(rd)' = Matching(rd))
  BY DEF Wanted, Matching, RowIds

LEMMA WantedFacts ==
    ASSUME rd \in Reader
    PROVE  /\ Wanted \in Seq(Nat) /\ Len(Wanted) \in Nat
           /\ rd.limit # NoLimit => Len(Wanted) <= rd.limit
  <1>1. rd.ids \in Seq(Nat) /\ (rd.limit = NoLimit \/ rd.limit \in Nat)
    BY DEF Reader
  <1>2. CASE rd.limit = NoLimit
    BY <1>1, <1>2 DEF Wanted
  <1>3. CASE rd.limit # NoLimit
    <2> DEFINE n == rd.limit
               s == rd.ids
    <2>1. n \in Nat /\ s \in Seq(Nat) /\ 0 \in Nat
      BY <1>1, <1>3
    <2>2. Wanted = Slice(s, 0, n)
      BY <1>3 DEF Wanted, FirstOf
    <2> HIDE DEF n, s
    <2>3. Slice(s, 0, n) \in Seq(Nat) /\ Len(Slice(s, 0, n)) \in Nat /\ Len(Slice(s, 0, n)) <= n
      BY <2>1, SliceFacts
    <2>4. QED
      BY <2>2, <2>3 DEF n
  <1>4. QED
    BY <1>2, <1>3

LEMMA LimitFacts ==
    ASSUME rd \in Reader, NEW n \in Nat
    PROVE  /\ LimitTo(n) \in Nat /\ LimitTo(n) <= n
           /\ rd.limit = NoLimit => LimitTo(n) = n
           /\ rd.limit # NoLimit => /\ rd.limit \in Nat
                                    /\ n <= rd.limit => LimitTo(n) = n
                                    /\ n >= rd.limit => LimitTo(n) = rd.limit
  <1>1. rd.limit = NoLimit \/ rd.limit \in Nat
    BY DEF Reader
  <1>2. CASE rd.limit = NoLimit
    BY <1>2 DEF LimitTo
  <1>3. CASE rd.limit # NoLimit
    <2> DEFINE k == rd.limit
               m == Min({n, k})
    <2>1. k \in Nat /\ LimitTo(n) = m
      BY <1>1, <1>3 DEF LimitTo
    <2>2. m \in {n, k} /\ m <= n /\ m <= k
      BY <2>1, NumbersHaveMin
    <2> HIDE DEF m
    <2>3. QED
      BY <1>3, <2>1, <2>2
  <1>4. QED
    BY <1>2, <1>3

LEMMA SetsInOrder ==
    ASSUME rows \in Seq(Row), NEW S \in SUBSET RowIds
    PROVE  NewestFirst(S) \in Seq(Nat) /\ OldestFirst(S) \in Seq(Nat)
  <1> DEFINE s == NewestFirst(S)
  <1>1. s \in Seq(S) /\ S \in SUBSET Nat
    BY RowSets, NewestFacts
  <1>2. s \in Seq(Nat)
    BY <1>1, SeqWidens
  <1> HIDE DEF s
  <1>3. Reverse(s) \in Seq(Nat)
    <2>1. Len(s) \in Nat /\ \A i \in 1 .. Len(s) : s[i] \in Nat
      BY <1>2
    <2>2. [i \in 1 .. Len(s) |-> s[Len(s) - i + 1]] \in [1 .. Len(s) -> Nat]
      BY <2>1
    <2>3. QED
      BY <2>1, <2>2, SeqDef DEF Reverse
  <1>4. QED
    BY <1>2, <1>3 DEF s, OldestFirst

LEMMA ShapesOfRows ==
    ASSUME rows \in Seq(Row), NEW d \in RowIds
    PROVE  rows[d].shape \in Shape
  <1>1. rows[d] \in Row
    BY DEF RowIds
  <1>2. CASE rows[d] = Gone
    <2>1. Gone.shape = NoEnv
      BY DEF Gone
    <2>2. QED
      BY <1>2, <2>1 DEF Shape
  <1>3. CASE rows[d] # Gone
    BY <1>1, <1>3 DEF Row, Shape
  <1>4. QED
    BY <1>2, <1>3

LEMMA BucketType ==
    ASSUME NEW b \in Group, NEW t \in Seq(Nat), NEW n \in Nat
    PROVE  [ids |-> FirstOf(b.ids \o t, GroupIdsCap), count |-> b.count + n] \in Group
  <1> DEFINE s == b.ids
             k == b.count
             u == s \o t
             c == GroupIdsCap
  <1>1. s \in Seq(Nat) /\ k \in Nat /\ c \in Nat /\ 0 \in Nat
    BY ViewBoundAssumption DEF Group
  <1> HIDE DEF s, k, c
  <1>2. u \in Seq(Nat)
    BY <1>1, ConcatFacts
  <1> HIDE DEF u
  <1>3. FirstOf(u, c) \in Seq(Nat)
    BY <1>1, <1>2, SliceFacts DEF FirstOf
  <1>4. [ids |-> FirstOf(u, c), count |-> k + n] \in Group
    BY <1>1, <1>3 DEF Group
  <1>5. QED
    BY <1>4 DEF s, k, c, u

LEMMA GroupingType ==
    ASSUME rows \in Seq(Row), NEW g \in Grouping, NEW S \in SUBSET RowIds
    PROVE  Bucketed(g, S) \in Grouping
  <1> DEFINE Had(s) == IF s \in DOMAIN g THEN g[s] ELSE [ids |-> <<>>, count |-> 0]
             More(s) == {d \in S : rows[d].shape = s}
             D == DOMAIN g \cup {rows[d].shape : d \in S}
             N(s) == [ids |-> FirstOf(Had(s).ids \o NewestFirst(More(s)), GroupIdsCap),
                      count |-> Had(s).count + Cardinality(More(s))]
  <1>1. Bucketed(g, S) = [s \in D |-> N(s)]
    BY DEF Bucketed
  <1>2. PICK E \in SUBSET Shape : g \in [E -> Group]
    BY DEF Grouping
  <1>3. D \in SUBSET Shape
    BY <1>2, ShapesOfRows
  <1>4. ASSUME NEW s PROVE N(s) \in Group
    <2>1. Had(s) \in Group
      <3>1. [ids |-> <<>>, count |-> 0] \in Group
        BY DEF Group
      <3>2. QED
        BY <1>2, <3>1
    <2>2. More(s) \in SUBSET RowIds
      OBVIOUS
    <2> HIDE DEF Had, More
    <2>3. Cardinality(More(s)) \in Nat
      BY <2>2, RowSets
    <2>4. NewestFirst(More(s)) \in Seq(Nat)
      BY <2>2, SetsInOrder
    <2>5. QED
      BY <2>1, <2>3, <2>4, BucketType
  <1> HIDE DEF N, D
  <1>5. [s \in D |-> N(s)] \in [D -> Group]
    BY <1>4
  <1>6. QED
    BY <1>1, <1>3, <1>5 DEF Grouping

LEMMA ByShapeType ==
    ASSUME rows \in Seq(Row), NEW S \in SUBSET RowIds
    PROVE  ByShape(S) \in Grouping
  <1> DEFINE Of(s) == {d \in S : rows[d].shape = s}
             D == {rows[d].shape : d \in S}
             O(s) == [ids |-> FirstOf(OldestFirst(Of(s)), GroupIdsCap), count |-> Cardinality(Of(s))]
  <1>1. ByShape(S) = [s \in D |-> O(s)]
    BY DEF ByShape
  <1>2. D \in SUBSET Shape
    BY ShapesOfRows
  <1>3. ASSUME NEW s PROVE O(s) \in Group
    <2>1. Of(s) \in SUBSET RowIds
      OBVIOUS
    <2> DEFINE u == OldestFirst(Of(s))
    <2> HIDE DEF Of
    <2>2. Cardinality(Of(s)) \in Nat /\ u \in Seq(Nat)
      BY <2>1, RowSets, SetsInOrder
    <2> HIDE DEF u
    <2>3. 0 \in Nat /\ GroupIdsCap \in Nat
      BY ViewBoundAssumption
    <2>4. FirstOf(u, GroupIdsCap) \in Seq(Nat)
      BY <2>2, <2>3, SliceFacts DEF FirstOf
    <2>5. QED
      BY <2>2, <2>4 DEF Group, u
  <1> HIDE DEF O, D
  <1>4. [s \in D |-> O(s)] \in [D -> Group]
    BY <1>3
  <1>5. QED
    BY <1>1, <1>2, <1>4 DEF Grouping

LEMMA NoReaderFacts ==
    /\ NoReader \in Reader /\ NoReader.op = "none" /\ NoReader.pc = "idle"
    /\ NoReader.steady = {} /\ NoReader.shipped = <<>> /\ NoReader.groups = <<>>
    /\ <<>> \in Grouping
  <1>1. <<>> \in [{} -> Group]
    OBVIOUS
  <1>2. <<>> \in Grouping
    BY <1>1 DEF Grouping
  <1>3. [env |-> NoEnv, statuses |-> {}, batch |-> 0] \in RunFilter
    BY DEF RunFilter
  <1> HIDE DEF Grouping, RunFilter
  <1>4. NoReader \in Reader
    BY <1>2, <1>3 DEF NoReader, Reader
  <1>5. QED
    BY <1>2, <1>4 DEF NoReader

LEMMA WalkInit == ViewsInit => WalkInv
  <1> SUFFICES ASSUME ViewsInit PROVE WalkInv
    OBVIOUS
  <1>1. rd = NoReader
    BY DEF ViewsInit
  <1>2. QED
    BY <1>1, NoReaderFacts DEF WalkInv, Phases, Walked

(* What a commit leaves a reader with. *)
LEMMA CommitKeeps ==
    ASSUME rd \in Reader, rd.pc # "idle", Commit(rows')
    PROVE  /\ rd' \in Reader /\ rd'.steady \subseteq rd.steady
           /\ rd'.op = rd.op /\ rd'.pc = rd.pc /\ rd'.filter = rd.filter /\ rd'.ids = rd.ids
           /\ rd'.limit = rd.limit /\ rd'.total = rd.total /\ rd'.normalized = rd.normalized
           /\ rd'.last = rd.last /\ rd'.offset = rd.offset /\ rd'.shipped = rd.shipped
           /\ rd'.groups = rd.groups
           /\ \A d \in rd'.steady : IF rd.op = "ids" THEN PinnedRow(rd.filter, rows'[d])
                                    ELSE _base_filters(rd.filter, rows'[d])
           /\ rd'.quiet => rd.quiet /\ (rd.pc = "total" \/ rows' = rows)
  <1> DEFINE Still(d) == IF rd.op = "ids" THEN PinnedRow(rd.filter, rows'[d])
                         ELSE _base_filters(rd.filter, rows'[d])
             T == {d \in rd.steady : Still(d)}
             q == rd.quiet /\ (rd.pc = "total" \/ rows' = rows)
  <1>1. rd' = [rd EXCEPT !.quiet = q, !.steady = T]
    BY DEF Commit
  <1>2. q \in BOOLEAN /\ (q => rd.quiet /\ (rd.pc = "total" \/ rows' = rows))
    OBVIOUS
  <1>3. T \subseteq rd.steady /\ \A d \in T : Still(d)
    OBVIOUS
  <1> HIDE DEF T, q, Still
  <1>4. rd.steady \in SUBSET Nat
    BY DEF Reader
  <1>5. T \in SUBSET Nat
    BY <1>3, <1>4
  <1>6. /\ rd' \in Reader /\ rd'.steady = T /\ rd'.quiet = q
        /\ rd'.op = rd.op /\ rd'.pc = rd.pc /\ rd'.filter = rd.filter /\ rd'.ids = rd.ids
        /\ rd'.limit = rd.limit /\ rd'.total = rd.total /\ rd'.normalized = rd.normalized
        /\ rd'.last = rd.last /\ rd'.offset = rd.offset /\ rd'.shipped = rd.shipped
        /\ rd'.groups = rd.groups
    BY <1>1, <1>2, <1>5 DEF Reader
  <1>7. QED
    BY <1>2, <1>3, <1>6 DEF Still

LEMMA CommitWalk ==
    ASSUME WalkInv, rows \in Seq(Row), rows' \in Seq(Row), Len(rows) <= Len(rows'), Commit(rows')
    PROVE  WalkInv'
  <1>1. CASE rd.pc = "idle"
    <2>1. rd = NoReader /\ rd' = NoReader
      BY <1>1 DEF WalkInv, Phases, Commit
    <2>2. QED
      BY <2>1, NoReaderFacts DEF WalkInv, Phases, Walked
  <1>2. CASE rd.pc # "idle"
    <2>1. rd \in Reader /\ Phases /\ Walked
      BY DEF WalkInv, Phases
    <2>2. /\ rd' \in Reader /\ rd'.steady \subseteq rd.steady
          /\ rd'.op = rd.op /\ rd'.pc = rd.pc /\ rd'.filter = rd.filter /\ rd'.ids = rd.ids
          /\ rd'.limit = rd.limit /\ rd'.last = rd.last /\ rd'.offset = rd.offset
          /\ rd'.shipped = rd.shipped
          /\ \A d \in rd'.steady : IF rd.op = "ids" THEN PinnedRow(rd.filter, rows'[d])
                                   ELSE _base_filters(rd.filter, rows'[d])
      BY <1>2, <2>1, CommitKeeps
    <2>3. Wanted' = Wanted
      BY <2>2, SameRequest
    <2>4. RowIds \subseteq RowIds'
      BY DEF RowIds
    <2>5. rd'.steady \subseteq Matching(rd)'
      <3> SUFFICES ASSUME NEW d \in rd'.steady PROVE d \in Matching(rd)'
        OBVIOUS
      <3>1. d \in Matching(rd)
        BY <2>1, <2>2 DEF Phases
      <3>2. d \in RowIds'
        BY <2>4, <3>1, MatchingRows
      <3>3. rd.op = "ids" => d \in Range(Wanted)
        BY <3>1 DEF Matching
      <3>4. QED
        BY <2>2, <2>3, <3>2, <3>3 DEF Matching
    <2>6. Phases'
      BY <1>2, <2>1, <2>2, <2>5 DEF Phases
    <2>7. Walked'
      BY <2>1, <2>2, <2>3 DEF Walked
    <2>8. QED
      BY <2>6, <2>7 DEF WalkInv
  <1>3. QED
    BY <1>1, <1>2

(* A request begins. *)
Ops == {"none", "export", "ids", "groups", "types"}
Phase == {"idle", "total", "normalized", "page", "scan", "done"}
Request(op, pc, f, ids, lim) ==
    [NoReader EXCEPT !.op = op, !.pc = pc, !.filter = f, !.ids = ids, !.limit = lim]

LEMMA Asked ==
    ASSUME NEW op \in Ops, NEW pc \in Phase, NEW f \in Filters \cup RunFilter,
           NEW ids \in Seq(Nat), NEW lim \in Nat \cup {NoLimit}
    PROVE  LET r == Request(op, pc, f, ids, lim)
           IN  /\ r \in Reader /\ r.op = op /\ r.pc = pc /\ r.filter = f /\ r.ids = ids /\ r.limit = lim
               /\ r.steady = {} /\ r.shipped = <<>> /\ r.last = 0 /\ r.offset = 0
               /\ r.groups = <<>> /\ r.quiet
  <1> DEFINE r == Request(op, pc, f, ids, lim)
  <1>1. NoReader \in Reader
    BY NoReaderFacts
  <1>2. r \in Reader
    BY <1>1 DEF Reader, Ops, Phase, Request
  <1>3. QED
    BY <1>2 DEF NoReader, Request

LEMMA RequestWalk ==
    ASSUME UNCHANGED rows, NEW op \in {"export", "ids"}, NEW f \in Filters \cup RunFilter,
           NEW ids \in Seq(Nat), NEW lim \in Nat \cup {NoLimit},
           rd' = Request(op, "total", f, ids, lim)
    PROVE  WalkInv'
  <1>1. /\ rd' \in Reader /\ rd'.op = op /\ rd'.pc = "total" /\ rd'.limit = lim
        /\ rd'.steady = {} /\ rd'.shipped = <<>> /\ rd'.last = 0 /\ rd'.offset = 0
    <2> DEFINE r == Request(op, "total", f, ids, lim)
    <2>1. op \in Ops /\ "total" \in Phase
      BY DEF Ops, Phase
    <2>2. /\ r \in Reader /\ r.op = op /\ r.pc = "total" /\ r.limit = lim
          /\ r.steady = {} /\ r.shipped = <<>> /\ r.last = 0 /\ r.offset = 0
      BY <2>1, Asked
    <2>3. rd' = r
      OBVIOUS
    <2> HIDE DEF r
    <2>4. QED
      BY <2>2, <2>3
  <1>2. Falls(<<>>) /\ Len(<<>>) = 0
    BY DEF Falls
  <1>3. Phases'
    BY <1>1 DEF Phases
  <1>4. Walked'
    BY <1>1, <1>2 DEF Walked
  <1>5. QED
    BY <1>3, <1>4 DEF WalkInv

(* The counts are taken, and what matches at the first is what is steady. *)
LEMMA CountWalk ==
    ASSUME WalkInv, rows \in Seq(Row), CountTotal \/ CountNormalized
    PROVE  WalkInv'
  <1>1. rd \in Reader /\ Phases /\ Walked
    BY DEF WalkInv, Phases
  <1> DEFINE M == Matching(rd)
             t == LimitTo(Cardinality(M))
             n == LimitTo(Cardinality(Normalized(M)))
  <1>2. M \in SUBSET RowIds /\ Normalized(M) \in SUBSET RowIds
    BY MatchingRows DEF Normalized
  <1>3. M \in SUBSET Nat /\ t \in Nat /\ n \in Nat
    <2> HIDE DEF M
    <2>1. M \in SUBSET Nat /\ Cardinality(M) \in Nat /\ Cardinality(Normalized(M)) \in Nat
      BY <1>2, RowSets
    <2>2. QED
      BY <1>1, <2>1, LimitFacts
  <1>4. CASE CountTotal
    <2>1. /\ rd' = [rd EXCEPT !.pc = "normalized", !.quiet = TRUE, !.steady = M, !.total = t]
          /\ rd.pc = "total" /\ rows' = rows
      BY <1>4 DEF CountTotal
    <2>2. M = Matching(rd)
      OBVIOUS
    <2> HIDE DEF M, t
    <2>3. /\ rd' \in Reader /\ rd'.op = rd.op /\ rd'.pc = "normalized" /\ rd'.filter = rd.filter
          /\ rd'.ids = rd.ids /\ rd'.limit = rd.limit /\ rd'.steady = M
          /\ rd'.shipped = rd.shipped /\ rd'.last = rd.last /\ rd'.offset = rd.offset
      BY <1>1, <1>3, <2>1 DEF Reader
    <2>4. Matching(rd)' = M
      BY <2>1, <2>2, <2>3, SameRequest
    <2>5. Phases'
      BY <1>1, <2>1, <2>3, <2>4 DEF Phases
    <2>6. Walked'
      BY <1>1, <2>1, <2>3 DEF Walked
    <2>7. QED
      BY <2>5, <2>6 DEF WalkInv
  <1>5. CASE CountNormalized
    <2>1. /\ rd' = [rd EXCEPT !.pc = "page", !.normalized = n]
          /\ rd.pc = "normalized" /\ rows' = rows
      BY <1>5 DEF CountNormalized
    <2>2. M = Matching(rd)
      OBVIOUS
    <2> HIDE DEF M, n
    <2>3. /\ rd' \in Reader /\ rd'.op = rd.op /\ rd'.pc = "page" /\ rd'.filter = rd.filter
          /\ rd'.ids = rd.ids /\ rd'.limit = rd.limit /\ rd'.steady = rd.steady
          /\ rd'.shipped = rd.shipped /\ rd'.last = rd.last /\ rd'.offset = rd.offset
      BY <1>1, <1>3, <2>1 DEF Reader
    <2>4. Matching(rd)' = M /\ Wanted' = Wanted
      BY <2>1, <2>2, <2>3, SameRequest
    <2>5. rd.shipped = <<>> /\ rd.last = 0 /\ rd.offset = 0 /\ rd.steady \subseteq M
      BY <1>1, <2>1, <2>2 DEF Phases
    <2>6. Phases'
      BY <1>1, <2>1, <2>3, <2>4, <2>5 DEF Phases
    <2>7. Range(rd.shipped) = {}
      BY <2>5 DEF Range
    <2>8. Len(Wanted) \in Nat
      BY <1>1, WantedFacts
    <2>9. Walked'
      BY <1>1, <2>3, <2>4, <2>5, <2>7, <2>8 DEF Walked
    <2>10. QED
      BY <2>6, <2>9 DEF WalkInv
  <1>6. QED
    BY <1>4, <1>5

(* A page of an export by filters: the newest of the rows below the last   *)
(* id, cut to the room a limit leaves.                                     *)
LEMMA PageShips ==
    ASSUME WalkInv, rows \in Seq(Row), rd.pc = "page", rd.op = "export"
    PROVE  LET below == {d \in Matching(rd) : rd.last = 0 \/ d < rd.last}
               page == FirstOf(NewestFirst(below), Chunk)
               room == IF rd.limit = NoLimit THEN Len(page) ELSE rd.limit - Len(rd.shipped)
               out == FirstOf(page, room)
           IN  /\ page \in Seq(Nat) /\ Len(page) \in Nat /\ Range(page) \subseteq below
               /\ page = <<>> => below = {}
               /\ page # <<>> =>
                    /\ Len(page) # 0 /\ Last(page) \in below
                    /\ \A d \in Range(page) : d >= Last(page)
                    /\ \A d \in below : d >= Last(page) => d \in Range(page)
               /\ out \in Seq(Nat) /\ Len(out) \in Nat /\ Len(out) <= Len(page)
               /\ Range(out) \subseteq Range(page)
               /\ ~(Len(out) < Len(page)) => out = page
               /\ rd.limit = NoLimit => out = page
               /\ rd.limit # NoLimit => Len(rd.shipped) + Len(out) <= rd.limit
               /\ rd.limit # NoLimit /\ Len(out) < Len(page) => Len(rd.shipped) + Len(out) = rd.limit
               /\ rd.shipped \o out \in Seq(Nat) /\ Falls(rd.shipped \o out)
               /\ Len(rd.shipped \o out) = Len(rd.shipped) + Len(out)
               /\ Range(rd.shipped \o out) = Range(rd.shipped) \cup Range(out)
  <1> DEFINE below == {d \in Matching(rd) : rd.last = 0 \/ d < rd.last}
             page == FirstOf(NewestFirst(below), Chunk)
             room == IF rd.limit = NoLimit THEN Len(page) ELSE rd.limit - Len(rd.shipped)
             out == FirstOf(page, room)
             was == rd.shipped
  <1>1. /\ rd \in Reader /\ was \in Seq(Nat) /\ Len(was) \in Nat /\ rd.last \in Nat
        /\ rd.limit = NoLimit \/ rd.limit \in Nat
        /\ Falls(was) /\ (rd.limit # NoLimit => Len(was) <= rd.limit)
        /\ rd.last = 0 => was = <<>>
        /\ \A d \in Range(was) : d >= rd.last
        /\ was = rd.shipped
    <2>1. rd \in Reader
      BY DEF WalkInv, Phases
    <2>2. /\ Falls(was) /\ (rd.limit # NoLimit => Len(was) <= rd.limit)
          /\ rd.last = 0 => was = <<>>
          /\ \A d \in Range(was) : d >= rd.last
      BY DEF WalkInv, Walked
    <2>3. /\ was \in Seq(Nat) /\ rd.last \in Nat
          /\ rd.limit = NoLimit \/ rd.limit \in Nat
      BY <2>1 DEF Reader
    <2>4. Len(was) \in Nat
      BY <2>3
    <2>5. QED
      BY <2>1, <2>2, <2>3, <2>4
  <1>2. below \in SUBSET RowIds /\ below \in SUBSET Nat /\ IsFiniteSet(below)
    <2>1. below \in SUBSET RowIds
      BY MatchingRows
    <2> HIDE DEF below
    <2>2. QED
      BY <2>1, RowSets
  <1>3. Chunk \in Nat \ {0}
    BY ViewBoundAssumption
  <1>4. \A d \in below : rd.last = 0 \/ d < rd.last
    OBVIOUS
  <1> HIDE DEF below, was
  <1>5. /\ page \in Seq(Nat) /\ Len(page) \in Nat /\ Falls(page) /\ Range(page) \subseteq below
        /\ Len(page) < Chunk => Range(page) = below
        /\ Len(page) # 0 => \A d \in below : d >= page[Len(page)] => d \in Range(page)
    BY <1>2, <1>3, PageFacts
  <1> HIDE DEF page
  <1>6. page = <<>> => below = {}
    <2>1. page = <<>> => Len(page) = 0 /\ Range(page) = {}
      BY DEF Range
    <2>2. QED
      BY <1>3, <1>5, <2>1
  <1>7. page # <<>> =>
          /\ Len(page) # 0 /\ Last(page) \in below
          /\ \A d \in Range(page) : d >= Last(page)
          /\ \A d \in below : d >= Last(page) => d \in Range(page)
    <2> SUFFICES ASSUME page # <<>>
                 PROVE  /\ Len(page) # 0 /\ Last(page) \in below
                        /\ \A d \in Range(page) : d >= Last(page)
                        /\ \A d \in below : d >= Last(page) => d \in Range(page)
      OBVIOUS
    <2>1. Len(page) # 0 /\ Len(page) \in DOMAIN page
      BY <1>5
    <2>2. Last(page) = page[Len(page)] /\ Last(page) \in Range(page)
      BY <2>1 DEF Last, Range
    <2>3. \A d \in Range(page) : d >= Last(page)
      <3> SUFFICES ASSUME NEW i \in DOMAIN page PROVE page[i] >= Last(page)
        BY DEF Range
      <3>1. i \in Nat /\ i <= Len(page) /\ page[i] \in Nat
        BY <1>5
      <3>2. CASE i = Len(page)
        BY <2>2, <3>1, <3>2
      <3>3. CASE i < Len(page)
        <4>1. page[i] > page[Len(page)] /\ page[Len(page)] \in Nat
          BY <1>5, <2>1, <3>3 DEF Falls
        <4>2. QED
          BY <2>2, <3>1, <4>1
      <3>4. QED
        BY <1>5, <3>1, <3>2, <3>3
    <2>4. QED
      BY <1>5, <2>1, <2>2, <2>3
  <1>8. /\ room \in Nat /\ (rd.limit = NoLimit => room = Len(page))
        /\ rd.limit # NoLimit => room = rd.limit - Len(was)
    BY <1>1, <1>5
  <1> HIDE DEF room
  <1>9. /\ out \in Seq(Nat) /\ Len(out) \in Nat /\ Len(out) <= room
        /\ Len(out) # 0 => 0 + Len(out) <= Len(page)
        /\ Len(out) < room => 0 + Len(out) >= Len(page)
        /\ \A i \in 1 .. Len(out) : 0 + i \in 1 .. Len(page) /\ out[i] = page[0 + i]
    <2>1. out = Slice(page, 0, room) /\ 0 \in Nat
      BY DEF FirstOf
    <2> HIDE DEF out
    <2>2. QED
      BY <1>5, <1>8, <2>1, SliceFacts
  <1>10. Falls(out)
    <2>1. out = Slice(page, 0, room) /\ 0 \in Nat
      BY DEF FirstOf
    <2> HIDE DEF out
    <2>2. QED
      BY <1>5, <1>8, <2>1, SliceFalls
  <1> HIDE DEF out
  <1>11. /\ Len(out) <= Len(page)
         /\ \A i \in 1 .. Len(out) : i \in 1 .. Len(page) /\ out[i] = page[i]
    BY <1>5, <1>9
  <1>12. Range(out) \subseteq Range(page)
    <2>1. DOMAIN out = 1 .. Len(out) /\ DOMAIN page = 1 .. Len(page)
      BY <1>5, <1>9
    <2>2. \A i \in DOMAIN out : i \in DOMAIN page /\ out[i] = page[i]
      BY <1>11, <2>1
    <2>3. QED
      BY <2>2 DEF Range
  <1>13. ~(Len(out) < Len(page)) => out = page
    <2> SUFFICES ASSUME ~(Len(out) < Len(page)) PROVE out = page
      OBVIOUS
    <2>1. Len(out) = Len(page)
      BY <1>5, <1>9, <1>11
    <2>2. \A i \in 1 .. Len(page) : out[i] = page[i]
      BY <1>11, <2>1
    <2>3. QED
      BY <1>5, <1>9, <2>1, <2>2, SeqEqual
  <1>14. rd.limit = NoLimit => out = page
    <2> SUFFICES ASSUME rd.limit = NoLimit PROVE out = page
      OBVIOUS
    <2>1. ~(Len(out) < Len(page))
      BY <1>5, <1>8, <1>9
    <2>2. QED
      BY <1>13, <2>1
  <1>15. rd.limit # NoLimit =>
           /\ Len(was) + Len(out) <= rd.limit
           /\ Len(out) < Len(page) => Len(was) + Len(out) = rd.limit
    <2> SUFFICES ASSUME rd.limit # NoLimit
                 PROVE  /\ Len(was) + Len(out) <= rd.limit
                        /\ Len(out) < Len(page) => Len(was) + Len(out) = rd.limit
      OBVIOUS
    <2>1. rd.limit \in Nat /\ room = rd.limit - Len(was) /\ Len(was) \in Nat
      BY <1>1, <1>8
    <2>2. Len(out) < Len(page) => Len(out) = room
      BY <1>5, <1>8, <1>9
    <2>3. PICK k \in Nat : k = rd.limit
      BY <2>1
    <2>4. room = k - Len(was) /\ Len(out) <= room /\ room \in Nat /\ Len(out) \in Nat
      BY <1>8, <1>9, <2>1, <2>3
    <2>5. Len(was) + Len(out) <= k /\ (Len(out) = room => Len(was) + Len(out) = k)
      BY <2>1, <2>4
    <2>6. QED
      BY <2>2, <2>3, <2>5
  <1>16. was \o out \in Seq(Nat) /\ Range(was \o out) = Range(was) \cup Range(out)
    BY <1>1, <1>9, ConcatFacts
  <1>17. Len(was \o out) = Len(was) + Len(out)
    BY <1>1, <1>9
  <1>18. Falls(was \o out)
    <2>1. ASSUME NEW i \in DOMAIN was, NEW j \in DOMAIN out PROVE was[i] > out[j]
      <3>1. was[i] \in Range(was) /\ out[j] \in Range(out)
        BY DEF Range
      <3>2. out[j] \in below
        BY <1>5, <1>12, <3>1
      <3>3. was # <<>>
        OBVIOUS
      <3>4. was[i] >= rd.last /\ rd.last # 0
        BY <1>1, <3>1, <3>3
      <3>5. out[j] < rd.last
        BY <1>4, <3>2, <3>4
      <3>6. was[i] \in Nat /\ out[j] \in Nat /\ rd.last \in Nat
        <4>1. i \in 1 .. Len(was) /\ was[i] \in Nat
          BY <1>1
        <4>2. QED
          BY <1>1, <1>2, <3>2, <4>1
      <3>7. QED
        BY <3>4, <3>5, <3>6
    <2>2. QED
      BY <1>1, <1>9, <1>10, <2>1, ConcatFalls
  <1>19. QED
    BY <1>5, <1>6, <1>7, <1>9, <1>11, <1>12, <1>13, <1>14, <1>15, <1>16, <1>17, <1>18
       DEF below, page, room, out, was

LEMMA PageWalk ==
    ASSUME WalkInv, rows \in Seq(Row), NextPage
    PROVE  WalkInv'
  <1> DEFINE M == Matching(rd)
             below == {d \in M : rd.last = 0 \/ d < rd.last}
             page == FirstOf(NewestFirst(below), Chunk)
             room == IF rd.limit = NoLimit THEN Len(page) ELSE rd.limit - Len(rd.shipped)
             out == FirstOf(page, room)
             all == rd.shipped \o out
  <1>1. /\ rd \in Reader /\ Phases /\ Walked /\ rd.steady \subseteq M
        /\ rd.limit = NoLimit => \A d \in rd.steady : rd.last # 0 /\ d >= rd.last => d \in Range(rd.shipped)
        /\ \A d \in Range(rd.shipped) : d >= rd.last
        /\ rd.last = 0 => rd.shipped = <<>>
        /\ rd.last \in Nat /\ M \in SUBSET Nat
    <2>1. rd.pc = "page" /\ rd.op = "export"
      BY DEF NextPage
    <2>2. M \in SUBSET RowIds
      BY MatchingRows
    <2> HIDE DEF M
    <2>3. M \in SUBSET Nat
      BY <2>2, RowSets
    <2>4. rd.steady \subseteq M
      BY DEF WalkInv, Phases, M
    <2>5. rd.last \in Nat
      BY DEF WalkInv, Phases, Reader
    <2>6. QED
      BY <2>1, <2>3, <2>4, <2>5 DEF WalkInv, Phases, Walked
  <1>2. /\ rd.pc = "page" /\ rd.op = "export" /\ rows' = rows
        /\ rd' = IF page = <<>> \/ Len(out) < Len(page)
                 THEN [rd EXCEPT !.pc = "done", !.shipped = all]
                 ELSE [rd EXCEPT !.shipped = all, !.last = Last(page)]
    BY DEF NextPage
  <1>3. /\ page \in Seq(Nat) /\ Len(page) \in Nat /\ Range(page) \subseteq below
        /\ page = <<>> => below = {}
        /\ page # <<>> => /\ Len(page) # 0 /\ Last(page) \in below
                          /\ \A d \in Range(page) : d >= Last(page)
                          /\ \A d \in below : d >= Last(page) => d \in Range(page)
        /\ out \in Seq(Nat) /\ Len(out) \in Nat /\ Len(out) <= Len(page)
        /\ Range(out) \subseteq Range(page)
        /\ ~(Len(out) < Len(page)) => out = page
        /\ rd.limit = NoLimit => out = page
        /\ rd.limit # NoLimit => Len(rd.shipped) + Len(out) <= rd.limit
        /\ all \in Seq(Nat) /\ Falls(all) /\ Len(all) = Len(rd.shipped) + Len(out)
        /\ Range(all) = Range(rd.shipped) \cup Range(out)
    BY <1>1, <1>2, PageShips
  <1>4. below \subseteq M /\ \A d \in M : d \in below \/ (rd.last # 0 /\ d >= rd.last)
    BY <1>1
  <1>5. \A d \in below : rd.last = 0 \/ d < rd.last
    OBVIOUS
  <1>6. M = Matching(rd)
    OBVIOUS
  <1> HIDE DEF M, below, page, room, out, all
  <1>7. CASE page = <<>> \/ Len(out) < Len(page)
    <2>1. rd' = [rd EXCEPT !.pc = "done", !.shipped = all]
      BY <1>2, <1>7
    <2>2. /\ rd' \in Reader /\ rd'.op = rd.op /\ rd'.pc = "done" /\ rd'.filter = rd.filter
          /\ rd'.ids = rd.ids /\ rd'.limit = rd.limit /\ rd'.steady = rd.steady
          /\ rd'.shipped = all
      BY <1>1, <1>3, <2>1 DEF Reader
    <2>3. Matching(rd)' = M
      BY <1>2, <1>6, <2>2, SameRequest
    <2>4. Phases'
      BY <1>1, <1>2, <2>2, <2>3 DEF Phases
    <2>5. rd.limit = NoLimit => rd.steady \subseteq Range(all)
      <3> SUFFICES ASSUME rd.limit = NoLimit, NEW d \in rd.steady PROVE d \in Range(all)
        OBVIOUS
      <3>1. page = <<>>
        BY <1>3, <1>7
      <3>2. rd.last # 0 /\ d >= rd.last
        BY <1>1, <1>3, <1>4, <3>1
      <3>3. QED
        BY <1>1, <1>3, <3>2
    <2>6. Walked'
      BY <1>2, <1>3, <2>2, <2>5 DEF Walked
    <2>7. QED
      BY <2>4, <2>6 DEF WalkInv
  <1>8. CASE ~(page = <<>> \/ Len(out) < Len(page))
    <2> DEFINE e == Last(page)
    <2>1. rd' = [rd EXCEPT !.shipped = all, !.last = e]
      BY <1>2, <1>8
    <2>2. /\ page # <<>> /\ out = page /\ e \in below /\ e \in Nat
          /\ \A d \in Range(page) : d >= e
          /\ \A d \in below : d >= e => d \in Range(page)
      BY <1>1, <1>3, <1>4, <1>8
    <2> HIDE DEF e
    <2>3. /\ rd' \in Reader /\ rd'.op = rd.op /\ rd'.pc = rd.pc /\ rd'.filter = rd.filter
          /\ rd'.ids = rd.ids /\ rd'.limit = rd.limit /\ rd'.steady = rd.steady
          /\ rd'.shipped = all /\ rd'.last = e
      BY <1>1, <1>3, <2>1, <2>2 DEF Reader
    <2>4. Matching(rd)' = M
      BY <1>2, <1>6, <2>3, SameRequest
    <2>5. Phases'
      BY <1>1, <1>2, <2>3, <2>4 DEF Phases
    <2>6. e # 0
      <3>1. e \in RowIds
        BY <1>4, <1>6, <2>2, MatchingRows
      <3>2. QED
        BY <3>1, RowSets
    <2>7. \A d \in Range(all) : d >= e
      <3> SUFFICES ASSUME NEW d \in Range(rd.shipped) PROVE d >= e
        BY <1>3, <2>2
      <3>1. rd.last # 0
        BY <1>1 DEF Range
      <3>2. e < rd.last
        BY <1>5, <2>2, <3>1, Zenon
      <3>3. d >= rd.last /\ d \in Nat
        <4>1. rd.shipped \in Seq(Nat)
          BY <1>1 DEF Reader
        <4>2. QED
          BY <1>1, <4>1 DEF Range
      <3>4. QED
        BY <1>1, <2>2, <3>2, <3>3
    <2>8. rd.limit = NoLimit => \A d \in rd.steady : d >= e => d \in Range(all)
      <3> SUFFICES ASSUME rd.limit = NoLimit, NEW d \in rd.steady, d >= e PROVE d \in Range(all)
        OBVIOUS
      <3>1. CASE d \in below
        BY <1>3, <2>2, <3>1
      <3>2. CASE d \notin below
        <4>1. rd.last # 0 /\ d >= rd.last
          BY <1>1, <1>4, <3>2
        <4>2. QED
          BY <1>1, <1>3, <4>1
      <3>3. QED
        BY <3>1, <3>2
    <2>9. Walked'
      BY <1>2, <1>3, <2>3, <2>6, <2>7, <2>8 DEF Walked
    <2>10. QED
      BY <2>5, <2>9 DEF WalkInv
  <1>9. QED
    BY <1>7, <1>8

(* A stretch of a pinned list. *)
LEMMA PinnedPart ==
    ASSUME WalkInv, rd.op = "ids", rd.pc = "page"
    PROVE  LET part == Slice(Wanted, rd.offset, Chunk)
           IN  /\ rd.offset \in Nat /\ part \in Seq(Nat) /\ Len(part) \in Nat
               /\ part = <<>> => rd.offset = Len(Wanted)
               /\ rd.offset + Len(part) <= Len(Wanted)
               /\ \A i \in 1 .. rd.offset + Len(part) :
                     \/ i \in 1 .. rd.offset
                     \/ Wanted[i] \in Range(part)
               /\ \A i \in DOMAIN part : rd.offset + i \in 1 .. rd.offset + Len(part)
                                         /\ rd.offset + i > rd.offset
                                         /\ part[i] = Wanted[rd.offset + i]
  <1> DEFINE w == Wanted
             k == rd.offset
             part == Slice(w, k, Chunk)
  <1>1. w \in Seq(Nat) /\ Len(w) \in Nat /\ k \in Nat /\ k <= Len(w) /\ Chunk \in Nat \ {0}
    <2>1. rd \in Reader /\ k <= Len(w)
      BY DEF WalkInv, Phases, Walked
    <2>2. QED
      BY <2>1, WantedFacts, ViewBoundAssumption DEF Reader
  <1> HIDE DEF w, k
  <1>2. /\ part \in Seq(Nat) /\ Len(part) \in Nat /\ Len(part) <= Chunk
        /\ Len(part) # 0 => k + Len(part) <= Len(w)
        /\ Len(part) < Chunk => k + Len(part) >= Len(w)
        /\ \A i \in 1 .. Len(part) : k + i \in 1 .. Len(w) /\ part[i] = w[k + i]
    <2>1. part = Slice(w, k, Chunk) /\ Chunk \in Nat /\ k \in Nat /\ w \in Seq(Nat)
      BY <1>1
    <2> HIDE DEF part
    <2>2. QED
      BY <2>1, SliceFacts
  <1> HIDE DEF part
  <1>3. DOMAIN part = 1 .. Len(part)
    BY <1>2
  <1>4. part = <<>> => k = Len(w)
    BY <1>1, <1>2
  <1>5. k + Len(part) <= Len(w)
    BY <1>1, <1>2
  <1>6. ASSUME NEW i \in 1 .. k + Len(part), i \notin 1 .. k PROVE w[i] \in Range(part)
    <2> DEFINE j == i - k
    <2>1. j \in 1 .. Len(part) /\ k + j = i
      BY <1>1, <1>2, <1>6
    <2> HIDE DEF j
    <2>2. part[j] = w[i]
      BY <1>2, <2>1
    <2>3. QED
      BY <1>3, <2>1, <2>2 DEF Range
  <1>7. \A i \in DOMAIN part : k + i \in 1 .. k + Len(part) /\ k + i > k /\ part[i] = w[k + i]
    <2>1. SUFFICES ASSUME NEW i \in 1 .. Len(part)
                   PROVE  k + i \in 1 .. k + Len(part) /\ k + i > k /\ part[i] = w[k + i]
      BY <1>3
    <2>2. part[i] = w[k + i]
      BY <1>2
    <2> HIDE DEF part
    <2>3. k \in Nat /\ Len(part) \in Nat /\ i \in 1 .. Len(part)
      BY <1>1, <1>2
    <2>4. k + i \in 1 .. k + Len(part) /\ k + i > k
      BY <2>3
    <2>5. QED
      BY <2>2, <2>4
  <1>8. QED
    BY <1>1, <1>2, <1>4, <1>5, <1>6, <1>7 DEF w, k, part

LEMMA PinnedWalk ==
    ASSUME WalkInv, rows \in Seq(Row), NextPinned
    PROVE  WalkInv'
  <1> DEFINE M == Matching(rd)
             k == rd.offset
             part == Slice(Wanted, k, Chunk)
             some == M \cap Range(part)
             all == rd.shipped \o NewestFirst(some)
             n == k + Len(part)
  <1>1. /\ rd \in Reader /\ Phases /\ Walked /\ rd.steady \subseteq M
        /\ rd.pc = "page" /\ rd.op = "ids" /\ rows' = rows
        /\ rd' = IF part = <<>> THEN [rd EXCEPT !.pc = "done"]
                 ELSE [rd EXCEPT !.offset = n, !.shipped = all]
    BY DEF NextPinned, WalkInv, Phases
  <1>2. /\ k \in Nat /\ part \in Seq(Nat) /\ Len(part) \in Nat
        /\ part = <<>> => k = Len(Wanted)
        /\ n <= Len(Wanted)
        /\ \A i \in 1 .. n : i \in 1 .. k \/ Wanted[i] \in Range(part)
    BY <1>1, PinnedPart
  <1>3. \A i \in 1 .. k : Wanted[i] \in rd.steady => Wanted[i] \in Range(rd.shipped)
    BY <1>1 DEF Walked
  <1>4. /\ all \in Seq(Nat) /\ Range(all) = Range(rd.shipped) \cup some /\ rd.shipped \in Seq(Nat)
    <2>1. some \in SUBSET RowIds
      BY MatchingRows
    <2> HIDE DEF some
    <2>2. some \in SUBSET Nat /\ IsFiniteSet(some)
      BY <2>1, RowSets
    <2>3. NewestFirst(some) \in Seq(Nat) /\ Range(NewestFirst(some)) = some
      BY <2>1, <2>2, SetsInOrder, NewestFacts
    <2>4. rd.shipped \in Seq(Nat)
      BY <1>1 DEF Reader
    <2>5. QED
      BY <2>3, <2>4, ConcatFacts
  <1>5. \A d \in M : d \in Range(part) => d \in some
    OBVIOUS
  <1>6. M = Matching(rd) /\ k = rd.offset /\ n = k + Len(part)
    OBVIOUS
  <1>7. \A d \in M : d \in Range(Wanted)
    BY <1>1 DEF Matching
  <1> HIDE DEF M, k, part, some, all, n
  <1>8. CASE part = <<>>
    <2>1. rd' = [rd EXCEPT !.pc = "done"]
      BY <1>1, <1>8
    <2>2. /\ rd' \in Reader /\ rd'.op = rd.op /\ rd'.pc = "done" /\ rd'.filter = rd.filter
          /\ rd'.ids = rd.ids /\ rd'.limit = rd.limit /\ rd'.steady = rd.steady
          /\ rd'.shipped = rd.shipped
      BY <1>1, <2>1 DEF Reader
    <2>3. Matching(rd)' = M
      BY <1>1, <1>6, <2>2, SameRequest
    <2>4. Phases'
      BY <1>1, <2>2, <2>3 DEF Phases
    <2>5. rd.steady \subseteq Range(rd.shipped)
      <3> SUFFICES ASSUME NEW d \in rd.steady PROVE d \in Range(rd.shipped)
        OBVIOUS
      <3>1. PICK i \in DOMAIN Wanted : Wanted[i] = d
        BY <1>1, <1>7 DEF Range
      <3>2. DOMAIN Wanted = 1 .. k
        BY <1>1, <1>2, <1>8, WantedFacts
      <3>3. QED
        BY <1>3, <3>1, <3>2
    <2>6. Walked'
      BY <1>1, <2>2, <2>5 DEF Walked
    <2>7. QED
      BY <2>4, <2>6 DEF WalkInv
  <1>9. CASE part # <<>>
    <2>1. rd' = [rd EXCEPT !.offset = n, !.shipped = all]
      BY <1>1, <1>9
    <2>2. n \in Nat
      BY <1>2, <1>6
    <2>3. /\ rd' \in Reader /\ rd'.op = rd.op /\ rd'.pc = rd.pc /\ rd'.filter = rd.filter
          /\ rd'.ids = rd.ids /\ rd'.limit = rd.limit /\ rd'.steady = rd.steady
          /\ rd'.shipped = all /\ rd'.offset = n
      BY <1>1, <1>4, <2>1, <2>2 DEF Reader
    <2>4. Matching(rd)' = M /\ Wanted' = Wanted
      BY <1>1, <1>6, <2>3, SameRequest
    <2>5. Phases'
      BY <1>1, <2>3, <2>4 DEF Phases
    <2>6. \A i \in 1 .. n : Wanted[i] \in rd.steady => Wanted[i] \in Range(all)
      BY <1>1, <1>2, <1>3, <1>4, <1>5
    <2>7. Walked'
      BY <1>1, <1>2, <2>3, <2>4, <2>6 DEF Walked
    <2>8. QED
      BY <2>5, <2>7 DEF WalkInv
  <1>10. QED
    BY <1>8, <1>9

(* The other requests ship in one go, or page by page without a walk. *)
LEMMA CloseWalk ==
    ASSUME rd' = NoReader
    PROVE  WalkInv'
  BY NoReaderFacts DEF WalkInv, Phases, Walked

LEMMA GroupsWalk ==
    ASSUME rows \in Seq(Row), NEW f \in Filters, event_groups(f)
    PROVE  WalkInv'
  <1> DEFINE r == [NoReader EXCEPT !.op = "groups", !.pc = "scan", !.filter = f]
             M == Matching(r)
  <1>1. rd' = [r EXCEPT !.steady = M] /\ rows' = rows
    BY DEF event_groups
  <1>2. NoReader \in Reader /\ NoReader.shipped = <<>>
    BY NoReaderFacts
  <1>3. /\ r \in Reader /\ r.op = "groups" /\ r.pc = "scan" /\ r.filter = f
        /\ r.shipped = <<>>
    BY <1>2 DEF Reader
  <1> HIDE DEF r
  <1>4. M \in SUBSET RowIds /\ M = {d \in RowIds : _base_filters(f, rows[d])}
    BY <1>3 DEF Matching
  <1> HIDE DEF M
  <1>5. M \in SUBSET Nat
    BY <1>4, RowSets
  <1>6. /\ rd' \in Reader /\ rd'.op = "groups" /\ rd'.pc = "scan" /\ rd'.filter = f
        /\ rd'.shipped = <<>> /\ rd'.steady = M
    BY <1>1, <1>3, <1>5 DEF Reader
  <1>7. Matching(rd)' = M
    BY <1>1, <1>4, <1>6 DEF Matching, RowIds
  <1>8. QED
    BY <1>6, <1>7 DEF WalkInv, Phases, Walked

LEMMA ScanWalk ==
    ASSUME WalkInv, rows \in Seq(Row), ScanPage
    PROVE  WalkInv'
  <1> DEFINE M == Matching(rd)
             k == rd.offset
             page == Slice(NewestFirst(M), k, Chunk)
             g == Bucketed(rd.groups, Range(page))
             all == rd.shipped \o page
             n == k + Len(page)
             p == IF Len(page) < Chunk THEN "done" ELSE "scan"
  <1>1. /\ rd \in Reader /\ Phases /\ Walked /\ rd.steady \subseteq M /\ k \in Nat
        /\ rd.groups \in Grouping /\ rd.shipped \in Seq(Nat)
        /\ rd.pc = "scan" /\ rd.op = "groups" /\ rows' = rows
        /\ rd' = [rd EXCEPT !.groups = g, !.shipped = all, !.offset = n, !.pc = p]
    BY DEF ScanPage, WalkInv, Phases, Reader
  <1>2. /\ page \in Seq(Nat) /\ Len(page) \in Nat /\ Range(page) \in SUBSET RowIds
    <2>1. M \in SUBSET RowIds
      BY MatchingRows
    <2> HIDE DEF M
    <2>2. M \in SUBSET Nat /\ IsFiniteSet(M) /\ Chunk \in Nat
      BY <2>1, RowSets, ViewBoundAssumption
    <2> DEFINE s == NewestFirst(M)
    <2>3. s \in Seq(M)
      BY <2>2, NewestFacts
    <2> HIDE DEF s
    <2>4. page \in Seq(M) /\ Len(page) \in Nat
      BY <1>1, <2>2, <2>3, SliceFacts DEF s
    <2> HIDE DEF page
    <2>5. page \in Seq(Nat)
      BY <2>2, <2>4, SeqWidens
    <2>6. Range(page) \subseteq M
      BY <2>4 DEF Range
    <2>7. QED
      BY <2>1, <2>4, <2>5, <2>6
  <1>3. g \in Grouping
    <2> HIDE DEF page
    <2>1. QED
      BY <1>1, <1>2, GroupingType
  <1>4. all \in Seq(Nat) /\ n \in Nat /\ p \in {"done", "scan"}
    <2> HIDE DEF page
    <2>1. QED
      BY <1>1, <1>2, ConcatFacts
  <1>5. M = Matching(rd)
    OBVIOUS
  <1> HIDE DEF M, k, page, g, all, n, p
  <1>6. /\ rd' \in Reader /\ rd'.op = rd.op /\ rd'.pc = p /\ rd'.filter = rd.filter
        /\ rd'.ids = rd.ids /\ rd'.limit = rd.limit /\ rd'.steady = rd.steady
    BY <1>1, <1>3, <1>4 DEF Reader
  <1>7. Matching(rd)' = M
    BY <1>1, <1>5, <1>6, SameRequest
  <1>8. QED
    BY <1>1, <1>4, <1>6, <1>7 DEF WalkInv, Phases, Walked

LEMMA TypesWalk ==
    ASSUME rows \in Seq(Row), NEW k \in Nat, batch_groups(k)
    PROVE  WalkInv'
  <1> DEFINE f == [NoReader.filter EXCEPT !.batch = k]
             r == [NoReader EXCEPT !.op = "types", !.pc = "done", !.filter = f]
             all == {d \in RowIds : PinnedRow(f, rows[d])}
             g == ByShape(all)
             s == OldestFirst(all)
  <1>1. rd' = [r EXCEPT !.groups = g, !.shipped = s] /\ rows' = rows
    <2>1. r.filter = f
      BY DEF NoReader
    <2>2. rd' = [r EXCEPT !.groups = ByShape({d \in RowIds : PinnedRow(r.filter, rows[d])}),
                          !.shipped = OldestFirst({d \in RowIds : PinnedRow(r.filter, rows[d])})]
      BY DEF batch_groups
    <2>3. rows' = rows
      BY DEF batch_groups
    <2> HIDE DEF r, f
    <2>4. QED
      BY <2>1, <2>2, <2>3, Zenon
  <1>2. f \in RunFilter
    <2>1. NoReader.filter \in RunFilter
      BY DEF NoReader, RunFilter
    <2>2. QED
      BY <2>1 DEF RunFilter
  <1>3. r \in Reader /\ r.op = "types" /\ r.pc = "done" /\ r.steady = {}
    <2> HIDE DEF f
    <2>1. QED
      BY <1>2, NoReaderFacts DEF Reader
  <1> HIDE DEF f
  <1>4. all \in SUBSET RowIds
    OBVIOUS
  <1> HIDE DEF r, all
  <1>5. g \in Grouping /\ s \in Seq(Nat)
    BY <1>4, ByShapeType, SetsInOrder
  <1> HIDE DEF g, s
  <1>6. rd' \in Reader /\ rd'.op = "types" /\ rd'.pc = "done" /\ rd'.steady = {}
    BY <1>1, <1>3, <1>5 DEF Reader
  <1>7. QED
    BY <1>6 DEF WalkInv, Phases, Walked

(* The rows under a step: a commit never takes a slot away. *)
LEMMA RowsGrow ==
    ASSUME RunsInv, CommitStep, rows' \in Seq(Row)
    PROVE  Len(rows) <= Len(rows') /\ Commit(rows')
  <1>1. rows \in Seq(Row) /\ Len(rows) \in Nat /\ RowIds = 1 .. Len(rows)
    BY DEF RunsInv, TablesInv, RowIds
  <1>2. ASSUME NEW new, Commit(new) PROVE rows' = new /\ Commit(rows')
    <2>1. rows' = new
      BY <1>2 DEF Commit
    <2>2. QED
      BY <1>2, <2>1, Zenon
  <1>3. ASSUME NEW r, Commit(Append(rows, r)) PROVE Len(rows) <= Len(rows') /\ Commit(rows')
    <2>1. rows' = Append(rows, r) /\ Commit(rows')
      BY <1>2, <1>3
    <2>2. Len(Append(rows, r)) = Len(rows) + 1
      BY <1>1
    <2>3. QED
      BY <1>1, <2>1, <2>2
  <1>4. ASSUME NEW f, DOMAIN f = 1 .. Len(rows), rows' \in Seq(Row), Commit(f)
        PROVE  Len(rows) <= Len(rows') /\ Commit(rows')
    <2>1. rows' = f /\ Commit(rows')
      BY <1>2, <1>4
    <2>2. DOMAIN rows' = 1 .. Len(rows') /\ Len(rows') \in Nat
      BY <1>4
    <2>3. 1 .. Len(rows') = 1 .. Len(rows)
      BY <1>4, <2>1, <2>2
    <2>4. QED
      BY <1>1, <2>1, <2>2, <2>3
  <1>5. CASE \E a \in Arrivals : StoreLine(a) \/ Ingest(a)
    BY <1>3, <1>5 DEF StoreLine, Ingest
  <1>6. CASE \E d \in RowIds, s \in {"normalized", "quarantined"} : retry_event(d, s)
    <2>1. PICK d \in RowIds : \E s \in {"normalized", "quarantined"} : retry_event(d, s)
      BY <1>6
    <2>2. PICK s \in {"normalized", "quarantined"} : retry_event(d, s)
      BY <2>1
    <2> DEFINE f == [rows EXCEPT ![d].status = s]
    <2>3. Commit(f)
      BY <2>2 DEF retry_event
    <2>4. DOMAIN f = 1 .. Len(rows)
      BY <1>1
    <2> HIDE DEF f
    <2>5. QED
      BY <1>4, <2>3, <2>4
  <1>7. CASE FinishBatch
    <2>1. PICK f : DOMAIN f = RowIds /\ Commit(f)
      BY <1>7 DEF FinishBatch
    <2>2. QED
      BY <1>1, <1>4, <2>1
  <1>8. CASE \E S \in SUBSET RowIds : batch_delete_events(S)
    <2>1. PICK f : DOMAIN f = RowIds /\ Commit(f)
      BY <1>8 DEF batch_delete_events
    <2>2. QED
      BY <1>1, <1>4, <2>1
  <1>9. QED
    BY <1>5, <1>6, <1>7, <1>8 DEF CommitStep

LEMMA ReaderWalk ==
    ASSUME RunsInv, WalkInv, ReaderStep
    PROVE  WalkInv'
  <1>1. rows \in Seq(Row) /\ runs \in Seq(Run) /\ rows' = rows
    BY ReadersOnlyRead DEF RunsInv, TablesInv
  <1>2. \A lim \in Limits : lim \in Nat \cup {NoLimit}
    BY LimitAssumption
  <1>3. CASE \E f \in Filters, lim \in Limits : _run_export(f, <<>>, lim, "export")
    <2>1. PICK f \in Filters : \E lim \in Limits : _run_export(f, <<>>, lim, "export")
      BY <1>3
    <2>2. PICK lim \in Limits : _run_export(f, <<>>, lim, "export")
      BY <2>1
    <2>3. rd' = Request("export", "total", f, <<>>, lim)
      BY <2>2 DEF _run_export, Request
    <2>4. <<>> \in Seq(Nat) /\ f \in Filters \cup RunFilter
      OBVIOUS
    <2>5. QED
      BY <1>1, <1>2, <2>3, <2>4, RequestWalk
  <1>4. CASE \E f \in Filters, lim \in Limits, ids \in Pinned : _run_export(f, ids, lim, "ids")
    <2>1. PICK f \in Filters : \E lim \in Limits, ids \in Pinned : _run_export(f, ids, lim, "ids")
      BY <1>4
    <2>2. PICK lim \in Limits : \E ids \in Pinned : _run_export(f, ids, lim, "ids")
      BY <2>1
    <2>3. PICK ids \in Pinned : _run_export(f, ids, lim, "ids")
      BY <2>2
    <2>4. rd' = Request("ids", "total", f, ids, lim)
      BY <2>3 DEF _run_export, Request
    <2>5. ids \in Seq(Nat) /\ f \in Filters \cup RunFilter
      <3>1. ids \in Seq(1 .. MaxRows) /\ 1 .. MaxRows \in SUBSET Nat
        BY PinnedAssumption, ViewBoundAssumption
      <3>2. QED
        BY <3>1, SeqWidens
    <2>6. QED
      BY <1>1, <1>2, <2>4, <2>5, RequestWalk
  <1>5. CASE \E g \in Range(rd.groups), lim \in Limits : DownloadType(g, lim)
    <2>1. PICK g \in Range(rd.groups) : \E lim \in Limits : DownloadType(g, lim)
      BY <1>5
    <2>2. PICK lim \in Limits : DownloadType(g, lim)
      BY <2>1
    <2>3. rd' = Request("ids", "total", rd.filter, g.ids, lim)
      BY <2>2 DEF DownloadType, Request
    <2>4. rd.groups \in Grouping /\ rd.filter \in Filters \cup RunFilter
      BY DEF WalkInv, Phases, Reader
    <2>5. g \in Group
      BY <2>4 DEF Grouping, Range
    <2>6. g.ids \in Seq(Nat)
      BY <2>5 DEF Group
    <2>7. QED
      BY <1>1, <1>2, <2>3, <2>4, <2>6, RequestWalk
  <1>6. CASE \E k \in DOMAIN runs : batch_groups(k)
    <2>1. PICK k \in DOMAIN runs : batch_groups(k)
      BY <1>6
    <2>2. k \in Nat
      BY <1>1
    <2>3. QED
      BY <1>1, <2>1, <2>2, TypesWalk
  <1>7. CASE Close
    BY <1>7, CloseWalk DEF Close
  <1>8. CASE CountTotal \/ CountNormalized
    BY <1>1, <1>8, CountWalk
  <1>9. CASE NextPage \/ NextPinned \/ ScanPage \/ \E f \in Filters : event_groups(f)
    BY <1>1, <1>9, PageWalk, PinnedWalk, ScanWalk, GroupsWalk
  <1>10. QED
    BY <1>3, <1>4, <1>5, <1>6, <1>7, <1>8, <1>9 DEF ReaderStep

LEMMA WalkNext ==
    ASSUME RunsInv, RunsInv', WalkInv, [ViewsNext]_viewVars
    PROVE  WalkInv'
  <1>1. rows \in Seq(Row) /\ rows' \in Seq(Row)
    BY DEF RunsInv, TablesInv
  <1>2. CASE ReaderStep
    BY <1>2, ReaderWalk
  <1>3. CASE BatchStep \/ UNCHANGED viewVars
    <2>1. UNCHANGED <<rows, rd>>
      BY <1>3 DEF BatchStep, process_batch, ReplayLine, FailLine, BatchDies, viewVars
    <2>2. QED
      BY <2>1 DEF WalkInv, Phases, Walked, Matching, Wanted, RowIds
  <1>4. CASE CommitStep
    BY <1>1, <1>4, RowsGrow, CommitWalk
  <1>5. QED
    BY <1>2, <1>3, <1>4, StepKinds

LEMMA SpecWalk == ViewsSpec => [](RunsInv /\ WalkInv)
  <1>1. ViewsInit => RunsInv /\ WalkInv
    BY RunsInit, WalkInit
  <1>2. RunsInv /\ WalkInv /\ [ViewsNext]_viewVars => (RunsInv /\ WalkInv)'
    BY RunsNext, WalkNext
  <1>3. QED
    BY <1>1, <1>2, PTL DEF ViewsSpec

(* Whatever is ingested, retried or purged between its pages, a download   *)
(* has every event once and, without a limit, each that matched from its   *)
(* count to its end (_iter_record_dicts pages by the last id it shipped).  *)
THEOREM WalkTheorem == ViewsSpec => []ExportIsOneWalk
  <1>1. WalkInv => ExportIsOneWalk
    BY DEF WalkInv, Walked, ExportIsOneWalk, Falls
  <1>2. QED
    BY <1>1, SpecWalk, PTL

-----------------------------------------------------------------------------
(* Stretches put together *)

(* The first elements of a list, by their number and their places. *)
LEMMA FirstFacts ==
    ASSUME NEW s \in Seq(Nat), NEW n \in Nat
    PROVE  LET p == FirstOf(s, n)
           IN  /\ p \in Seq(Nat) /\ Len(p) \in Nat /\ Len(s) \in Nat
               /\ Len(p) = IF Len(s) <= n THEN Len(s) ELSE n
               /\ \A i \in 1 .. Len(p) : i \in 1 .. Len(s) /\ p[i] = s[i]
               /\ Len(s) <= n => p = s
  <1> DEFINE p == FirstOf(s, n)
  <1>1. /\ p \in Seq(Nat) /\ Len(p) \in Nat /\ Len(p) <= n /\ Len(s) \in Nat
        /\ Len(p) # 0 => 0 + Len(p) <= Len(s)
        /\ Len(p) < n => 0 + Len(p) >= Len(s)
        /\ \A i \in 1 .. Len(p) : 0 + i \in 1 .. Len(s) /\ p[i] = s[0 + i]
    <2>1. p = Slice(s, 0, n) /\ 0 \in Nat /\ Len(s) \in Nat
      BY DEF FirstOf
    <2> HIDE DEF p
    <2>2. QED
      BY <2>1, SliceFacts
  <1> HIDE DEF p
  <1>2. Len(p) = IF Len(s) <= n THEN Len(s) ELSE n
    BY <1>1
  <1>3. \A i \in 1 .. Len(p) : i \in 1 .. Len(s) /\ p[i] = s[i]
    BY <1>1
  <1>4. Len(s) <= n => p = s
    <2> SUFFICES ASSUME Len(s) <= n PROVE p = s
      OBVIOUS
    <2>1. Len(p) = Len(s)
      BY <1>2
    <2>2. \A i \in 1 .. Len(s) : p[i] = s[i]
      BY <1>3, <2>1
    <2>3. QED
      BY <1>1, <2>1, <2>2, SeqEqual
  <1>5. QED
    BY <1>1, <1>2, <1>3, <1>4 DEF p

LEMMA ConcatPlaces ==
    ASSUME NEW s \in Seq(Nat), NEW t \in Seq(Nat)
    PROVE  /\ s \o t \in Seq(Nat) /\ Len(s \o t) = Len(s) + Len(t)
           /\ Len(s) \in Nat /\ Len(t) \in Nat
           /\ \A i \in 1 .. Len(s) : (s \o t)[i] = s[i]
           /\ \A i \in Nat : i > Len(s) /\ i <= Len(s) + Len(t) => (s \o t)[i] = t[i - Len(s)]
  <1>1. /\ s \o t \in Seq(Nat) /\ Len(s \o t) = Len(s) + Len(t)
        /\ \A i \in 1 .. Len(s) + Len(t) : (s \o t)[i] = IF i <= Len(s) THEN s[i] ELSE t[i - Len(s)]
        /\ Len(s) \in Nat /\ Len(t) \in Nat
    BY ConcatProperties
  <1> DEFINE c == s \o t
             n == Len(s)
             m == Len(t)
  <1> HIDE DEF c, n, m
  <1>2. n \in Nat /\ m \in Nat /\ \A i \in 1 .. n + m : c[i] = IF i <= n THEN s[i] ELSE t[i - n]
    BY <1>1 DEF c, n, m
  <1>3. \A i \in 1 .. n : c[i] = s[i]
    BY <1>2
  <1>4. \A i \in Nat : i > n /\ i <= n + m => c[i] = t[i - n]
    BY <1>2
  <1>5. QED
    BY <1>1, <1>3, <1>4 DEF c, n, m

(* Cutting a list before more is added to it changes nothing of its first  *)
(* elements.                                                               *)
LEMMA CutEarly ==
    ASSUME NEW s \in Seq(Nat), NEW t \in Seq(Nat), NEW n \in Nat
    PROVE  FirstOf(FirstOf(s, n) \o t, n) = FirstOf(s \o t, n)
  <1> DEFINE p == FirstOf(s, n)
             c == p \o t
             d == s \o t
             u == FirstOf(c, n)
             v == FirstOf(d, n)
  <1>1. /\ p \in Seq(Nat) /\ Len(p) \in Nat /\ Len(s) \in Nat
        /\ Len(p) = IF Len(s) <= n THEN Len(s) ELSE n
        /\ \A i \in 1 .. Len(p) : i \in 1 .. Len(s) /\ p[i] = s[i]
        /\ Len(s) <= n => p = s
    BY FirstFacts
  <1> HIDE DEF p
  <1>2. CASE Len(s) <= n
    BY <1>1, <1>2 DEF p
  <1>3. CASE Len(s) > n
    <2>1. Len(p) = n
      BY <1>1, <1>3
    <2>2. /\ c \in Seq(Nat) /\ Len(c) = n + Len(t) /\ Len(t) \in Nat
          /\ \A i \in 1 .. n : c[i] = p[i]
      <3>1. c \in Seq(Nat) /\ Len(c) = Len(p) + Len(t) /\ Len(t) \in Nat
            /\ \A i \in 1 .. Len(p) : c[i] = p[i]
        BY <1>1, ConcatPlaces
      <3>2. QED
        BY <2>1, <3>1
    <2>3. /\ d \in Seq(Nat) /\ Len(d) = Len(s) + Len(t)
          /\ \A i \in 1 .. Len(s) : d[i] = s[i]
      BY ConcatPlaces
    <2> HIDE DEF c, d
    <2>4. /\ u \in Seq(Nat) /\ Len(u) = n /\ \A i \in 1 .. n : u[i] = c[i]
      <3>1. /\ u \in Seq(Nat) /\ Len(u) = IF Len(c) <= n THEN Len(c) ELSE n
            /\ \A i \in 1 .. Len(u) : u[i] = c[i]
        BY <2>2, FirstFacts
      <3> HIDE DEF u
      <3>2. Len(u) = n
        BY <2>2, <3>1
      <3>3. QED
        BY <3>1, <3>2
    <2>5. /\ v \in Seq(Nat) /\ Len(v) = n /\ \A i \in 1 .. n : v[i] = d[i]
      <3>1. /\ v \in Seq(Nat) /\ Len(v) = IF Len(d) <= n THEN Len(d) ELSE n
            /\ \A i \in 1 .. Len(v) : v[i] = d[i]
        BY <2>3, FirstFacts
      <3> HIDE DEF v
      <3>2. Len(v) = n
        BY <1>1, <1>3, <2>2, <2>3, <3>1
      <3>3. QED
        BY <3>1, <3>2
    <2> HIDE DEF u, v
    <2>6. \A i \in 1 .. n : u[i] = v[i]
      <3> SUFFICES ASSUME NEW i \in 1 .. n PROVE u[i] = v[i]
        OBVIOUS
      <3>1. i \in 1 .. Len(s) /\ p[i] = s[i]
        BY <1>1, <2>1
      <3>2. QED
        BY <2>2, <2>3, <2>4, <2>5, <3>1
    <2>7. u = v
      BY <2>4, <2>5, <2>6, SeqEqual
    <2>8. QED
      BY <2>7 DEF u, v, c, d, p
  <1>4. QED
    BY <1>1, <1>2, <1>3

(* A list read up to a place and the stretch after it are the list read up *)
(* to the end of the stretch.                                              *)
LEMMA ReadOn ==
    ASSUME NEW s \in Seq(Nat), NEW k \in Nat, NEW n \in Nat, k <= Len(s)
    PROVE  LET part == Slice(s, k, n)
           IN  FirstOf(s, k) \o part = FirstOf(s, k + Len(part)) /\ k + Len(part) <= Len(s)
  <1> DEFINE part == Slice(s, k, n)
             m == k + Len(part)
             p == FirstOf(s, k)
             q == FirstOf(s, m)
             c == p \o part
  <1>1. /\ part \in Seq(Nat) /\ Len(part) \in Nat /\ Len(s) \in Nat
        /\ Len(part) # 0 => k + Len(part) <= Len(s)
        /\ \A i \in 1 .. Len(part) : part[i] = s[k + i]
    BY SliceFacts
  <1> HIDE DEF part
  <1>2. m \in Nat /\ m <= Len(s) /\ m = k + Len(part)
    BY <1>1
  <1> HIDE DEF m
  <1>3. p \in Seq(Nat) /\ Len(p) = k /\ \A i \in 1 .. k : p[i] = s[i]
    <2>1. /\ p \in Seq(Nat) /\ Len(p) = IF Len(s) <= k THEN Len(s) ELSE k
          /\ \A i \in 1 .. Len(p) : p[i] = s[i]
      BY FirstFacts
    <2> HIDE DEF p
    <2>2. Len(p) = k
      BY <1>1, <2>1
    <2>3. QED
      BY <2>1, <2>2
  <1>4. q \in Seq(Nat) /\ Len(q) = m /\ \A i \in 1 .. m : q[i] = s[i]
    <2>1. /\ q \in Seq(Nat) /\ Len(q) = IF Len(s) <= m THEN Len(s) ELSE m
          /\ \A i \in 1 .. Len(q) : q[i] = s[i]
      BY <1>2, FirstFacts
    <2> HIDE DEF q
    <2>2. Len(s) <= m => Len(s) = m
      BY <1>1, <1>2
    <2>3. Len(q) = m
      BY <2>1, <2>2
    <2>4. QED
      BY <2>1, <2>3
  <1> HIDE DEF p, q
  <1>5. /\ c \in Seq(Nat) /\ Len(c) = m
        /\ \A i \in 1 .. k : c[i] = p[i]
        /\ \A i \in Nat : i > k /\ i <= m => c[i] = part[i - k]
    <2>1. /\ c \in Seq(Nat) /\ Len(c) = Len(p) + Len(part)
          /\ \A i \in 1 .. Len(p) : c[i] = p[i]
          /\ \A i \in Nat : i > Len(p) /\ i <= Len(p) + Len(part) => c[i] = part[i - Len(p)]
      BY <1>1, <1>3, ConcatPlaces
    <2> HIDE DEF c
    <2>2. QED
      BY <1>2, <1>3, <2>1
  <1> HIDE DEF c
  <1>6. ASSUME NEW i \in 1 .. m PROVE c[i] = q[i]
    <2>1. CASE i <= k
      BY <1>3, <1>4, <1>5, <2>1
    <2>2. CASE i > k
      <3> DEFINE j == i - k
      <3>1. j \in 1 .. Len(part) /\ k + j = i
        BY <1>1, <1>2, <2>2
      <3>2. c[i] = part[j]
        BY <1>2, <1>5, <2>2
      <3> HIDE DEF j
      <3>3. part[j] = s[i]
        BY <1>1, <3>1
      <3>4. QED
        BY <1>4, <3>2, <3>3
    <2>3. QED
      BY <1>2, <2>1, <2>2
  <1>7. c = q
    BY <1>4, <1>5, <1>6, SeqEqual
  <1>8. QED
    BY <1>2, <1>7 DEF part, m, p, q, c

LEMMA NewestJoins ==
    ASSUME NEW S \in SUBSET Nat, NEW T \in SUBSET Nat, IsFiniteSet(S), IsFiniteSet(T),
           \A a \in S, b \in T : a > b
    PROVE  /\ NewestFirst(S) \o NewestFirst(T) = NewestFirst(S \cup T)
           /\ Cardinality(S \cup T) = Cardinality(S) + Cardinality(T)
  <1> DEFINE s == NewestFirst(S)
             t == NewestFirst(T)
             c == s \o t
             U == S \cup T
             n == Cardinality(U)
  <1>1. s \in Seq(S) /\ Falls(s) /\ Range(s) = S /\ Len(s) = Cardinality(S) /\ Cardinality(S) \in Nat
    BY NewestFacts
  <1>2. t \in Seq(T) /\ Falls(t) /\ Range(t) = T /\ Len(t) = Cardinality(T) /\ Cardinality(T) \in Nat
    BY NewestFacts
  <1> HIDE DEF s, t
  <1>3. n = Cardinality(S) + Cardinality(T) /\ IsFiniteSet(U) /\ n \in Nat
    <2>1. S \cap T = {}
      <3> SUFFICES ASSUME NEW a \in S, a \in T PROVE FALSE
        OBVIOUS
      <3>1. a > a /\ a \in Nat
        OBVIOUS
      <3>2. QED
        BY <3>1
    <2>2. IsFiniteSet(U) /\ n = Cardinality(S) + Cardinality(T) - Cardinality(S \cap T)
      BY FS_Union
    <2>3. Cardinality(S \cap T) = 0
      BY <2>1, FS_EmptySet
    <2>4. QED
      BY <1>1, <1>2, <2>2, <2>3
  <1>4. s \in Seq(Nat) /\ t \in Seq(Nat)
    BY <1>1, <1>2, SeqWidens
  <1>5. Falls(c)
    <2>1. \A i \in DOMAIN s, j \in DOMAIN t : s[i] > t[j]
      BY <1>1, <1>2 DEF Range
    <2>2. QED
      BY <1>1, <1>2, <1>4, <2>1, ConcatFalls
  <1>6. c \in [1 .. n -> U]
    <2>1. s \in Seq(U) /\ t \in Seq(U)
      BY <1>1, <1>2, SeqWidens
    <2>2. c \in Seq(U) /\ Len(c) = Len(s) + Len(t)
      BY <2>1
    <2> HIDE DEF c
    <2>3. Len(c) = n
      BY <1>1, <1>2, <1>3, <2>2
    <2>4. c \in [1 .. Len(c) -> U]
      BY <2>2, SeqDef, LenProperties
    <2>5. QED
      BY <2>3, <2>4, Zenon
  <1>7. U \in SUBSET Nat
    OBVIOUS
  <1> HIDE DEF U, c
  <1>8. c = NewestFirst(U)
    BY <1>3, <1>5, <1>6, <1>7, OrderIsUnique
  <1>9. QED
    BY <1>3, <1>8 DEF U, c, s, t

(* As many elements as places. *)
LEMMA InjectiveCounts ==
    ASSUME NEW s \in Seq(Nat), IsInjective(s)
    PROVE  IsFiniteSet(Range(s)) /\ Cardinality(Range(s)) = Len(s) /\ Len(s) \in Nat
  <1> DEFINE n == Len(s)
             R == Range(s)
  <1>1. n \in Nat /\ s \in [1 .. n -> Nat]
    OBVIOUS
  <1> HIDE DEF n
  <1>2. s \in [1 .. n -> R]
    BY <1>1 DEF Range
  <1>3. s \in Injection(1 .. n, R) /\ s \in Surjection(1 .. n, R)
    <2>1. \A r \in R : \E i \in 1 .. n : s[i] = r
      BY <1>1 DEF Range
    <2> HIDE DEF R
    <2>2. QED
      BY <1>1, <1>2, <2>1 DEF Injection, Surjection, IsInjective
  <1>4. IsFiniteSet(1 .. n) /\ Cardinality(1 .. n) = n
    BY <1>1, FS_Interval
  <1>5. IsFiniteSet(R) /\ Cardinality(R) <= n
    BY <1>3, <1>4, FS_Surjection
  <1>6. n <= Cardinality(R)
    BY <1>3, <1>4, <1>5, FS_Injection
  <1>7. Cardinality(R) \in Nat
    BY <1>5, FS_CardinalityType
  <1> HIDE DEF R
  <1>8. Cardinality(R) = n
    BY <1>1, <1>5, <1>6, <1>7
  <1>9. QED
    BY <1>1, <1>5, <1>8 DEF n, R

LEMMA FallsInjective ==
    ASSUME NEW s \in Seq(Nat), Falls(s)
    PROVE  IsInjective(s)
  <1> SUFFICES ASSUME NEW i \in DOMAIN s, NEW j \in DOMAIN s, s[i] = s[j] PROVE i = j
    BY DEF IsInjective
  <1>1. i \in Nat /\ j \in Nat /\ s[i] \in Nat /\ s[j] \in Nat
    OBVIOUS
  <1>2. ~(i < j) /\ ~(j < i)
    BY <1>1 DEF Falls
  <1>3. QED
    BY <1>1, <1>2

LEMMA ConcatInjective ==
    ASSUME NEW s \in Seq(Nat), NEW t \in Seq(Nat), IsInjective(s), IsInjective(t),
           Range(s) \cap Range(t) = {}
    PROVE  IsInjective(s \o t)
  <1> DEFINE n == Len(s)
             m == Len(t)
             c == s \o t
  <1>1. /\ c \in Seq(Nat) /\ Len(c) = n + m /\ n \in Nat /\ m \in Nat
        /\ \A i \in 1 .. n : c[i] = s[i]
        /\ \A i \in Nat : i > n /\ i <= n + m => c[i] = t[i - n]
    BY ConcatPlaces
  <1>2. DOMAIN c = 1 .. n + m /\ DOMAIN s = 1 .. n /\ DOMAIN t = 1 .. m
    BY <1>1
  <1> HIDE DEF c, n, m
  <1>3. ASSUME NEW i \in 1 .. n + m
        PROVE  \/ i \in DOMAIN s /\ c[i] = s[i]
               \/ i > n /\ i - n \in DOMAIN t /\ c[i] = t[i - n]
    BY <1>1, <1>2
  <1>4. ASSUME NEW i \in 1 .. n + m, NEW j \in 1 .. n + m, c[i] = c[j], i < j PROVE FALSE
    <2>1. CASE i \in DOMAIN s /\ j \in DOMAIN s
      <3>1. c[i] = s[i] /\ c[j] = s[j]
        BY <1>1, <1>2, <2>1
      <3>2. i = j
        BY <1>4, <2>1, <3>1 DEF IsInjective
      <3>3. QED
        BY <1>4, <3>2
    <2>2. CASE i \in DOMAIN s /\ j \notin DOMAIN s
      <3>1. c[i] = s[i] /\ j - n \in DOMAIN t /\ c[j] = t[j - n]
        BY <1>1, <1>2, <1>3, <2>2
      <3>2. s[i] \in Range(s) /\ t[j - n] \in Range(t)
        BY <2>2, <3>1 DEF Range
      <3>3. QED
        BY <1>4, <3>1, <3>2
    <2>3. CASE i \notin DOMAIN s
      <3> DEFINE a == i - n
                 b == j - n
      <3>1. j \notin DOMAIN s
        BY <1>1, <1>2, <1>4, <2>3
      <3>2. a \in DOMAIN t /\ b \in DOMAIN t /\ c[i] = t[a] /\ c[j] = t[b] /\ a < b
        BY <1>1, <1>3, <1>4, <2>3, <3>1
      <3>3. a \in Nat /\ b \in Nat
        BY <1>2, <3>2
      <3> HIDE DEF a, b
      <3>4. a = b
        BY <1>4, <3>2 DEF IsInjective
      <3>5. QED
        BY <3>2, <3>3, <3>4
    <2>4. QED
      BY <2>1, <2>2, <2>3
  <1>5. ASSUME NEW i \in DOMAIN c, NEW j \in DOMAIN c, c[i] = c[j] PROVE i = j
    <2>1. i \in 1 .. n + m /\ j \in 1 .. n + m /\ i \in Nat /\ j \in Nat
      BY <1>1, <1>2
    <2>2. ~(i < j) /\ ~(j < i)
      BY <1>4, <1>5, <2>1
    <2>3. QED
      BY <2>1, <2>2
  <1>6. IsInjective(c)
    BY <1>5 DEF IsInjective
  <1>7. QED
    BY <1>6 DEF c
-----------------------------------------------------------------------------
(* Reading a table nobody changes *)

(* The groups of some rows, by shape. *)
GroupOf(S) == [ids |-> FirstOf(NewestFirst(S), GroupIdsCap), count |-> Cardinality(S)]
GroupsOf(S) == [s \in {rows[d].shape : d \in S} |-> GroupOf({d \in S : rows[d].shape = s})]

(* Until something changes, the counts are those of the table, and what    *)
(* was shipped or grouped is the part of it that was read.                 *)
CountsHold ==
    /\ rd.pc \in {"normalized", "page", "done"} /\ rd.op \in {"export", "ids"} =>
         rd.total = LimitTo(Cardinality(Matching(rd)))
    /\ rd.pc \in {"page", "done"} /\ rd.op \in {"export", "ids"} =>
         rd.normalized = LimitTo(Cardinality(Normalized(Matching(rd))))
ExportHolds ==
    rd.op = "export" =>
      /\ rd.pc = "page" => Range(rd.shipped) = {d \in Matching(rd) : rd.last # 0 /\ d >= rd.last}
      /\ rd.pc = "done" => /\ rd.total = Len(rd.shipped)
                           /\ rd.limit = NoLimit => Range(rd.shipped) = Matching(rd)
PinnedHolds ==
    rd.op = "ids" /\ IsInjective(rd.ids) =>
      /\ rd.pc = "page" =>
           Range(rd.shipped) = Matching(rd) \cap {Wanted[i] : i \in 1 .. rd.offset}
      /\ rd.pc = "done" => Range(rd.shipped) = Matching(rd)
      /\ IsInjective(rd.shipped)
GroupsHold ==
    rd.op = "groups" =>
      /\ rd.pc = "scan" => /\ rd.shipped = FirstOf(NewestFirst(Matching(rd)), rd.offset)
                           /\ rd.offset <= Cardinality(Matching(rd))
                           /\ rd.groups = GroupsOf(Range(rd.shipped))
      /\ rd.pc = "done" => rd.groups = GroupsOf(Matching(rd))

QuietInv == rd.quiet => CountsHold /\ ExportHolds /\ PinnedHolds /\ GroupsHold

LEMMA GroupsJoin ==
    ASSUME rows \in Seq(Row), NEW A \in SUBSET RowIds, NEW B \in SUBSET RowIds,
           \A a \in A, b \in B : a > b
    PROVE  Bucketed(GroupsOf(A), B) = GroupsOf(A \cup B)
  <1> DEFINE g == GroupsOf(A)
             Of(S, s) == {d \in S : rows[d].shape = s}
             Shapes1(S) == {rows[d].shape : d \in S}
             Had(s) == IF s \in DOMAIN g THEN g[s] ELSE [ids |-> <<>>, count |-> 0]
             N(s) == [ids |-> FirstOf(Had(s).ids \o NewestFirst(Of(B, s)), GroupIdsCap),
                      count |-> Had(s).count + Cardinality(Of(B, s))]
             G(s) == GroupOf(Of(A \cup B, s))
  <1>1. Bucketed(g, B) = [s \in DOMAIN g \cup Shapes1(B) |-> N(s)]
    BY DEF Bucketed
  <1>2. DOMAIN g = Shapes1(A) /\ \A s \in Shapes1(A) : g[s] = GroupOf(Of(A, s))
    BY DEF GroupsOf
  <1>3. GroupsOf(A \cup B) = [s \in Shapes1(A \cup B) |-> G(s)]
    BY DEF GroupsOf
  <1>4. Shapes1(A \cup B) = Shapes1(A) \cup Shapes1(B)
    OBVIOUS
  <1> HIDE DEF g
  <1>5. ASSUME NEW s PROVE N(s) = G(s)
    <2> DEFINE X == Of(A, s)
               Y == Of(B, s)
               c == GroupIdsCap
    <2>1. /\ X \in SUBSET RowIds /\ Y \in SUBSET RowIds /\ Of(A \cup B, s) = X \cup Y
          /\ \A a \in X, b \in Y : a > b
      OBVIOUS
    <2>2. s \notin Shapes1(A) => X = {}
      OBVIOUS
    <2> HIDE DEF Of, Shapes1, X, Y
    <2>3. /\ X \in SUBSET Nat /\ Y \in SUBSET Nat /\ IsFiniteSet(X) /\ IsFiniteSet(Y)
          /\ c \in Nat
      BY <2>1, RowSets, ViewBoundAssumption
    <2> DEFINE x == NewestFirst(X)
               y == NewestFirst(Y)
    <2>4. x \in Seq(Nat) /\ y \in Seq(Nat)
      BY <2>1, SetsInOrder
    <2>5. /\ x \o y = NewestFirst(X \cup Y)
          /\ Cardinality(X \cup Y) = Cardinality(X) + Cardinality(Y)
      BY <2>1, <2>3, NewestJoins
    <2>6. Had(s).ids = FirstOf(x, c) /\ Had(s).count = Cardinality(X)
      <3>1. CASE s \in Shapes1(A)
        <4>1. Had(s) = GroupOf(X)
          BY <1>2, <3>1 DEF X
        <4>2. QED
          BY <4>1 DEF GroupOf
      <3>2. CASE s \notin Shapes1(A)
        <4>1. Had(s).ids = <<>> /\ Had(s).count = 0
          BY <1>2, <3>2
        <4>2. X = {} /\ Cardinality(X) = 0
          BY <2>2, <3>2, FS_EmptySet
        <4>3. Len(x) = 0
          BY <2>3, <4>2, NewestFacts
        <4>4. x = <<>>
          BY <2>4, <4>3
        <4>5. FirstOf(x, c) = <<>>
          <5>1. Len(x) <= c /\ (Len(x) <= c => FirstOf(x, c) = x)
            BY <2>3, <2>4, <4>3, FirstFacts
          <5>2. QED
            BY <4>4, <5>1
        <4>6. QED
          BY <4>1, <4>2, <4>5
      <3>3. QED
        BY <3>1, <3>2
    <2>7. FirstOf(FirstOf(x, c) \o y, c) = FirstOf(x \o y, c)
      BY <2>3, <2>4, CutEarly
    <2>8. N(s) = [ids |-> FirstOf(FirstOf(x, c) \o y, c), count |-> Cardinality(X) + Cardinality(Y)]
      BY <2>6 DEF Y
    <2>9. G(s) = [ids |-> FirstOf(NewestFirst(X \cup Y), c), count |-> Cardinality(X \cup Y)]
      BY <2>1 DEF GroupOf
    <2> HIDE DEF N, G, x, y
    <2>10. QED
      BY <2>5, <2>7, <2>8, <2>9 DEF x, y
  <1> HIDE DEF N, G, Shapes1
  <1>6. [s \in DOMAIN g \cup Shapes1(B) |-> N(s)] = [s \in Shapes1(A \cup B) |-> G(s)]
    BY <1>2, <1>4, <1>5
  <1>7. QED
    BY <1>1, <1>3, <1>6 DEF g

(* Nothing was read, nothing is grouped. *)
LEMMA NoGroups == GroupsOf({}) = <<>>
  <1>1. {rows[d].shape : d \in {}} = {}
    OBVIOUS
  <1>2. GroupsOf({}) = [s \in {} |-> GroupOf({d \in {} : rows[d].shape = s})]
    BY <1>1 DEF GroupsOf
  <1>3. QED
    BY <1>2

-----------------------------------------------------------------------------
(* The steps of a reader keep what was read exact *)

LEMMA EmptyInjective == IsInjective(<<>>)
  BY DEF IsInjective

LEMMA QuietInit == ViewsInit => QuietInv
  <1> SUFFICES ASSUME ViewsInit PROVE QuietInv
    OBVIOUS
  <1>1. rd.op = "none"
    BY NoReaderFacts DEF ViewsInit
  <1>2. QED
    BY <1>1 DEF QuietInv, CountsHold, ExportHolds, PinnedHolds, GroupsHold

(* A request that has read nothing yet. *)
LEMMA RequestQuiet ==
    ASSUME \/ rd'.op \in {"none", "types"}
           \/ rd'.pc = "total" /\ rd'.op \in {"export", "ids"} /\ rd'.shipped = <<>>
    PROVE  QuietInv'
  <1>1. IsInjective(<<>>)
    BY EmptyInjective
  <1>2. QED
    BY <1>1 DEF QuietInv, CountsHold, ExportHolds, PinnedHolds, GroupsHold

LEMMA CommitQuiet ==
    ASSUME WalkInv, QuietInv, Commit(rows')
    PROVE  QuietInv'
  <1>1. rd \in Reader /\ Phases
    BY DEF WalkInv, Phases
  <1>2. CASE rd.pc = "idle"
    <2>1. rd' = NoReader
      BY <1>1, <1>2 DEF Phases, Commit
    <2>2. QED
      BY <2>1, NoReaderFacts, RequestQuiet
  <1>3. CASE rd.pc # "idle"
    <2>1. /\ rd' \in Reader
          /\ rd'.op = rd.op /\ rd'.pc = rd.pc /\ rd'.filter = rd.filter /\ rd'.ids = rd.ids
          /\ rd'.limit = rd.limit /\ rd'.total = rd.total /\ rd'.normalized = rd.normalized
          /\ rd'.last = rd.last /\ rd'.offset = rd.offset /\ rd'.shipped = rd.shipped
          /\ rd'.groups = rd.groups
          /\ rd'.quiet => rd.quiet /\ (rd.pc = "total" \/ rows' = rows)
      BY <1>1, <1>3, CommitKeeps
    <2>2. CASE rd.pc = "total"
      <3>1. rd.op \in {"export", "ids"} /\ rd.shipped = <<>>
        BY <1>1, <2>2 DEF Phases
      <3>2. QED
        BY <2>1, <2>2, <3>1, RequestQuiet
    <2>3. CASE rd.pc # "total"
      <3> SUFFICES ASSUME rd'.quiet
                   PROVE  CountsHold' /\ ExportHolds' /\ PinnedHolds' /\ GroupsHold'
        BY DEF QuietInv
      <3>1. rows' = rows /\ rd.quiet
        BY <2>1, <2>3
      <3>2. CountsHold /\ ExportHolds /\ PinnedHolds /\ GroupsHold
        BY <3>1 DEF QuietInv
      <3>3. Matching(rd)' = Matching(rd) /\ Wanted' = Wanted
        BY <2>1, <3>1, SameRequest
      <3>4. CountsHold'
        BY <2>1, <3>1, <3>2, <3>3 DEF CountsHold, LimitTo, Normalized
      <3>5. ExportHolds'
        BY <2>1, <3>2, <3>3 DEF ExportHolds
      <3>6. PinnedHolds'
        BY <2>1, <3>2, <3>3 DEF PinnedHolds
      <3>7. GroupsHold'
        BY <2>1, <3>1, <3>2, <3>3 DEF GroupsHold, GroupsOf
      <3>8. QED
        BY <3>4, <3>5, <3>6, <3>7
    <2>4. QED
      BY <2>2, <2>3
  <1>4. QED
    BY <1>2, <1>3

LEMMA CountQuiet ==
    ASSUME WalkInv, QuietInv, rows \in Seq(Row), CountTotal \/ CountNormalized
    PROVE  QuietInv'
  <1>1. rd \in Reader /\ Phases
    BY DEF WalkInv, Phases
  <1> DEFINE M == Matching(rd)
             t == LimitTo(Cardinality(M))
             n == LimitTo(Cardinality(Normalized(M)))
  <1>2. M = Matching(rd) /\ t = LimitTo(Cardinality(M)) /\ n = LimitTo(Cardinality(Normalized(M)))
    OBVIOUS
  <1>3. IsInjective(<<>>)
    BY EmptyInjective
  <1>4. CASE CountTotal
    <2>1. /\ rd' = [rd EXCEPT !.pc = "normalized", !.quiet = TRUE, !.steady = M, !.total = t]
          /\ rd.pc = "total" /\ rows' = rows
      BY <1>4 DEF CountTotal
    <2> HIDE DEF M, t, n
    <2>2. /\ rd'.op = rd.op /\ rd'.pc = "normalized" /\ rd'.filter = rd.filter
          /\ rd'.ids = rd.ids /\ rd'.limit = rd.limit /\ rd'.total = t
          /\ rd'.shipped = rd.shipped
      BY <1>1, <2>1 DEF Reader
    <2>3. Matching(rd)' = M
      BY <1>2, <2>1, <2>2, SameRequest
    <2>4. rd.op \in {"export", "ids"} /\ rd.shipped = <<>>
      BY <1>1, <2>1 DEF Phases
    <2>5. CountsHold'
      BY <1>2, <2>2, <2>3 DEF CountsHold, LimitTo
    <2>6. ExportHolds' /\ PinnedHolds' /\ GroupsHold'
      BY <1>3, <2>2, <2>4 DEF ExportHolds, PinnedHolds, GroupsHold
    <2>7. QED
      BY <2>5, <2>6 DEF QuietInv
  <1>5. CASE CountNormalized
    <2>1. /\ rd' = [rd EXCEPT !.pc = "page", !.normalized = n]
          /\ rd.pc = "normalized" /\ rows' = rows
      BY <1>5 DEF CountNormalized
    <2> HIDE DEF M, t, n
    <2>2. /\ rd'.op = rd.op /\ rd'.pc = "page" /\ rd'.filter = rd.filter
          /\ rd'.ids = rd.ids /\ rd'.limit = rd.limit /\ rd'.total = rd.total
          /\ rd'.normalized = n /\ rd'.quiet = rd.quiet /\ rd'.last = rd.last
          /\ rd'.shipped = rd.shipped /\ rd'.offset = rd.offset
      BY <1>1, <2>1 DEF Reader
    <2>3. Matching(rd)' = M /\ Wanted' = Wanted
      BY <1>2, <2>1, <2>2, SameRequest
    <2>4. rd.op \in {"export", "ids"} /\ rd.shipped = <<>> /\ rd.last = 0 /\ rd.offset = 0
      BY <1>1, <2>1 DEF Phases
    <2>5. rd.quiet => CountsHold'
      <3> SUFFICES ASSUME rd.quiet PROVE CountsHold'
        OBVIOUS
      <3>1. rd.total = t
        BY <1>2, <2>1, <2>4 DEF QuietInv, CountsHold
      <3>2. Normalized(Matching(rd))' = Normalized(M)
        BY <2>1, <2>3 DEF Normalized
      <3>3. QED
        BY <1>2, <2>2, <2>3, <3>1, <3>2 DEF CountsHold, LimitTo
    <2>6. Range(<<>>) = {}
      BY DEF Range
    <2>7. ExportHolds' /\ PinnedHolds' /\ GroupsHold'
      BY <1>3, <2>2, <2>3, <2>4, <2>6 DEF ExportHolds, PinnedHolds, GroupsHold
    <2>8. QED
      BY <2>2, <2>5, <2>7 DEF QuietInv
  <1>6. QED
    BY <1>4, <1>5

LEMMA PageQuiet ==
    ASSUME WalkInv, QuietInv, rows \in Seq(Row), NextPage
    PROVE  QuietInv'
  <1> DEFINE M == Matching(rd)
             below == {d \in M : rd.last = 0 \/ d < rd.last}
             page == FirstOf(NewestFirst(below), Chunk)
             room == IF rd.limit = NoLimit THEN Len(page) ELSE rd.limit - Len(rd.shipped)
             out == FirstOf(page, room)
             was == rd.shipped
             all == was \o out
  <1>1. /\ rd.pc = "page" /\ rd.op = "export" /\ rows' = rows
        /\ rd' = IF page = <<>> \/ Len(out) < Len(page)
                 THEN [rd EXCEPT !.pc = "done", !.shipped = all]
                 ELSE [rd EXCEPT !.shipped = all, !.last = Last(page)]
    BY DEF NextPage
  <1>2. /\ rd \in Reader /\ rd.last \in Nat /\ was \in Seq(Nat) /\ Len(was) \in Nat
        /\ \A d \in Range(was) : d >= rd.last
        /\ rd.last = 0 => was = <<>>
        /\ rd.limit = NoLimit \/ rd.limit \in Nat
    <2>1. rd \in Reader
      BY DEF WalkInv, Phases
    <2>2. (\A d \in Range(was) : d >= rd.last) /\ (rd.last = 0 => was = <<>>)
      BY <1>1 DEF WalkInv, Walked
    <2>3. rd.last \in Nat /\ was \in Seq(Nat) /\ (rd.limit = NoLimit \/ rd.limit \in Nat)
      BY <2>1 DEF Reader
    <2>4. QED
      BY <2>1, <2>2, <2>3
  <1>3. /\ page \in Seq(Nat) /\ Len(page) \in Nat /\ Range(page) \subseteq below
        /\ page = <<>> => below = {}
        /\ page # <<>> => /\ Len(page) # 0 /\ Last(page) \in below
                          /\ \A d \in Range(page) : d >= Last(page)
                          /\ \A d \in below : d >= Last(page) => d \in Range(page)
        /\ out \in Seq(Nat) /\ Len(out) \in Nat /\ Len(out) <= Len(page)
        /\ Range(out) \subseteq Range(page)
        /\ ~(Len(out) < Len(page)) => out = page
        /\ rd.limit = NoLimit => out = page
        /\ rd.limit # NoLimit => Len(was) + Len(out) <= rd.limit
        /\ rd.limit # NoLimit /\ Len(out) < Len(page) => Len(was) + Len(out) = rd.limit
        /\ all \in Seq(Nat) /\ Falls(all) /\ Len(all) = Len(was) + Len(out)
        /\ Range(all) = Range(was) \cup Range(out)
    BY <1>1, PageShips
  <1>4. M \in SUBSET RowIds /\ below \subseteq M /\ M = Matching(rd)
    BY MatchingRows
  <1>5. \A d \in M : d \in below <=> rd.last = 0 \/ d < rd.last
    OBVIOUS
  <1> HIDE DEF M, below, page, room, out, was, all
  <1>6. M \in SUBSET Nat /\ 0 \notin M /\ IsFiniteSet(M) /\ Cardinality(M) \in Nat
    BY <1>4, RowSets
  <1>7. ASSUME rd.quiet
        PROVE  /\ Range(was) = {d \in M : rd.last # 0 /\ d >= rd.last}
               /\ rd.total = LimitTo(Cardinality(M))
               /\ rd.normalized = LimitTo(Cardinality(Normalized(M)))
    BY <1>1, <1>4, <1>7 DEF QuietInv, CountsHold, ExportHolds, was
  <1>8. Len(all) = Cardinality(Range(all)) /\ Len(all) \in Nat /\ IsFiniteSet(Range(all))
    BY <1>3, FallsInjective, InjectiveCounts
  <1>9. CASE page = <<>> \/ Len(out) < Len(page)
    <2>1. rd' = [rd EXCEPT !.pc = "done", !.shipped = all]
      BY <1>1, <1>9
    <2>2. /\ rd'.op = rd.op /\ rd'.pc = "done" /\ rd'.filter = rd.filter
          /\ rd'.ids = rd.ids /\ rd'.limit = rd.limit /\ rd'.total = rd.total
          /\ rd'.normalized = rd.normalized /\ rd'.quiet = rd.quiet /\ rd'.shipped = all
      BY <1>2, <2>1 DEF Reader
    <2>3. Matching(rd)' = M
      BY <1>1, <1>4, <2>2, SameRequest
    <2> SUFFICES ASSUME rd.quiet
                 PROVE  CountsHold' /\ ExportHolds' /\ PinnedHolds' /\ GroupsHold'
      BY <2>2 DEF QuietInv
    <2>4. CountsHold'
      <3>1. Normalized(Matching(rd))' = Normalized(M)
        BY <1>1, <2>3 DEF Normalized
      <3>2. QED
        BY <1>7, <2>2, <2>3, <3>1 DEF CountsHold, LimitTo
    <2>5. page = <<>> => Range(all) = M
      <3> SUFFICES ASSUME page = <<>> PROVE Range(all) = M
        OBVIOUS
      <3>1. below = {} /\ Range(out) = {}
        BY <1>3 DEF Range
      <3>2. \A d \in M : rd.last # 0 /\ d >= rd.last
        BY <1>2, <1>5, <1>6, <3>1
      <3>3. QED
        BY <1>3, <1>7, <3>1, <3>2
    <2>6. rd.limit = NoLimit => Range(all) = M
      <3> SUFFICES ASSUME rd.limit = NoLimit PROVE page = <<>>
        BY <2>5
      <3>1. out = page
        BY <1>3
      <3>2. QED
        BY <1>3, <1>9, <3>1
    <2>7. rd.total = Len(all)
      <3>1. CASE rd.limit = NoLimit
        BY <1>2, <1>6, <1>7, <1>8, <2>6, <3>1, LimitFacts
      <3>2. CASE rd.limit # NoLimit /\ Len(out) < Len(page)
        <4>1. Len(all) = rd.limit
          BY <1>3, <3>2
        <4>2. Range(all) \subseteq M
          BY <1>3, <1>4, <1>7
        <4>3. Cardinality(Range(all)) <= Cardinality(M)
          BY <1>6, <4>2, FS_Subset
        <4>4. Cardinality(M) >= rd.limit
          BY <1>6, <1>8, <4>1, <4>3
        <4>5. QED
          BY <1>2, <1>6, <1>7, <3>2, <4>1, <4>4, LimitFacts
      <3>3. CASE rd.limit # NoLimit /\ ~(Len(out) < Len(page))
        <4>1. Cardinality(M) = Len(all)
          BY <1>8, <1>9, <2>5, <3>3
        <4>2. Len(all) <= rd.limit
          BY <1>3, <3>3
        <4>3. QED
          BY <1>2, <1>6, <1>7, <3>3, <4>1, <4>2, LimitFacts
      <3>4. QED
        BY <3>1, <3>2, <3>3
    <2>8. ExportHolds'
      BY <2>2, <2>3, <2>6, <2>7 DEF ExportHolds
    <2>9. QED
      BY <1>1, <2>2, <2>4, <2>8 DEF PinnedHolds, GroupsHold
  <1>10. CASE ~(page = <<>> \/ Len(out) < Len(page))
    <2> DEFINE e == Last(page)
    <2>1. rd' = [rd EXCEPT !.shipped = all, !.last = e]
      BY <1>1, <1>10
    <2>2. /\ page # <<>> /\ out = page /\ e \in below /\ e \in Nat
          /\ \A d \in Range(page) : d >= e
          /\ \A d \in below : d >= e => d \in Range(page)
      BY <1>3, <1>4, <1>6, <1>10
    <2> HIDE DEF e
    <2>3. /\ rd'.op = rd.op /\ rd'.pc = rd.pc /\ rd'.filter = rd.filter
          /\ rd'.ids = rd.ids /\ rd'.limit = rd.limit /\ rd'.total = rd.total
          /\ rd'.normalized = rd.normalized /\ rd'.quiet = rd.quiet /\ rd'.shipped = all
          /\ rd'.last = e
      BY <1>2, <2>1 DEF Reader
    <2>4. Matching(rd)' = M
      BY <1>1, <1>4, <2>3, SameRequest
    <2> SUFFICES ASSUME rd.quiet
                 PROVE  CountsHold' /\ ExportHolds' /\ PinnedHolds' /\ GroupsHold'
      BY <2>3 DEF QuietInv
    <2>5. CountsHold'
      <3>1. Normalized(Matching(rd))' = Normalized(M)
        BY <1>1, <2>4 DEF Normalized
      <3>2. QED
        BY <1>7, <1>1, <2>3, <2>4, <3>1 DEF CountsHold, LimitTo
    <2>6. e # 0 /\ e \in M
      BY <1>4, <1>6, <2>2
    <2>7. Range(all) = {d \in M : d >= e}
      <3>1. ASSUME NEW d \in Range(was) PROVE d \in M /\ d >= e
        <4>1. d \in M /\ rd.last # 0 /\ d >= rd.last
          BY <1>7, <3>1
        <4>2. e < rd.last
          BY <1>5, <2>2, <2>6, <4>1
        <4>3. d \in Nat
          BY <1>6, <4>1
        <4>4. QED
          BY <1>2, <2>2, <4>1, <4>2, <4>3
      <3>2. ASSUME NEW d \in Range(page) PROVE d \in M /\ d >= e
        BY <1>3, <1>4, <2>2
      <3>3. ASSUME NEW d \in M, d >= e PROVE d \in Range(was) \cup Range(page)
        <4>1. CASE d \in below
          BY <2>2, <3>3, <4>1
        <4>2. CASE d \notin below
          <5>1. rd.last # 0 /\ d >= rd.last
            BY <1>2, <1>5, <1>6, <4>2
          <5>2. QED
            BY <1>7, <5>1
        <4>3. QED
          BY <4>1, <4>2
      <3>4. Range(all) = Range(was) \cup Range(page)
        BY <1>3, <2>2
      <3>5. QED
        BY <3>1, <3>2, <3>3, <3>4
    <2>8. ExportHolds'
      BY <1>1, <2>3, <2>4, <2>6, <2>7 DEF ExportHolds
    <2>9. QED
      BY <1>1, <2>3, <2>5, <2>8 DEF PinnedHolds, GroupsHold
  <1>11. QED
    BY <1>9, <1>10

(* Part of a list without repeats has none. *)
LEMMA WantedInjective ==
    ASSUME rd \in Reader, IsInjective(rd.ids)
    PROVE  IsInjective(Wanted)
  <1>1. rd.ids \in Seq(Nat) /\ (rd.limit = NoLimit \/ rd.limit \in Nat)
    BY DEF Reader
  <1>2. CASE rd.limit = NoLimit
    BY <1>2 DEF Wanted
  <1>3. CASE rd.limit # NoLimit
    <2> DEFINE s == rd.ids
               n == rd.limit
               p == FirstOf(s, n)
    <2>1. n \in Nat /\ s \in Seq(Nat) /\ IsInjective(s) /\ Wanted = p
      BY <1>1, <1>3 DEF Wanted
    <2> HIDE DEF s, n
    <2>2. /\ p \in Seq(Nat) /\ Len(s) \in Nat /\ Len(p) \in Nat
          /\ \A i \in 1 .. Len(p) : i \in 1 .. Len(s) /\ p[i] = s[i]
      BY <2>1, FirstFacts
    <2> HIDE DEF p
    <2>3. DOMAIN p = 1 .. Len(p) /\ DOMAIN s = 1 .. Len(s)
      BY <2>1, <2>2
    <2>4. IsInjective(p)
      BY <2>1, <2>2, <2>3 DEF IsInjective
    <2>5. QED
      BY <2>1, <2>4
  <1>4. QED
    BY <1>2, <1>3

LEMMA PinnedQuiet ==
    ASSUME WalkInv, QuietInv, rows \in Seq(Row), NextPinned
    PROVE  QuietInv'
  <1> DEFINE M == Matching(rd)
             k == rd.offset
             w == Wanted
             part == Slice(w, k, Chunk)
             some == M \cap Range(part)
             was == rd.shipped
             new == NewestFirst(some)
             all == was \o new
             n == k + Len(part)
  <1>1. /\ rd \in Reader /\ rd.pc = "page" /\ rd.op = "ids" /\ rows' = rows
        /\ rd' = IF part = <<>> THEN [rd EXCEPT !.pc = "done"]
                 ELSE [rd EXCEPT !.offset = n, !.shipped = all]
        /\ was \in Seq(Nat)
    BY DEF NextPinned, WalkInv, Phases, Reader
  <1>2. /\ k \in Nat /\ part \in Seq(Nat) /\ Len(part) \in Nat
        /\ part = <<>> => k = Len(w)
        /\ n <= Len(w)
        /\ \A i \in 1 .. n : i \in 1 .. k \/ w[i] \in Range(part)
        /\ \A i \in DOMAIN part : k + i \in 1 .. n /\ k + i > k /\ part[i] = w[k + i]
    BY <1>1, PinnedPart
  <1>3. w \in Seq(Nat) /\ Len(w) \in Nat /\ DOMAIN w = 1 .. Len(w)
    BY <1>1, WantedFacts
  <1>4. M \in SUBSET RowIds /\ M = Matching(rd) /\ w = Wanted /\ k = rd.offset
    BY MatchingRows
  <1>5. M \subseteq Range(w)
    BY <1>1 DEF Matching
  <1>6. /\ new \in Seq(Nat) /\ Range(new) = some /\ IsInjective(new)
    <2>1. some \in SUBSET RowIds
      BY <1>4
    <2> HIDE DEF some
    <2>2. some \in SUBSET Nat /\ IsFiniteSet(some)
      BY <2>1, RowSets
    <2>3. QED
      BY <2>1, <2>2, SetsInOrder, NewestFacts
  <1>7. some = M \cap Range(part) /\ n = k + Len(part) /\ was = rd.shipped
    OBVIOUS
  <1> HIDE DEF M, k, w, part, some, was, new
  <1>8. all \in Seq(Nat) /\ Range(all) = Range(was) \cup some
    BY <1>1, <1>6, ConcatFacts
  <1> DEFINE Head1 == {w[i] : i \in 1 .. k}
             Head2 == {w[i] : i \in 1 .. n}
  <1>9. ASSUME rd.quiet
        PROVE  /\ rd.total = LimitTo(Cardinality(M))
               /\ rd.normalized = LimitTo(Cardinality(Normalized(M)))
               /\ IsInjective(rd.ids) => Range(was) = M \cap Head1 /\ IsInjective(was)
    BY <1>1, <1>4, <1>7, <1>9 DEF QuietInv, CountsHold, PinnedHolds
  <1>10. CASE part = <<>>
    <2>1. rd' = [rd EXCEPT !.pc = "done"]
      BY <1>1, <1>10
    <2>2. /\ rd'.op = rd.op /\ rd'.pc = "done" /\ rd'.filter = rd.filter
          /\ rd'.ids = rd.ids /\ rd'.limit = rd.limit /\ rd'.total = rd.total
          /\ rd'.normalized = rd.normalized /\ rd'.quiet = rd.quiet /\ rd'.shipped = was
      BY <1>1, <1>7, <2>1 DEF Reader
    <2>3. Matching(rd)' = M
      BY <1>1, <1>4, <2>2, SameRequest
    <2> SUFFICES ASSUME rd.quiet
                 PROVE  CountsHold' /\ ExportHolds' /\ PinnedHolds' /\ GroupsHold'
      BY <2>2 DEF QuietInv
    <2>4. CountsHold'
      <3>1. Normalized(Matching(rd))' = Normalized(M)
        BY <1>1, <2>3 DEF Normalized
      <3>2. QED
        BY <1>9, <2>2, <2>3, <3>1 DEF CountsHold, LimitTo
    <2>5. Head1 = Range(w)
      BY <1>2, <1>3, <1>10 DEF Range
    <2>6. IsInjective(rd.ids) => Range(was) = M /\ IsInjective(was)
      BY <1>5, <1>9, <2>5
    <2>7. PinnedHolds'
      BY <2>2, <2>3, <2>6 DEF PinnedHolds
    <2>8. QED
      BY <1>1, <2>2, <2>4, <2>7 DEF ExportHolds, GroupsHold
  <1>11. CASE part # <<>>
    <2>1. rd' = [rd EXCEPT !.offset = n, !.shipped = all]
      BY <1>1, <1>11
    <2> HIDE DEF n, all
    <2>2. /\ rd'.op = rd.op /\ rd'.pc = rd.pc /\ rd'.filter = rd.filter
          /\ rd'.ids = rd.ids /\ rd'.limit = rd.limit /\ rd'.total = rd.total
          /\ rd'.normalized = rd.normalized /\ rd'.quiet = rd.quiet /\ rd'.shipped = all
          /\ rd'.offset = n
      BY <1>1, <2>1 DEF Reader
    <2>3. Matching(rd)' = M /\ Wanted' = w
      BY <1>1, <1>4, <2>2, SameRequest
    <2> SUFFICES ASSUME rd.quiet
                 PROVE  CountsHold' /\ ExportHolds' /\ PinnedHolds' /\ GroupsHold'
      BY <2>2 DEF QuietInv
    <2>4. CountsHold'
      <3>1. Normalized(Matching(rd))' = Normalized(M)
        BY <1>1, <2>3 DEF Normalized
      <3>2. QED
        BY <1>1, <1>9, <2>2, <2>3, <3>1 DEF CountsHold, LimitTo
    <2>5. Head2 = Head1 \cup Range(part)
      <3>1. Head2 \subseteq Head1 \cup Range(part)
        BY <1>2
      <3>2. Head1 \subseteq Head2
        BY <1>2, <1>7
      <3>3. Range(part) \subseteq Head2
        BY <1>2 DEF Range
      <3>4. QED
        BY <3>1, <3>2, <3>3
    <2>6. ASSUME IsInjective(rd.ids) PROVE Range(all) = M \cap Head2 /\ IsInjective(all)
      <3>1. Range(was) = M \cap Head1 /\ IsInjective(was) /\ IsInjective(w)
        BY <1>1, <1>4, <1>9, <2>6, WantedInjective
      <3>2. Head1 \cap Range(part) = {}
        <4> SUFFICES ASSUME NEW i \in 1 .. k, NEW j \in DOMAIN part, w[i] = part[j] PROVE FALSE
          BY DEF Range
        <4>1. k + j \in DOMAIN w /\ i \in DOMAIN w /\ w[i] = w[k + j] /\ k + j > k
          <5>1. k + j \in 1 .. n /\ k + j > k /\ part[j] = w[k + j]
            BY <1>2
          <5>2. k \in Nat /\ Len(w) \in Nat /\ n \in Nat /\ k <= n /\ n <= Len(w)
            <6>1. k \in Nat /\ Len(part) \in Nat /\ n <= Len(w)
              BY <1>2
            <6>2. QED
              BY <1>3, <1>7, <6>1
          <5>3. i \in 1 .. Len(w)
            BY <5>2
          <5>4. k + j \in 1 .. Len(w)
            BY <1>3, <5>1, <5>2
          <5>5. QED
            BY <1>3, <5>1, <5>3, <5>4
        <4> DEFINE m == k + j
        <4> HIDE DEF m
        <4>2. m \in DOMAIN w /\ i \in DOMAIN w /\ w[i] = w[m] /\ m > k
          BY <4>1 DEF m
        <4>3. i = m
          BY <3>1, <4>2 DEF IsInjective
        <4>4. QED
          BY <1>2, <4>2, <4>3
      <3>3. Range(was) \cap Range(new) = {}
        BY <1>6, <1>7, <3>1, <3>2
      <3>4. IsInjective(all)
        BY <1>1, <1>6, <3>1, <3>3, ConcatInjective DEF all
      <3>5. QED
        BY <1>7, <1>8, <2>5, <3>1, <3>4
    <2>7. PinnedHolds'
      BY <1>1, <2>2, <2>3, <2>6 DEF PinnedHolds
    <2>8. QED
      BY <1>1, <2>2, <2>4, <2>7 DEF ExportHolds, GroupsHold
  <1>12. QED
    BY <1>10, <1>11

LEMMA ScanQuiet ==
    ASSUME WalkInv, QuietInv, rows \in Seq(Row), ScanPage
    PROVE  QuietInv'
  <1> DEFINE M == Matching(rd)
             k == rd.offset
             s == NewestFirst(M)
             page == Slice(s, k, Chunk)
             A == Range(rd.shipped)
             B == Range(page)
             g == Bucketed(rd.groups, B)
             all == rd.shipped \o page
             n == k + Len(page)
             p == IF Len(page) < Chunk THEN "done" ELSE "scan"
  <1>1. /\ rd \in Reader /\ rd.pc = "scan" /\ rd.op = "groups" /\ rows' = rows /\ k \in Nat
        /\ rd.shipped \in Seq(Nat)
        /\ rd' = [rd EXCEPT !.groups = g, !.shipped = all, !.offset = n, !.pc = p]
    BY DEF ScanPage, WalkInv, Phases, Reader
  <1>2. rd' = [rd EXCEPT !.groups = g, !.shipped = all, !.offset = n, !.pc = p]
    BY <1>1
  <1>3. /\ M \in SUBSET RowIds /\ M = Matching(rd) /\ s = NewestFirst(M) /\ Chunk \in Nat \ {0}
        /\ k = rd.offset
    BY MatchingRows, ViewBoundAssumption
  <1> HIDE DEF M, k
  <1>4. M \in SUBSET Nat /\ IsFiniteSet(M) /\ Cardinality(M) \in Nat
    BY <1>3, RowSets
  <1>5. /\ s \in Seq(Nat) /\ Falls(s) /\ Range(s) = M /\ Len(s) = Cardinality(M)
    <2>1. s \in Seq(M) /\ Falls(s) /\ Range(s) = M /\ Len(s) = Cardinality(M)
      BY <1>4, NewestFacts
    <2> HIDE DEF s
    <2>2. QED
      BY <1>4, <2>1, SeqWidens
  <1> HIDE DEF s
  <1>6. /\ page \in Seq(Nat) /\ Len(page) \in Nat
        /\ Len(page) < Chunk => k + Len(page) >= Len(s)
        /\ \A i \in 1 .. Len(page) : k + i \in 1 .. Len(s) /\ page[i] = s[k + i]
    <2>1. page = Slice(s, k, Chunk) /\ Chunk \in Nat /\ k \in Nat /\ s \in Seq(Nat)
      BY <1>1, <1>3, <1>5
    <2> HIDE DEF page
    <2>2. QED
      BY <2>1, SliceFacts
  <1>7. k <= Len(s) => FirstOf(s, k) \o page = FirstOf(s, n) /\ n <= Len(s)
    BY <1>1, <1>3, <1>5, ReadOn
  <1> HIDE DEF page, g, all, p
  <1>8. n \in Nat /\ p \in {"done", "scan"} /\ (p = "done" <=> Len(page) < Chunk)
    BY <1>1, <1>6 DEF p
  <1> HIDE DEF n
  <1>9. /\ rd'.op = rd.op /\ rd'.pc = p /\ rd'.filter = rd.filter /\ rd'.ids = rd.ids
        /\ rd'.limit = rd.limit /\ rd'.quiet = rd.quiet /\ rd'.shipped = all
        /\ rd'.groups = g /\ rd'.offset = n
    BY <1>1 DEF Reader
  <1>10. Matching(rd)' = M
    BY <1>1, <1>3, <1>9, SameRequest
  <1> SUFFICES ASSUME rd.quiet
               PROVE  CountsHold' /\ ExportHolds' /\ PinnedHolds' /\ GroupsHold'
    BY <1>9 DEF QuietInv
  <1>11. /\ rd.shipped = FirstOf(s, k) /\ k <= Len(s)
         /\ rd.groups = GroupsOf(A)
    BY <1>1, <1>3, <1>5 DEF QuietInv, GroupsHold
  <1>12. all = FirstOf(s, n) /\ n <= Len(s)
    BY <1>7, <1>11 DEF all
  <1>13. Range(all) = A \cup B
    BY <1>1, <1>6, ConcatFacts DEF all
  <1>14. /\ Len(rd.shipped) = k /\ \A i \in 1 .. k : i \in 1 .. Len(s) /\ rd.shipped[i] = s[i]
    <2> DEFINE f == FirstOf(s, k)
    <2>1. /\ Len(f) = IF Len(s) <= k THEN Len(s) ELSE k
          /\ \A i \in 1 .. Len(f) : i \in 1 .. Len(s) /\ f[i] = s[i]
      BY <1>1, <1>5, FirstFacts
    <2> HIDE DEF f
    <2>2. Len(f) = k
      BY <1>1, <1>4, <1>5, <1>11, <2>1
    <2>3. f = rd.shipped
      BY <1>11 DEF f
    <2>4. QED
      BY <2>1, <2>2, <2>3
  <1>15. ASSUME NEW a \in A, NEW b \in B PROVE a > b
    <2>1. PICK i \in DOMAIN rd.shipped : rd.shipped[i] = a
      BY DEF Range
    <2>2. PICK j \in DOMAIN page : page[j] = b
      BY DEF Range
    <2>3. i \in 1 .. k /\ j \in 1 .. Len(page)
      <3>1. DOMAIN rd.shipped = 1 .. Len(rd.shipped) /\ DOMAIN page = 1 .. Len(page)
        BY <1>1, <1>6
      <3>2. QED
        BY <1>14, <3>1
    <2> DEFINE m == k + j
    <2>4. i < m
      BY <1>1, <1>6, <2>3
    <2>5. m \in 1 .. Len(s) /\ s[m] = b
      BY <1>6, <2>2, <2>3
    <2> HIDE DEF m
    <2>6. i \in 1 .. Len(s) /\ s[i] = a
      BY <1>14, <2>1, <2>3
    <2>7. DOMAIN s = 1 .. Len(s)
      BY <1>5
    <2>8. QED
      BY <1>5, <2>4, <2>5, <2>6, <2>7 DEF Falls
  <1>16. A \in SUBSET RowIds /\ B \in SUBSET RowIds
    <2>1. DOMAIN rd.shipped = 1 .. k /\ DOMAIN page = 1 .. Len(page) /\ DOMAIN s = 1 .. Len(s)
      BY <1>1, <1>5, <1>6, <1>14
    <2>2. \A i \in DOMAIN rd.shipped : rd.shipped[i] \in Range(s)
      BY <1>14, <2>1 DEF Range
    <2>3. \A i \in DOMAIN page : page[i] \in Range(s)
      BY <1>6, <2>1 DEF Range
    <2>4. A \subseteq M /\ B \subseteq M
      BY <1>5, <2>2, <2>3 DEF Range
    <2>5. QED
      BY <1>3, <2>4
  <1>17. g = GroupsOf(Range(all))
    <2>1. Bucketed(GroupsOf(A), B) = GroupsOf(A \cup B)
      BY <1>15, <1>16, GroupsJoin
    <2>2. g = Bucketed(rd.groups, B)
      BY DEF g
    <2>3. QED
      BY <1>11, <1>13, <2>1, <2>2, Zenon
  <1>18. p = "done" => Range(all) = M
    <2> SUFFICES ASSUME p = "done" PROVE Range(all) = M
      OBVIOUS
    <2>1. n >= Len(s)
      BY <1>6, <1>8 DEF n
    <2>2. FirstOf(s, n) = s
      <3>1. Len(s) <= n
        BY <1>4, <1>5, <1>8, <2>1
      <3>2. QED
        BY <1>5, <1>8, <3>1, FirstFacts
    <2>3. QED
      BY <1>5, <1>12, <2>2
  <1>19. GroupsHold'
    <2>1. rd'.groups = GroupsOf(Range(all)) /\ rd'.shipped = all
      BY <1>9, <1>17
    <2>2. GroupsOf(Range(rd.shipped))' = GroupsOf(Range(all))
      BY <1>1, <2>1 DEF GroupsOf
    <2>3. GroupsOf(Matching(rd))' = GroupsOf(M)
      BY <1>1, <1>10 DEF GroupsOf
    <2>4. NewestFirst(Matching(rd))' = s
      BY <1>3, <1>10
    <2>5. rd'.op = "groups" /\ rd'.pc \in {"done", "scan"} /\ rd'.offset = n
      BY <1>1, <1>8, <1>9
    <2>6. rd'.pc = "scan" => /\ rd'.shipped = FirstOf(NewestFirst(Matching(rd)'), rd'.offset)
                             /\ rd'.offset <= Cardinality(Matching(rd)')
                             /\ rd'.groups = GroupsOf(Range(rd.shipped))'
      BY <1>5, <1>10, <1>12, <2>1, <2>2, <2>4, <2>5
    <2>7. rd'.pc = "done" => rd'.groups = GroupsOf(Matching(rd))'
      BY <1>9, <1>18, <2>1, <2>3
    <2>8. QED
      BY <2>6, <2>7 DEF GroupsHold
  <1>20. QED
    BY <1>1, <1>8, <1>9, <1>19 DEF CountsHold, ExportHolds, PinnedHolds

LEMMA GroupsQuiet ==
    ASSUME rows \in Seq(Row), NEW f \in Filters, event_groups(f)
    PROVE  QuietInv'
  <1> DEFINE r == [NoReader EXCEPT !.op = "groups", !.pc = "scan", !.filter = f]
             M == Matching(r)
  <1>1. rd' = [r EXCEPT !.steady = M] /\ rows' = rows
    BY DEF event_groups
  <1>2. NoReader \in Reader /\ NoReader.shipped = <<>> /\ NoReader.groups = <<>> /\ NoReader.offset = 0
    BY NoReaderFacts DEF NoReader
  <1>3. /\ r \in Reader /\ r.op = "groups" /\ r.pc = "scan"
        /\ r.shipped = <<>> /\ r.groups = <<>> /\ r.offset = 0
    BY <1>2 DEF Reader
  <1> HIDE DEF r, M
  <1>4. /\ rd'.op = "groups" /\ rd'.pc = "scan"
        /\ rd'.shipped = <<>> /\ rd'.groups = <<>> /\ rd'.offset = 0
    BY <1>1, <1>3 DEF Reader
  <1> DEFINE N == Matching(rd)'
             s == NewestFirst(N)
  <1>5. N \in SUBSET RowIds
    BY <1>1 DEF Matching, RowIds
  <1> HIDE DEF N
  <1>6. N \in SUBSET Nat /\ IsFiniteSet(N) /\ Cardinality(N) \in Nat
    BY <1>5, RowSets
  <1>7. s \in Seq(Nat)
    BY <1>5, SetsInOrder
  <1> HIDE DEF s
  <1>8. FirstOf(s, 0) = <<>>
    <2> DEFINE p == FirstOf(s, 0)
    <2>1. /\ p \in Seq(Nat) /\ Len(s) \in Nat
          /\ Len(p) = IF Len(s) <= 0 THEN Len(s) ELSE 0
      BY <1>7, FirstFacts
    <2> HIDE DEF p
    <2>2. Len(p) = 0
      BY <2>1
    <2>3. p = <<>>
      BY <2>1, <2>2
    <2>4. QED
      BY <2>3 DEF p
  <1>9. GroupsOf(Range(rd.shipped))' = <<>>
    <2>1. Range(rd.shipped)' = {}
      BY <1>4 DEF Range
    <2>2. GroupsOf(Range(rd.shipped))' = GroupsOf({})
      BY <2>1 DEF GroupsOf
    <2>3. QED
      BY <2>2, NoGroups
  <1>10. GroupsHold'
    BY <1>4, <1>6, <1>8, <1>9 DEF GroupsHold, s, N
  <1>11. QED
    BY <1>4, <1>10 DEF QuietInv, CountsHold, ExportHolds, PinnedHolds

LEMMA ReaderQuiet ==
    ASSUME RunsInv, WalkInv, QuietInv, ReaderStep
    PROVE  QuietInv'
  <1>1. rows \in Seq(Row)
    BY DEF RunsInv, TablesInv
  <1>2. CASE \/ \E f \in Filters, lim \in Limits : _run_export(f, <<>>, lim, "export")
             \/ \E f \in Filters, lim \in Limits, ids \in Pinned : _run_export(f, ids, lim, "ids")
             \/ \E g \in Range(rd.groups), lim \in Limits : DownloadType(g, lim)
    <2>1. rd'.pc = "total" /\ rd'.op \in {"export", "ids"} /\ rd'.shipped = <<>>
      BY <1>2 DEF _run_export, DownloadType, NoReader
    <2>2. QED
      BY <2>1, RequestQuiet
  <1>3. CASE \E k \in DOMAIN runs : batch_groups(k)
    <2>1. rd'.op = "types"
      BY <1>3 DEF batch_groups, NoReader
    <2>2. QED
      BY <2>1, RequestQuiet
  <1>4. CASE Close
    BY <1>4, NoReaderFacts, RequestQuiet DEF Close
  <1>5. CASE CountTotal \/ CountNormalized
    BY <1>1, <1>5, CountQuiet
  <1>6. CASE NextPage \/ NextPinned \/ ScanPage \/ \E f \in Filters : event_groups(f)
    BY <1>1, <1>6, PageQuiet, PinnedQuiet, ScanQuiet, GroupsQuiet
  <1>7. QED
    BY <1>2, <1>3, <1>4, <1>5, <1>6 DEF ReaderStep

LEMMA QuietNext ==
    ASSUME RunsInv, RunsInv', WalkInv, QuietInv, [ViewsNext]_viewVars
    PROVE  QuietInv'
  <1>1. CASE ReaderStep
    BY <1>1, ReaderQuiet
  <1>2. CASE BatchStep \/ UNCHANGED viewVars
    <2>1. UNCHANGED <<rows, rd>>
      BY <1>2 DEF BatchStep, process_batch, ReplayLine, FailLine, BatchDies, viewVars
    <2>2. QED
      BY <2>1 DEF QuietInv, CountsHold, ExportHolds, PinnedHolds, GroupsHold, Matching, Wanted,
                  RowIds, LimitTo, Normalized, GroupsOf
  <1>3. CASE CommitStep
    <2>1. rows' \in Seq(Row)
      BY DEF RunsInv, TablesInv
    <2>2. QED
      BY <1>3, <2>1, RowsGrow, CommitQuiet
  <1>4. QED
    BY <1>1, <1>2, <1>3, StepKinds

(* As long as nothing changes after they were taken, the counts a download *)
(* announces are the rows in it (_count_matching, _iter_record_dicts), and *)
(* the groups of a scan hold every row that matches, with exact counts and *)
(* the newest ids (event_groups).                                          *)
THEOREM QuietTheorem == ViewsSpec => []QuietReadsAreExact
  <1>1. RunsInv /\ WalkInv /\ QuietInv => QuietReadsAreExact
    <2> SUFFICES ASSUME RunsInv, WalkInv, QuietInv, rd.pc = "done", rd.quiet
                 PROVE  QuietReadsAreExact
      BY DEF QuietReadsAreExact, CountsAgree, GroupsAreExact
    <2>1. CountsHold /\ ExportHolds /\ PinnedHolds /\ GroupsHold
      BY DEF QuietInv
    <2> DEFINE M == Matching(rd)
               N == Normalized(M)
    <2>2. rows \in Seq(Row) /\ rd \in Reader /\ rd.shipped \in Seq(Nat)
          /\ (rd.limit = NoLimit \/ rd.limit \in Nat)
      BY DEF RunsInv, TablesInv, WalkInv, Phases, Reader
    <2>3. M \in SUBSET RowIds /\ N \in SUBSET RowIds /\ N \subseteq M
      BY MatchingRows DEF Normalized
    <2>4. M = Matching(rd) /\ N = Normalized(M)
      OBVIOUS
    <2> HIDE DEF M, N
    <2>5. /\ IsFiniteSet(M) /\ Cardinality(M) \in Nat /\ Cardinality(N) \in Nat
          /\ Cardinality(N) <= Cardinality(M)
      BY <2>2, <2>3, RowSets, FS_Subset
    <2>6. CountsAgree
      <3> SUFFICES ASSUME rd.op \in {"export", "ids"}, IsInjective(rd.ids)
                   PROVE  /\ rd.total = Len(rd.shipped)
                          /\ rd.op = "ids" \/ rd.limit = NoLimit
                               => rd.normalized = Cardinality(Normalized(Range(rd.shipped)))
        BY DEF CountsAgree
      <3>1. rd.total = LimitTo(Cardinality(M)) /\ rd.normalized = LimitTo(Cardinality(N))
        BY <2>1, <2>4 DEF CountsHold
      <3>2. CASE rd.op = "export"
        <4>1. /\ rd.total = Len(rd.shipped)
              /\ rd.limit = NoLimit => Range(rd.shipped) = M
          BY <2>1, <2>4, <3>2 DEF ExportHolds
        <4>2. rd.limit = NoLimit => rd.normalized = Cardinality(N)
          BY <2>2, <2>5, <3>1, LimitFacts
        <4>3. QED
          BY <2>4, <3>2, <4>1, <4>2
      <3>3. CASE rd.op = "ids"
        <4>1. Range(rd.shipped) = M /\ IsInjective(rd.shipped)
          BY <2>1, <2>4, <3>3 DEF PinnedHolds
        <4>2. Cardinality(M) = Len(rd.shipped)
          BY <2>2, <4>1, InjectiveCounts
        <4>3. rd.limit # NoLimit => Cardinality(M) <= rd.limit
          <5> SUFFICES ASSUME rd.limit # NoLimit PROVE Cardinality(M) <= rd.limit
            OBVIOUS
          <5>1. /\ Wanted \in Seq(Nat) /\ Len(Wanted) \in Nat /\ Len(Wanted) <= rd.limit
                /\ IsInjective(Wanted)
            BY <2>2, WantedFacts, WantedInjective
          <5>2. IsFiniteSet(Range(Wanted)) /\ Cardinality(Range(Wanted)) = Len(Wanted)
            BY <5>1, InjectiveCounts
          <5>3. M \subseteq Range(Wanted)
            BY <2>4, <3>3 DEF Matching
          <5>4. Cardinality(M) <= Len(Wanted)
            BY <5>2, <5>3, FS_Subset
          <5>5. rd.limit \in Nat
            BY <2>2
          <5>6. QED
            BY <2>5, <5>1, <5>4, <5>5
        <4>4. LimitTo(Cardinality(M)) = Cardinality(M)
          BY <2>2, <2>5, <4>3, LimitFacts
        <4>5. rd.limit # NoLimit => Cardinality(N) <= rd.limit
          BY <2>2, <2>5, <4>3
        <4>6. LimitTo(Cardinality(N)) = Cardinality(N)
          BY <2>2, <2>5, <4>5, LimitFacts
        <4>7. QED
          BY <2>4, <3>1, <4>1, <4>2, <4>4, <4>6
      <3>4. QED
        BY <3>2, <3>3
    <2>7. GroupsAreExact
      <3> SUFFICES ASSUME rd.op = "groups"
                   PROVE  /\ DOMAIN rd.groups = {rows[d].shape : d \in Matching(rd)}
                          /\ \A s \in DOMAIN rd.groups :
                               LET same == {d \in Matching(rd) : rows[d].shape = s}
                               IN  /\ rd.groups[s].count = Cardinality(same)
                                   /\ rd.groups[s].ids = FirstOf(NewestFirst(same), GroupIdsCap)
        BY DEF GroupsAreExact
      <3>1. rd.groups = GroupsOf(Matching(rd))
        BY <2>1 DEF GroupsHold
      <3>2. QED
        BY <3>1 DEF GroupsOf, GroupOf
    <2>8. QED
      BY <2>6, <2>7 DEF QuietReadsAreExact
  <1>2. QuietInv /\ RunsInv /\ RunsInv' /\ WalkInv /\ [ViewsNext]_viewVars => QuietInv'
    BY QuietNext
  <1>3. ViewsInit => QuietInv
    BY QuietInit
  <1>4. ViewsSpec => []QuietInv
    BY <1>2, <1>3, SpecWalk, PTL DEF ViewsSpec
  <1>5. QED
    BY <1>1, <1>4, SpecWalk, PTL
=============================================================================
