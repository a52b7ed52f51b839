--------------------------- MODULE CompileProofs ----------------------------
(***************************************************************************)
(* That every response of the compile service is the build its request     *)
(* asked for, for every number of handlers, projects, workers and permits. *)
(*                                                                         *)
(* BuildExact is not inductive: it rests on what a worker holds between    *)
(* two requests (Held) and on the mutex between the update of its sources  *)
(* and the compilation (Exclusive).                                        *)
(***************************************************************************)
EXTENDS CompileService, TLAPS

(* A worker between two tasks: the workspace, the universe and what the    *)
(* worker remembers of them agree.                                         *)
Coherent(w) ==
    /\ w = [workspace |-> w.files, files |-> w.files, root |-> w.root,
            knownEntry |-> w.root, knownSources |-> w.files]
    /\ w.files \in [DOMAIN w.files -> DOMAIN TextBytes]

MaybeWorker == Handlers \cup {NoWorker}

Caches == [Projects -> MaybeWorker]

Shape ==
    /\ DOMAIN req = Handlers /\ DOMAIN answer = Handlers
    /\ DOMAIN world = Handlers /\ DOMAIN built = Handlers
    /\ DOMAIN pc = Handlers /\ DOMAIN task = Handlers
    /\ uses \in [Handlers -> MaybeWorker] /\ lock \in [Handlers -> MaybeWorker]
    /\ cache \in Caches

(* How far a handler has come when it has no task, and what it serves. *)
Progress ==
    \A h \in Handlers :
        /\ pc[h] \in {"idle", "lookup", "build", "insert", "permit"} => task[h] = "none"
        /\ pc[h] = "idle" => answer[h] = Nothing
        /\ pc[h] # "idle" => req[h] \in Offered[h]
        /\ pc[h] \in {"lookup", "build", "insert"} => req[h].project \in Projects

Ready(w) ==
    w \in Handlers /\ pc[w] \notin {"idle", "lookup", "build"} /\ Coherent(world[w])

(* Every worker a handler or a task can reach is complete and coherent. *)
Held ==
    /\ \A p \in Projects : cache[p] # NoWorker => Ready(cache[p])
    /\ \A h \in Handlers : pc[h] = "insert" => Ready(h)
    /\ \A h \in Handlers : pc[h] \in {"permit", "compiling"} \/ task[h] # "none" => Ready(uses[h])

(* From the update to the compilation the worker is the task's own. *)
Exclusive ==
    \A h \in Handlers : task[h] = "updated" =>
        lock[uses[h]] = h /\ Compiled(world[uses[h]]) = Asked(req[h])

Outcome ==
    \A h \in Handlers : task[h] = "done" => built[h] = Asked(req[h])

CompileInv == Shape /\ Progress /\ Held /\ Exclusive /\ Outcome /\ BuildExact

-----------------------------------------------------------------------------
(* The worker. *)

(* Worker::new: what the worker remembers is what its universe sees. *)
LEMMA NewWorkerCoherent ==
    ASSUME NEW r, r.sources \in [DOMAIN r.sources -> DOMAIN TextBytes]
    PROVE  Coherent(NewWorker(r))
BY DEF Coherent, NewWorker

(* update_sources up to the entry: the universe holds exactly the sources  *)
(* of the request and keeps its root.                                      *)
LEMMA ApplySourcesExact ==
    ASSUME NEW w, Coherent(w), NEW r, r.sources \in [DOMAIN r.sources -> DOMAIN TextBytes]
    PROVE  /\ Coherent(ApplySources(w, r))
           /\ ApplySources(w, r).files = r.sources
           /\ ApplySources(w, r).root = w.root
<1> DEFINE gone == DOMAIN w.knownSources \ DOMAIN r.sources
           changed == {p \in DOMAIN r.sources :
                         p \notin DOMAIN w.knownSources \/ w.knownSources[p] # r.sources[p]}
           apply(files) == [p \in (DOMAIN files \ gone) \cup changed |->
                              IF p \in changed THEN r.sources[p] ELSE files[p]]
<1>1. w.workspace = w.files /\ w.knownSources = w.files
  BY DEF Coherent
<1> DEFINE A == apply(w.files)
<1>2. A = r.sources
  <2>1. (DOMAIN w.files \ gone) \cup changed = DOMAIN r.sources
    BY <1>1
  <2>2. ASSUME NEW p \in DOMAIN r.sources
        PROVE  (IF p \in changed THEN r.sources[p] ELSE w.files[p]) = r.sources[p]
    BY <1>1
  <2>3. A = [p \in DOMAIN r.sources |-> r.sources[p]]
    BY <2>1, <2>2
  <2> QED BY <2>3
<1>3. ApplySources(w, r) = [w EXCEPT !.workspace = A, !.files = A, !.knownSources = A]
  BY <1>1 DEF ApplySources
<1> HIDE DEF A
<1>4. ApplySources(w, r) = [workspace |-> r.sources, files |-> r.sources, root |-> w.root,
                            knownEntry |-> w.root, knownSources |-> r.sources]
  <2> DEFINE F == w.files  G == r.sources  E == w.root
  <2>1. w = [workspace |-> F, files |-> F, root |-> E, knownEntry |-> E, knownSources |-> F]
    BY DEF Coherent
  <2>2. ApplySources(w, r) = [w EXCEPT !.workspace = G, !.files = G, !.knownSources = G]
    BY <1>2, <1>3
  <2> HIDE DEF F, G, E
  <2>3. ApplySources(w, r)
          = [workspace |-> G, files |-> G, root |-> E, knownEntry |-> E, knownSources |-> G]
    BY <2>1, <2>2
  <2> QED BY <2>3 DEF F, G, E
<1> QED BY <1>4 DEF Coherent

(* update_sources and compile: the build is what the request asks for. *)
LEMMA UpdateSourcesExact ==
    ASSUME NEW w, Coherent(w), NEW r, r.sources \in [DOMAIN r.sources -> DOMAIN TextBytes]
    PROVE  Coherent(UpdateSources(w, r)) /\ Compiled(UpdateSources(w, r)) = Asked(r)
<1> DEFINE a == ApplySources(w, r)
<1>1. Coherent(a) /\ a.files = r.sources
  BY ApplySourcesExact
<1> HIDE DEF a
<1>2. CASE a.knownEntry = r.entry
  <2>1. UpdateSources(w, r) = a
    BY <1>2 DEF UpdateSources, ReRoot, a
  <2>2. a.root = r.entry
    BY <1>1, <1>2 DEF Coherent
  <2> QED BY <1>1, <2>1, <2>2 DEF Compiled, Asked
<1>3. CASE a.knownEntry # r.entry
  <2>1. UpdateSources(w, r) = [a EXCEPT !.files = a.workspace, !.root = r.entry,
                                        !.knownEntry = r.entry]
    BY <1>3 DEF UpdateSources, ReRoot, a
  <2>2. UpdateSources(w, r) = [workspace |-> r.sources, files |-> r.sources, root |-> r.entry,
                               knownEntry |-> r.entry, knownSources |-> r.sources]
    <3> DEFINE G == r.sources  E == r.entry  K == a.root
    <3>1. a = [workspace |-> G, files |-> G, root |-> K, knownEntry |-> K, knownSources |-> G]
      BY <1>1 DEF Coherent
    <3>2. a.workspace = G
      BY <1>1 DEF Coherent
    <3>3. UpdateSources(w, r) = [a EXCEPT !.files = G, !.root = E, !.knownEntry = E]
      BY <2>1, <3>2
    <3> HIDE DEF G, E, K
    <3>4. UpdateSources(w, r)
            = [workspace |-> G, files |-> G, root |-> E, knownEntry |-> E, knownSources |-> G]
      BY <3>1, <3>3
    <3> QED BY <3>4 DEF G, E
  <2> QED BY <2>2 DEF Coherent, Compiled, Asked
<1> QED BY <1>2, <1>3

-----------------------------------------------------------------------------
(* The cache: no step puts a worker where there was another. *)

Shrinks(d, c) == d \in Caches /\ \A p \in Projects : d[p] # NoWorker => d[p] = c[p]

(* evict_idle only drops entries. *)
LEMMA EvictIdleShrinks ==
    ASSUME NEW c \in Caches
    PROVE  Shrinks(EvictIdle(c), c)
BY DEF Shrinks, EvictIdle, Caches, MaybeWorker

(* Dropping a poisoned worker only drops entries. *)
LEMMA DropPoisonedShrinks ==
    ASSUME NEW c \in Caches, NEW p \in Projects
    PROVE  Shrinks(DropPoisoned(c, p), c)
BY DEF Shrinks, DropPoisoned, Caches, MaybeWorker

(* So does the eviction at capacity, whichever entry evict_lru picks. *)
LEMMA WithRoomShrinks ==
    ASSUME NEW c \in Caches, NEW d \in WithRoom(c)
    PROVE  Shrinks(d, c)
<1>1. CASE d = c
  BY <1>1 DEF Shrinks
<1>2. CASE \E p \in Cached(c) : d = [c EXCEPT ![p] = NoWorker]
  BY <1>2 DEF Shrinks, Cached, Caches, MaybeWorker
<1>3. d = c \/ \E p \in Cached(c) : d = [c EXCEPT ![p] = NoWorker]
  BY DEF WithRoom, EvictLru
<1> QED BY <1>1, <1>2, <1>3

-----------------------------------------------------------------------------
(* The invariant. *)

(* No request is answered before one is received. *)
LEMMA InitCompileInv == Init => CompileInv
BY CompileAssumption
   DEF Init, CompileInv, Shape, Progress, Held, Exclusive, Outcome, BuildExact, Nothing,
       Caches, MaybeWorker

(* receive and reject, or receive and look up. *)
LEMMA ReceiveKeeps ==
    ASSUME CompileInv, NEW h \in Handlers, NEW r \in Offered[h], Receive(h, r)
    PROVE  CompileInv'
<1> USE DEF CompileInv
<1>1. /\ pc[h] = "idle" /\ task[h] = "none" /\ answer[h] = Nothing
      /\ req' = [req EXCEPT ![h] = r]
      /\ UNCHANGED <<uses, cache, world, lock, task, built>>
  BY DEF Receive, Progress, entryVars, taskVars
<1>2. \/ /\ pc' = [pc EXCEPT ![h] = "answered"]
         /\ \E code \in {"unauthorized", "bad"} : answer' = [answer EXCEPT ![h] = [code |-> code]]
      \/ /\ pc' = [pc EXCEPT ![h] = "lookup"] /\ answer' = answer /\ r.project \in Projects
  BY CompileAssumption DEF Receive, Fail, Answer, ValidRequest
<1>3. Shape'
  BY <1>1, <1>2 DEF Shape
<1>4. Progress'
  BY <1>1, <1>2 DEF Shape, Progress
<1>5. Held'
  BY <1>1, <1>2 DEF Shape, Held, Ready
<1>6. Exclusive' /\ Outcome'
  BY <1>1 DEF Shape, Exclusive, Outcome
<1>7. BuildExact'
  BY <1>1, <1>2 DEF Shape, BuildExact, Nothing
<1> QED BY <1>3, <1>4, <1>5, <1>6, <1>7

(* A worker given from the cache is coherent. *)
LEMMA LookupKeeps ==
    ASSUME CompileInv, NEW h \in Handlers, Lookup(h)
    PROVE  CompileInv'
<1> USE DEF CompileInv
<1> DEFINE p == req[h].project
           c == DropPoisoned(EvictIdle(cache), p)
<1>1. /\ pc[h] = "lookup" /\ task[h] = "none" /\ p \in Projects
      /\ UNCHANGED <<req, answer, world, lock, task, built>>
  BY DEF Lookup, Progress, taskVars
<1>2. Shrinks(c, cache)
  <2>1. Shrinks(EvictIdle(cache), cache)
    BY EvictIdleShrinks DEF Shape
  <2>2. Shrinks(c, EvictIdle(cache))
    BY <1>1, <2>1, DropPoisonedShrinks DEF Shrinks
  <2> HIDE DEF c
  <2> QED BY <2>1, <2>2 DEF Shrinks
<1>3. \/ /\ c[p] # NoWorker /\ cache' = c /\ uses' = [uses EXCEPT ![h] = c[p]]
         /\ pc' = [pc EXCEPT ![h] = "permit"]
      \/ /\ cache' \in WithRoom(c) /\ uses' = uses /\ pc' = [pc EXCEPT ![h] = "build"]
  BY DEF Lookup, Use
<1> HIDE DEF c
<1>4. Shrinks(cache', cache)
  BY <1>2, <1>3, WithRoomShrinks DEF Shrinks
<1>5. Shape'
  BY <1>1, <1>2, <1>3, <1>4 DEF Shape, Shrinks, Caches
<1>6. Progress'
  BY <1>1, <1>3 DEF Shape, Progress
<1>7. ASSUME NEW w, Ready(w) PROVE Ready(w)'
  BY <1>1, <1>3, <1>7 DEF Shape, Ready
<1>8. Held'
  BY <1>1, <1>2, <1>3, <1>4, <1>7 DEF Shape, Held, Shrinks
<1>9. Exclusive' /\ Outcome' /\ BuildExact'
  BY <1>1, <1>3 DEF Shape, Exclusive, Outcome, BuildExact
<1> QED BY <1>5, <1>6, <1>8, <1>9

(* A new worker is coherent, and nobody else's yet. *)
LEMMA BuildKeeps ==
    ASSUME CompileInv, NEW h \in Handlers, Build(h)
    PROVE  CompileInv'
<1> USE DEF CompileInv
<1>1. /\ pc[h] = "build" /\ task[h] = "none" /\ req[h] \in Offered[h] /\ req[h].project \in Projects
      /\ UNCHANGED <<req, uses, cache, lock, task, built>>
  BY DEF Build, Progress
<1>2. \/ /\ world' = [world EXCEPT ![h] = NewWorker(req[h])] /\ answer' = answer
         /\ pc' = [pc EXCEPT ![h] = "insert"]
      \/ /\ world' = world /\ answer' = [answer EXCEPT ![h] = [code |-> "internal"]]
         /\ pc' = [pc EXCEPT ![h] = "answered"]
  BY DEF Build, Fail, Answer
<1>3. Coherent(NewWorker(req[h]))
  BY <1>1, NewWorkerCoherent, CompileAssumption
<1>4. Shape'
  BY <1>1, <1>2 DEF Shape
<1>5. Progress'
  BY <1>1, <1>2 DEF Shape, Progress
<1>6. ASSUME NEW w, Ready(w) PROVE w # h /\ world'[w] = world[w] /\ Ready(w)'
  BY <1>1, <1>2, <1>6 DEF Shape, Ready
<1>7. pc'[h] = "insert" => Ready(h)'
  BY <1>1, <1>2, <1>3 DEF Shape, Ready
<1>8. Held'
  BY <1>1, <1>2, <1>6, <1>7 DEF Shape, Held
<1>9. Exclusive'
  BY <1>1, <1>6 DEF Shape, Held, Exclusive
<1>10. Outcome' /\ BuildExact'
  BY <1>1, <1>2 DEF Shape, Outcome, BuildExact
<1> QED BY <1>4, <1>5, <1>8, <1>9, <1>10

(* The double-checked insert takes the other's worker or publishes its own. *)
LEMMA InsertKeeps ==
    ASSUME CompileInv, NEW h \in Handlers, Insert(h)
    PROVE  CompileInv'
<1> USE DEF CompileInv
<1> DEFINE p == req[h].project
           c == DropPoisoned(cache, p)
<1>1. /\ pc[h] = "insert" /\ task[h] = "none" /\ p \in Projects /\ Ready(h)
      /\ UNCHANGED <<req, world, lock, task, built>>
  BY DEF Insert, Progress, Held, taskVars
<1>2. Shrinks(c, cache)
  BY <1>1, DropPoisonedShrinks DEF Shape
<1>3. \/ /\ c[p] # NoWorker /\ cache' = c /\ uses' = [uses EXCEPT ![h] = c[p]]
         /\ pc' = [pc EXCEPT ![h] = "permit"] /\ answer' = answer
      \/ \E roomy \in WithRoom(c) :
           \/ /\ cache' = roomy /\ uses' = uses /\ pc' = [pc EXCEPT ![h] = "answered"]
              /\ answer' = [answer EXCEPT ![h] = [code |-> "busy"]]
           \/ /\ cache' = [roomy EXCEPT ![p] = h] /\ uses' = [uses EXCEPT ![h] = h]
              /\ pc' = [pc EXCEPT ![h] = "permit"] /\ answer' = answer
  BY DEF Insert, Use, Fail, Answer
<1> HIDE DEF c
<1> DEFINE Published == /\ cache' \in Caches
                        /\ \A q \in Projects : cache'[q] # NoWorker => cache'[q] \in {cache[q], h}
<1>4. Published
  <2>1. CASE cache' = c
    BY <1>2, <2>1 DEF Shrinks
  <2>2. ASSUME NEW roomy \in WithRoom(c), cache' = roomy \/ cache' = [roomy EXCEPT ![p] = h]
        PROVE  Published
    <3>1. Shrinks(roomy, c)
      BY <1>2, WithRoomShrinks DEF Shrinks
    <3> QED BY <1>2, <2>2, <3>1 DEF Shrinks, Caches, MaybeWorker
  <2> QED BY <1>3, <2>1, <2>2
<1>5. \/ uses' = uses /\ pc' = [pc EXCEPT ![h] = "answered"]
      \/ /\ pc' = [pc EXCEPT ![h] = "permit"]
         /\ \E w \in Handlers : uses' = [uses EXCEPT ![h] = w] /\ Ready(w)
  BY <1>1, <1>2, <1>3 DEF Held, Shrinks, Ready
<1>6. Shape'
  BY <1>1, <1>3, <1>4, <1>5 DEF Shape, MaybeWorker
<1>7. Progress'
  BY <1>1, <1>3 DEF Shape, Progress
<1>8. ASSUME NEW w, Ready(w) PROVE Ready(w)'
  BY <1>1, <1>3, <1>8 DEF Shape, Ready
<1>9. Held'
  <2>1. (\A q \in Projects : cache[q] # NoWorker => Ready(cache[q]))'
    BY <1>1, <1>4, <1>8 DEF Held
  <2>2. (\A g \in Handlers : pc[g] = "insert" => Ready(g))'
    BY <1>3, <1>8 DEF Held, Shape
  <2>3. (\A g \in Handlers : pc[g] \in {"permit", "compiling"} \/ task[g] # "none" => Ready(uses[g]))'
    BY <1>1, <1>5, <1>8 DEF Held, Shape
  <2> QED BY <2>1, <2>2, <2>3 DEF Held
<1>10. Exclusive' /\ Outcome'
  BY <1>1, <1>5 DEF Shape, Exclusive, Outcome
<1>11. BuildExact'
  BY <1>1, <1>3 DEF Shape, BuildExact
<1> QED BY <1>6, <1>7, <1>9, <1>10, <1>11

(* A permit starts a task on the worker the handler was given. *)
LEMMA AcquireKeeps ==
    ASSUME CompileInv, NEW h \in Handlers, Acquire(h)
    PROVE  CompileInv'
<1> USE DEF CompileInv
<1>1. /\ pc[h] = "permit" /\ pc' = [pc EXCEPT ![h] = "compiling"] /\ task' = [task EXCEPT ![h] = "queued"]
      /\ UNCHANGED <<req, uses, answer, cache, world, lock, built>>
  BY DEF Acquire, entryVars
<1>2. Shape' /\ Progress'
  BY <1>1 DEF Shape, Progress
<1>3. ASSUME NEW w, Ready(w) PROVE Ready(w)'
  BY <1>1, <1>3 DEF Shape, Ready
<1>4. Held'
  BY <1>1, <1>3 DEF Shape, Held
<1>5. Exclusive' /\ Outcome' /\ BuildExact'
  BY <1>1 DEF Shape, Exclusive, Outcome, BuildExact
<1> QED BY <1>2, <1>4, <1>5

(* update_sources runs under a mutex nobody holds, so no other task is     *)
(* between its own update and its compilation on that worker.              *)
LEMMA TaskUpdateKeeps ==
    ASSUME CompileInv, NEW h \in Handlers, TaskUpdate(h)
    PROVE  CompileInv'
<1> USE DEF CompileInv
<1> DEFINE w == uses[h]
           r == req[h]
<1>1. /\ task[h] = "queued" /\ lock[w] = NoWorker
      /\ UNCHANGED <<req, pc, uses, answer, cache, built>>
  BY DEF TaskUpdate, handlerVars, entryVars
<1>2. Ready(w) /\ r \in Offered[h] /\ pc[h] \notin {"idle", "lookup", "build", "insert", "permit"}
  BY <1>1 DEF Held, Progress
<1>3. \/ /\ task' = [task EXCEPT ![h] = "failed"] /\ world' = world /\ lock' = lock
      \/ /\ world' = [world EXCEPT ![w] = UpdateSources(world[w], r)]
         /\ task' = [task EXCEPT ![h] = "updated"] /\ lock' = [lock EXCEPT ![w] = h]
      \/ /\ world' = [world EXCEPT ![w] = ApplySources(world[w], r)]
         /\ task' = [task EXCEPT ![h] = "failed"] /\ lock' = lock
  BY DEF TaskUpdate
<1>4. /\ Coherent(UpdateSources(world[w], r)) /\ Compiled(UpdateSources(world[w], r)) = Asked(r)
      /\ Coherent(ApplySources(world[w], r))
  BY <1>2, UpdateSourcesExact, ApplySourcesExact, CompileAssumption DEF Ready
<1>5. Shape'
  BY <1>1, <1>2, <1>3 DEF Shape, MaybeWorker
<1>6. Progress'
  BY <1>1, <1>2, <1>3 DEF Shape, Progress
<1>7. ASSUME NEW v, Ready(v) PROVE Ready(v)'
  BY <1>1, <1>2, <1>3, <1>4, <1>7 DEF Shape, Ready
<1>8. Held'
  BY <1>1, <1>2, <1>3, <1>7 DEF Shape, Held
<1>9. Exclusive'
  <2> SUFFICES ASSUME NEW g \in Handlers, task'[g] = "updated"
               PROVE  lock'[uses[g]] = g /\ Compiled(world'[uses[g]]) = Asked(req[g])
    BY <1>1 DEF Exclusive
  <2>1. CASE g = h
    BY <1>2, <1>3, <1>4, <2>1 DEF Shape, Ready
  <2>2. CASE g # h
    <3>1. task[g] = "updated"
      BY <1>3, <2>2 DEF Shape
    <3>2. lock[uses[g]] = g /\ Compiled(world[uses[g]]) = Asked(req[g]) /\ uses[g] # w
      BY <1>1, <3>1, CompileAssumption DEF Exclusive
    <3>3. uses[g] \in Handlers
      BY <3>1 DEF Held, Ready
    <3> QED BY <1>3, <3>2, <3>3 DEF Shape
  <2> QED BY <2>1, <2>2
<1>10. Outcome' /\ BuildExact'
  BY <1>1, <1>3 DEF Shape, Outcome, BuildExact
<1> QED BY <1>5, <1>6, <1>8, <1>9, <1>10

(* The compilation reads the worker this task updated. *)
LEMMA TaskCompileKeeps ==
    ASSUME CompileInv, NEW h \in Handlers, TaskCompile(h)
    PROVE  CompileInv'
<1> USE DEF CompileInv
<1>1. /\ task[h] = "updated" /\ lock' = [lock EXCEPT ![uses[h]] = NoWorker]
      /\ UNCHANGED <<req, pc, uses, answer, cache, world>>
  BY DEF TaskCompile, handlerVars, entryVars
<1>2. \/ /\ built' = [built EXCEPT ![h] = Compiled(world[uses[h]])]
         /\ task' = [task EXCEPT ![h] = "done"]
      \/ built' = built /\ task' = [task EXCEPT ![h] = "panicked"]
  BY DEF TaskCompile
<1>3. lock[uses[h]] = h /\ Compiled(world[uses[h]]) = Asked(req[h])
  BY <1>1 DEF Exclusive
<1>4. Shape' /\ Progress'
  BY <1>1, <1>2 DEF Shape, Progress, MaybeWorker
<1>5. ASSUME NEW v, Ready(v) PROVE Ready(v)'
  BY <1>1, <1>5 DEF Ready
<1>6. Held'
  BY <1>1, <1>2, <1>5 DEF Shape, Held
<1>7. Exclusive'
  BY <1>1, <1>2, <1>3 DEF Shape, Exclusive
<1>8. Outcome'
  BY <1>1, <1>2, <1>3 DEF Shape, Outcome
<1>9. BuildExact'
  BY <1>1 DEF BuildExact
<1> QED BY <1>4, <1>6, <1>7, <1>8, <1>9

(* Answering, timing out and hanging up end a handler and nothing else. *)
LEMMA EndKeeps ==
    ASSUME CompileInv, NEW h \in Handlers, Finish(h) \/ Timeout(h) \/ HangUp(h)
    PROVE  CompileInv'
<1> USE DEF CompileInv
<1>1. pc[h] \in {"lookup", "insert", "permit", "compiling"} /\ UNCHANGED <<req, uses, cache, world, lock, task, built>>
  BY DEF Finish, Timeout, HangUp, entryVars, taskVars
<1>2. /\ pc' = [pc EXCEPT ![h] = "answered"] \/ pc' = [pc EXCEPT ![h] = "gone"]
      /\ \/ answer' = answer
         \/ \E code \in {"internal", "timeout"} : answer' = [answer EXCEPT ![h] = [code |-> code]]
         \/ /\ answer' = [answer EXCEPT ![h] = [code |-> "ok", built |-> built[h]]]
            /\ task[h] = "done"
  BY DEF Finish, Timeout, HangUp, Fail, Answer
<1>3. Shape' /\ Progress'
  BY <1>1, <1>2 DEF Shape, Progress
<1>4. ASSUME NEW v, Ready(v) PROVE Ready(v)'
  BY <1>1, <1>2, <1>4 DEF Shape, Ready
<1>5. Held'
  BY <1>1, <1>2, <1>4 DEF Shape, Held
<1>6. Exclusive' /\ Outcome'
  BY <1>1 DEF Exclusive, Outcome
<1>7. BuildExact'
  BY <1>1, <1>2 DEF Shape, Outcome, BuildExact
<1> QED BY <1>3, <1>5, <1>6, <1>7

(* Every step of the service keeps the invariant. *)
LEMMA NextCompileInv == CompileInv /\ [Next]_vars => CompileInv'
<1> SUFFICES ASSUME CompileInv, [Next]_vars PROVE CompileInv'
  OBVIOUS
<1>1. CASE \E h \in Handlers : \E r \in Offered[h] : Receive(h, r)
  BY <1>1, ReceiveKeeps
<1>2. CASE \E h \in Handlers : Serve(h)
  BY <1>2, LookupKeeps, BuildKeeps, InsertKeeps, AcquireKeeps, EndKeeps DEF Serve
<1>3. CASE \E h \in Handlers : TaskUpdate(h) \/ TaskCompile(h) \/ HangUp(h)
  BY <1>3, TaskUpdateKeeps, TaskCompileKeeps, EndKeeps
<1>4. CASE Tick \/ UNCHANGED vars
  BY <1>4 DEF Tick, vars, handlerVars, entryVars, taskVars, CompileInv, Shape, Progress, Held, Ready,
              Exclusive, Outcome, BuildExact
<1> QED BY <1>1, <1>2, <1>3, <1>4 DEF Next

(* Every response of the compile service is the build of exactly the       *)
(* sources and the entry its request carried, for any number of handlers,  *)
(* projects, workers and permits, whatever its worker served before and    *)
(* whoever times out, hangs up or panics (compile, update_sources).        *)
THEOREM BuildsExact == Spec => []BuildExact
<1>1. CompileInv => BuildExact
  BY DEF CompileInv
<1> QED BY InitCompileInv, NextCompileInv, <1>1, PTL DEF Spec
=============================================================================
