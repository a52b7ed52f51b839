--------------------------- MODULE CompileService ---------------------------
(***************************************************************************)
(* The compile service (services/compile/src/lib.rs) and its cache of      *)
(* workers (crates/nisaba-compile-core, crates/nisaba-compile-wasm).  A    *)
(* handler serves one request: it looks its project's worker up, builds    *)
(* one if there is none, waits for a permit, and waits for a blocking task *)
(* that compiles under the worker's lock.  A handler that times out, or    *)
(* whose client hangs up, leaves its task behind.  A worker is named by    *)
(* the handler that built it.                                              *)
(***************************************************************************)
EXTENDS CompileWorker

CONSTANTS
    Handlers,           \* requests in flight, one each
    Projects,
    Offered,            \* per handler: the requests its client may send
    MaxWorkers,         \* max_workers
    MaxConcurrent,      \* max_concurrent_compiles
    IdleTtl,            \* worker_idle_ttl
    MaxClock,           \* bound on the time that passes
    NoWorker

ASSUME CompileAssumption ==
    /\ MaxWorkers \in Nat /\ MaxConcurrent \in Nat \ {0} /\ IdleTtl \in Nat
    /\ NoWorker \notin Handlers /\ IsFiniteSet(Handlers)
    /\ \A h \in Handlers : \A r \in Offered[h] :
         /\ r.project \in Projects \cup {NoProject}
         /\ r.sources \in [DOMAIN r.sources -> DOMAIN TextBytes]

VARIABLES
    req,        \* per handler: its request
    pc,         \* "idle", "lookup", "build", "insert", "permit", "compiling", "answered", "gone"
    uses,       \* per handler: the worker it was given
    answer,     \* per handler: [code, built]
    cache,      \* AppState.workers: per project a worker or NoWorker
    lastUsed, poisoned,     \* WorkerEntry, per worker
    world,      \* per worker: what it holds, once built
    lock,       \* per worker: the handler whose task holds its mutex
    broken,     \* the workers whose mutex was poisoned by a panic
    task,       \* per handler: "none", "queued", "updated", "done", "failed", "panicked"
    built,      \* per handler: what its task compiled
    clock

handlerVars == <<req, pc, uses, answer>>
entryVars == <<cache, lastUsed, poisoned>>
taskVars == <<world, lock, broken, task, built>>
vars == <<req, pc, uses, answer, cache, lastUsed, poisoned, world, lock, broken, task, built, clock>>

Nothing == [code |-> "none"]

Init ==
    /\ req = [h \in Handlers |-> Nothing] /\ pc = [h \in Handlers |-> "idle"]
    /\ uses = [h \in Handlers |-> NoWorker] /\ answer = [h \in Handlers |-> Nothing]
    /\ cache = [p \in Projects |-> NoWorker]
    /\ lastUsed = [h \in Handlers |-> 0] /\ poisoned = [h \in Handlers |-> FALSE]
    /\ world = [h \in Handlers |-> Nothing] /\ lock = [h \in Handlers |-> NoWorker] /\ broken = {}
    /\ task = [h \in Handlers |-> "none"] /\ built = [h \in Handlers |-> Nothing]
    /\ clock = 0

Answer(h, reply) ==
    /\ pc' = [pc EXCEPT ![h] = "answered"] /\ answer' = [answer EXCEPT ![h] = reply]

Fail(h, code) == Answer(h, [code |-> code])

(* The token, then the shape of the request. *)
Receive(h, r) ==
    /\ pc[h] = "idle" /\ req' = [req EXCEPT ![h] = r]
    /\ \/ ~r.authorized /\ Fail(h, "unauthorized")
       \/ r.authorized /\ ~ValidRequest(r) /\ Fail(h, "bad")
       \/ r.authorized /\ ValidRequest(r) /\ pc' = [pc EXCEPT ![h] = "lookup"] /\ UNCHANGED answer
    /\ UNCHANGED <<uses, entryVars, taskVars, clock>>

-----------------------------------------------------------------------------
(* The cache, under its lock. *)

Cached(c) == {p \in Projects : c[p] # NoWorker}

EvictIdle(c) ==
    [p \in Projects |-> IF c[p] # NoWorker /\ clock - lastUsed[c[p]] > IdleTtl THEN NoWorker ELSE c[p]]

(* evict_lru: one of the least recently used. *)
EvictLru(c) ==
    IF Cached(c) = {} THEN {c}
    ELSE {[c EXCEPT ![p] = NoWorker] :
            p \in {p \in Cached(c) : \A q \in Cached(c) : lastUsed[c[p]] <= lastUsed[c[q]]}}

(* The caches that "evict when at capacity" may leave. *)
WithRoom(c) == IF Cardinality(Cached(c)) >= MaxWorkers THEN EvictLru(c) ELSE {c}

(* A poisoned worker of the project is dropped. *)
DropPoisoned(c, p) == IF c[p] # NoWorker /\ poisoned[c[p]] THEN [c EXCEPT ![p] = NoWorker] ELSE c

Use(h, w) ==
    /\ uses' = [uses EXCEPT ![h] = w] /\ lastUsed' = [lastUsed EXCEPT ![w] = clock]
    /\ pc' = [pc EXCEPT ![h] = "permit"]

Lookup(h) ==
    /\ pc[h] = "lookup"
    /\ LET p == req[h].project
           c == DropPoisoned(EvictIdle(cache), p) IN
       \/ c[p] # NoWorker /\ cache' = c /\ Use(h, c[p])
       \/ /\ c[p] = NoWorker /\ cache' \in WithRoom(c)
          /\ pc' = [pc EXCEPT ![h] = "build"] /\ UNCHANGED <<uses, lastUsed>>
    /\ UNCHANGED <<req, answer, poisoned, taskVars, clock>>

(* Worker::new, with the lock released; it may fail. *)
Build(h) ==
    /\ pc[h] = "build"
    /\ \/ /\ world' = [world EXCEPT ![h] = NewWorker(req[h])]
          /\ lastUsed' = [lastUsed EXCEPT ![h] = clock]
          /\ pc' = [pc EXCEPT ![h] = "insert"] /\ UNCHANGED answer
       \/ Fail(h, "internal") /\ UNCHANGED <<world, lastUsed>>
    /\ UNCHANGED <<req, uses, cache, poisoned, lock, broken, task, built, clock>>

(* The double-checked insert: another request may have won the race. *)
Insert(h) ==
    /\ pc[h] = "insert"
    /\ LET p == req[h].project
           c == DropPoisoned(cache, p) IN
       \/ c[p] # NoWorker /\ cache' = c /\ Use(h, c[p]) /\ UNCHANGED answer
       \/ /\ c[p] = NoWorker
          /\ \E roomy \in WithRoom(c) :
               IF Cardinality(Cached(roomy)) >= MaxWorkers
               THEN Fail(h, "busy") /\ cache' = roomy /\ UNCHANGED <<uses, lastUsed>>
               ELSE /\ cache' = [roomy EXCEPT ![p] = h] /\ uses' = [uses EXCEPT ![h] = h]
                    /\ pc' = [pc EXCEPT ![h] = "permit"] /\ UNCHANGED <<lastUsed, answer>>
    /\ UNCHANGED <<req, poisoned, taskVars, clock>>

-----------------------------------------------------------------------------
(* The permit is the handler's, not the task's. *)

Unfinished == {"queued", "updated"}

(* Mutant: the permit goes with the task. *)
PermitsOfTasks == {h \in Handlers : pc[h] = "compiling" \/ task[h] \in Unfinished}

HoldingPermit == {h \in Handlers : pc[h] = "compiling"}

Acquire(h) ==
    /\ pc[h] = "permit" /\ Cardinality(HoldingPermit) < MaxConcurrent
    /\ pc' = [pc EXCEPT ![h] = "compiling"] /\ task' = [task EXCEPT ![h] = "queued"]
    /\ UNCHANGED <<req, uses, answer, entryVars, world, lock, broken, built, clock>>

(* The task waits for the mutex, whose poisoning by a panic is an error.   *)
(* Under the mutex: update_sources ...  A universe that cannot be built    *)
(* for another entry fails the task with the sources applied.              *)
TaskUpdate(h) ==
    /\ task[h] = "queued" /\ lock[uses[h]] = NoWorker
    /\ LET w == uses[h]
           r == req[h] IN
       \/ /\ w \in broken /\ task' = [task EXCEPT ![h] = "failed"] /\ UNCHANGED <<world, lock>>
       \/ /\ w \notin broken /\ world' = [world EXCEPT ![w] = UpdateSources(@, r)]
          /\ task' = [task EXCEPT ![h] = "updated"] /\ lock' = [lock EXCEPT ![w] = h]
       \/ /\ w \notin broken /\ world[w].knownEntry # r.entry
          /\ world' = [world EXCEPT ![w] = ApplySources(@, r)]
          /\ task' = [task EXCEPT ![h] = "failed"] /\ UNCHANGED lock
    /\ UNCHANGED <<handlerVars, entryVars, broken, built, clock>>

(* ... then compile, which may panic. *)
TaskCompile(h) ==
    /\ task[h] = "updated"
    /\ LET w == uses[h] IN
       \/ /\ built' = [built EXCEPT ![h] = Compiled(world[w])]
          /\ task' = [task EXCEPT ![h] = "done"] /\ UNCHANGED broken
       \/ /\ broken' = broken \cup {w}
          /\ task' = [task EXCEPT ![h] = "panicked"] /\ UNCHANGED built
    /\ lock' = [lock EXCEPT ![uses[h]] = NoWorker]
    /\ UNCHANGED <<handlerVars, entryVars, world, clock>>

(* The answer of a handler whose task has ended. *)
Finish(h) ==
    /\ pc[h] = "compiling" /\ task[h] \in {"done", "failed", "panicked"}
    /\ IF task[h] = "done" THEN Answer(h, [code |-> "ok", built |-> built[h]]) ELSE Fail(h, "internal")
    /\ UNCHANGED <<req, uses, entryVars, taskVars, clock>>

Timeout(h) ==
    /\ pc[h] = "compiling" /\ task[h] \in Unfinished
    /\ poisoned' = [poisoned EXCEPT ![uses[h]] = TRUE] /\ Fail(h, "timeout")
    /\ UNCHANGED <<req, uses, cache, lastUsed, taskVars, clock>>

(* The client hangs up: the handler is dropped where it waits. *)
HangUp(h) ==
    /\ pc[h] \in {"lookup", "insert", "permit", "compiling"}
    /\ pc' = [pc EXCEPT ![h] = "gone"]
    /\ UNCHANGED <<req, uses, answer, entryVars, taskVars, clock>>

Tick ==
    /\ clock < MaxClock /\ clock' = clock + 1
    /\ UNCHANGED <<handlerVars, entryVars, taskVars>>

Serve(h) == Lookup(h) \/ Build(h) \/ Insert(h) \/ Acquire(h) \/ Finish(h) \/ Timeout(h)

Next ==
    \/ \E h \in Handlers :
         \/ \E r \in Offered[h] : Receive(h, r)
         \/ Serve(h) \/ TaskUpdate(h) \/ TaskCompile(h) \/ HangUp(h)
    \/ Tick

(* A handler goes on and a timeout fires; a compile need never end. *)
Spec == Init /\ [][Next]_vars /\ \A h \in Handlers : WF_vars(Serve(h))

-----------------------------------------------------------------------------
(* A response is the build of exactly what its request asked for, whatever *)
(* the worker served before, whoever else uses it, times out, hangs up or  *)
(* fails half-way (compile, update_sources, Worker::compile).              *)
BuildExact ==
    \A h \in Handlers : answer[h].code = "ok" => answer[h].built = Asked(req[h])

(* Every request is answered, or its client has gone, even when compiles   *)
(* never end: a permit is held no longer than its handler lives (compile). *)
RequestsAnswered ==
    \A h \in Handlers : pc[h] = "lookup" ~> pc[h] \in {"answered", "gone"}
=============================================================================
