----------------------------- MODULE WorkerPool -----------------------------
(***************************************************************************)
(* The browser's compute workers: the page sends numbered requests to one    *)
(* gateway worker (worker-client), which answers them itself or spreads the  *)
(* blobs of an MDU, in batches, over a pool of commit workers.               *)
(*                                                                         *)
(* Channels between threads are FIFO.  A worker handles an event and runs on  *)
(* to the next await that really waits before it takes another one (Idle).   *)
(* Payloads are left out: a request is its type, a batch its number.         *)
(***************************************************************************)
EXTENDS Integers, Sequences, FiniteSets, SequencesExt

CONSTANTS
    MaxRequests,    \* bound: requests the page sends
    Batches,        \* batches of blobs per MDU
    PoolSize,       \* commit workers the gateway worker spawns
    ErrorsInInit    \* commit workers may fail before they are initialized

\* What the constants are taken to be.
PoolAssumption ==
    /\ MaxRequests \in Nat /\ Batches \in Nat \ {0} /\ PoolSize \in Nat \ {0, 1}
    /\ ErrorsInInit \in BOOLEAN

RequestIds == 0..(MaxRequests - 1)
Workers  == 0..(PoolSize - 1)
Types    == {"initNilWasm", "initMdu0Builder", "mdu0", "compute", "shardFileProgressive"}

VARIABLES
    \* page
    requests,       \* types of the requests sent so far, by id from 0
    promise,        \* what became of each request's promise
    \* channels between page and gateway worker
    inbox, outbox,
    \* gateway worker
    alive,          \* the script of the gateway worker runs
    wasm,           \* wasmInitialized, wasmInitError
    nilWasm,        \* nilWasmInstance is set
    builder,        \* mdu0BuilderInstance is set
    waiting,        \* requests whose handler awaits the pool's initialization
    sharding,       \* requests whose handler is in the loop of shardFileProgressive
    task,           \* progress of that loop
    \* pool
    pool,           \* commitWorkersReady: not started, starting, done
    commitWorkers,  \* the workers batches are sent to
    robin,          \* commitRoundRobin
    initOk,         \* workers that have answered their own initNilWasm
    byWorker,       \* commitPendingByWorker, for the workers with an entry
    queue,          \* messages each commit worker still has to answer
    dead            \* commit workers that have failed

pageVars   == <<requests, promise>>
workerVars == <<alive, wasm, nilWasm, builder>>
poolVars   == <<pool, initOk>>
taskVars   == <<waiting, sharding, task>>
sendVars   == <<commitWorkers, robin, byWorker, queue, dead>>
vars == <<pageVars, inbox, outbox, workerVars, taskVars, poolVars, sendVars>>

NoTask == [next |-> 0, flying |-> {}, done |-> {}, width |-> 1]

Msg(id, type) == [id |-> id, type |-> type]
Commit(id, b) == [id |-> id, type |-> "commit", batch |-> b]

-----------------------------------------------------------------------------
(* The page: worker-client *)

sendMessageToWorker(type) ==
    LET id == Len(requests)
    IN  /\ id < MaxRequests
        /\ requests' = Append(requests, type)
        /\ promise' = [promise EXCEPT ![id] = "pending"]
        /\ inbox' = IF alive THEN Append(inbox, id) ELSE inbox
        /\ UNCHANGED <<outbox, workerVars, taskVars, poolVars, sendVars>>

\* worker.onmessage; an answer nobody waits for is dropped.
OnMessage ==
    LET m == Head(outbox)
    IN  /\ outbox # <<>>
        /\ outbox' = Tail(outbox)
        /\ promise' = [promise EXCEPT ![m.id] =
                         IF @ # "pending" \/ m.type = "progress" THEN @
                         ELSE IF m.type = "result" THEN "resolved" ELSE "rejected"]
        /\ UNCHANGED <<requests, inbox, workerVars, taskVars, poolVars, sendVars>>

\* worker.onerror: the gateway worker fails, and every pending promise with it.
\* Its handlers catch what they throw, so the event says that the script could
\* not be loaded or that its thread is gone: no answer follows.
OnError ==
    /\ alive
    /\ alive' = FALSE
    /\ promise' = [id \in RequestIds |-> IF promise[id] = "pending" THEN "rejected" ELSE promise[id]]
    /\ inbox' = <<>> /\ outbox' = <<>>
    /\ UNCHANGED <<requests, wasm, nilWasm, builder, taskVars, poolVars, sendVars>>

-----------------------------------------------------------------------------
(* The gateway worker *)

\* The loop of shardFileProgressive has something to do for id.
HasRoom(id) == task[id].next < Batches /\ Cardinality(task[id].flying) < task[id].width
Complete(id) == task[id].next = Batches /\ task[id].flying = {}

\* Nothing is left to run before the next event.
Idle == \A id \in sharding : ~HasRoom(id) /\ ~Complete(id)

\* The WASM module is compiled, or is not: an error is kept for good.
initializeWasm(outcome) ==
    /\ alive /\ wasm = "loading"
    /\ wasm' = outcome
    /\ UNCHANGED <<pageVars, inbox, outbox, alive, nilWasm, builder, taskVars, poolVars, sendVars>>

\* The handler of the oldest request gets past its first await.
Dispatch(type) ==
    /\ alive /\ Idle /\ wasm # "loading" /\ inbox # <<>>
    /\ requests[Head(inbox) + 1] = type
    /\ inbox' = Tail(inbox)
    /\ UNCHANGED <<pageVars, alive, wasm>>

Answer(id, ok) == outbox' = Append(outbox, Msg(id, IF ok THEN "result" ELSE "error"))

\* initNilWasm without the pool: it is there, cannot be made, or is not wanted
\* on a machine with two cores or fewer.
InitNilWasmAlone ==
    /\ Dispatch("initNilWasm")
    /\ nilWasm' = (wasm = "ready")
    /\ Answer(Head(inbox), wasm = "ready")
    /\ pool' = IF wasm = "ready" /\ ~nilWasm THEN "done" ELSE pool
    /\ UNCHANGED <<builder, taskVars, initOk, sendVars>>

\* initNilWasm spawns the pool, sends every worker its own initNilWasm and
\* waits for all of them.
InitNilWasmWithPool ==
    /\ Dispatch("initNilWasm")
    /\ wasm = "ready" /\ ~nilWasm
    /\ nilWasm' = TRUE
    /\ pool' = "starting"
    /\ byWorker' = [w \in Workers |-> {}]
    /\ queue' = [w \in Workers |-> <<Msg(Head(inbox), "init")>>]
    /\ waiting' = waiting \cup {Head(inbox)}
    /\ UNCHANGED <<outbox, builder, sharding, task, commitWorkers, robin, initOk, dead>>

InitMdu0Builder ==
    /\ Dispatch("initMdu0Builder")
    /\ builder' = (builder \/ nilWasm)
    /\ Answer(Head(inbox), nilWasm)
    /\ UNCHANGED <<nilWasm, taskVars, poolVars, sendVars>>

\* appendFileToMdu0, getMdu0Bytes, setMdu0Root, getMdu0WitnessCount
UseMdu0Builder ==
    /\ Dispatch("mdu0")
    /\ Answer(Head(inbox), builder)
    /\ UNCHANGED <<nilWasm, builder, taskVars, poolVars, sendVars>>

\* shardFile, expandMduRs, computeManifest, computeMduRoot; ok is false for
\* data the WASM module refuses.
Compute(ok) ==
    /\ Dispatch("compute")
    /\ Answer(Head(inbox), nilWasm /\ ok)
    /\ UNCHANGED <<nilWasm, builder, taskVars, poolVars, sendVars>>

-----------------------------------------------------------------------------
(* shardFileProgressive *)

ShardFileProgressive ==
    LET id == Head(inbox)
    IN  /\ Dispatch("shardFileProgressive")
        /\ IF nilWasm
           THEN /\ sharding' = sharding \cup {id}
                /\ task' = [task EXCEPT ![id].width =
                              IF commitWorkers = <<>> THEN 1 ELSE Len(commitWorkers)]
                /\ UNCHANGED outbox
           ELSE Answer(id, FALSE) /\ UNCHANGED <<sharding, task>>
        /\ UNCHANGED <<nilWasm, builder, waiting, poolVars, sendVars>>

\* commitBlobsWithPool: the next batch goes to the next worker.
SendBatch(id) ==
    LET w == commitWorkers[(robin % Len(commitWorkers)) + 1]
        b == task[id].next
    IN  /\ alive /\ id \in sharding /\ HasRoom(id)
        /\ commitWorkers # <<>>
        /\ robin' = robin + 1
        /\ task' = [task EXCEPT ![id].next = @ + 1, ![id].flying = @ \cup {b}]
        /\ byWorker' = [v \in DOMAIN byWorker |->
                          IF v = w THEN byWorker[v] \cup {<<id, b>>} ELSE byWorker[v]]
        /\ queue' = [queue EXCEPT ![w] = IF w \in dead THEN @ ELSE Append(@, Commit(id, b))]
        /\ UNCHANGED <<pageVars, inbox, outbox, workerVars, waiting, sharding, poolVars,
                       commitWorkers, dead>>

\* Without a pool the batch is committed here and now.
CommitHere(id) ==
    /\ alive /\ id \in sharding /\ HasRoom(id)
    /\ commitWorkers = <<>>
    /\ task' = [task EXCEPT ![id].next = @ + 1, ![id].done = @ \cup {task[id].next}]
    /\ outbox' = Append(outbox, Msg(id, "progress"))
    /\ UNCHANGED <<pageVars, inbox, workerVars, waiting, sharding, poolVars, sendVars>>

\* Answers with the error, and carries on with the other batches.
FailShardsAndGoOn(S) ==
    /\ outbox' = outbox \o [j \in 1..Cardinality(S \cap sharding) |->
                              Msg(SetToSeq(S \cap sharding)[j], "error")]
    /\ UNCHANGED sharding

\* The rejections of batches of the requests S: their handlers end.
FailShards(S) ==
    /\ sharding' = sharding \ S
    /\ outbox' = outbox \o [j \in 1..Cardinality(S \cap sharding) |->
                              Msg(SetToSeq(S \cap sharding)[j], "error")]

\* commit_blobs throws: the batch is the only one in flight, and the handler
\* ends with its error.
CommitHereFails(id) ==
    /\ alive /\ id \in sharding /\ HasRoom(id)
    /\ commitWorkers = <<>>
    /\ FailShards({id})
    /\ UNCHANGED <<pageVars, inbox, workerVars, waiting, task, poolVars, sendVars>>

FinishShard(id) ==
    /\ alive /\ id \in sharding /\ Complete(id)
    /\ sharding' = sharding \ {id}
    /\ Answer(id, TRUE)
    /\ UNCHANGED <<pageVars, inbox, workerVars, waiting, task, poolVars, sendVars>>

-----------------------------------------------------------------------------
(* The pool *)

\* A commit worker answers its oldest message.
PoolAnswers(w, type) ==
    /\ alive /\ Idle
    /\ queue[w] # <<>> /\ Head(queue[w]).type = type
    /\ queue' = [queue EXCEPT ![w] = Tail(@)]
    /\ UNCHANGED <<pageVars, inbox, workerVars, robin, dead>>

\* A commit worker is initialized; the last one completes the pool.
PoolInitialized(w) ==
    LET all == initOk \cup {w} = Workers /\ pool = "starting"
    IN  /\ PoolAnswers(w, "init")
        /\ initOk' = initOk \cup {w}
        /\ IF all
           THEN /\ pool' = "done"
                /\ commitWorkers' = [j \in 1..PoolSize |-> j - 1]
                /\ waiting' = {}
                /\ Answer(Head(queue[w]).id, TRUE)
           ELSE UNCHANGED <<pool, commitWorkers, waiting, outbox>>
        /\ UNCHANGED <<sharding, task, byWorker>>

\* A commit worker answers its initNilWasm with an error: the gateway worker
\* goes on without a pool.
PoolInitFails(w) ==
    /\ PoolAnswers(w, "init")
    /\ IF pool = "starting"
       THEN pool' = "done" /\ waiting' = {} /\ Answer(Head(queue[w]).id, TRUE)
       ELSE UNCHANGED <<pool, waiting, outbox>>
    /\ UNCHANGED <<sharding, task, initOk, commitWorkers, byWorker>>

Untracked(w, m) ==
    [v \in DOMAIN byWorker |->
        IF v = w THEN byWorker[v] \ {<<m.id, m.batch>>} ELSE byWorker[v]]

\* A batch is committed; its handler may have answered with an error since.
BatchDone(w) ==
    LET m == Head(queue[w])
    IN  /\ PoolAnswers(w, "commit")
        /\ byWorker' = Untracked(w, m)
        /\ task' = [task EXCEPT ![m.id].flying = @ \ {m.batch}, ![m.id].done = @ \cup {m.batch}]
        /\ outbox' = Append(outbox, Msg(m.id, "progress"))
        /\ UNCHANGED <<waiting, sharding, poolVars, commitWorkers>>

\* Forgets the batch that failed.
BatchForgotten(w) ==
    LET m == Head(queue[w])
    IN  /\ PoolAnswers(w, "commit")
        /\ byWorker' = Untracked(w, m)
        /\ task' = [task EXCEPT ![m.id].flying = @ \ {m.batch}]
        /\ UNCHANGED <<waiting, sharding, outbox, poolVars, commitWorkers>>

\* A batch cannot be committed.
BatchFails(w) ==
    LET m == Head(queue[w])
    IN  /\ PoolAnswers(w, "commit")
        /\ byWorker' = Untracked(w, m)
        /\ task' = [task EXCEPT ![m.id].flying = @ \ {m.batch}]
        /\ FailShards({m.id})
        /\ UNCHANGED <<waiting, poolVars, commitWorkers>>

\* A worker is in the rotation once, or not at all.
Dies(w) ==
    LET at == {j \in 1..Len(commitWorkers) : commitWorkers[j] = w}
    IN
    /\ alive /\ Idle
    /\ w \notin dead
    /\ pool # "no"
    /\ ErrorsInInit \/ (w \in initOk /\ pool = "done")
    /\ dead' = dead \cup {w}
    /\ queue' = [queue EXCEPT ![w] = <<>>]
    /\ commitWorkers' = IF at = {} THEN commitWorkers
                        ELSE RemoveAt(commitWorkers, CHOOSE j \in at : TRUE)
    /\ UNCHANGED <<pageVars, inbox, workerVars, waiting, poolVars, robin>>

\* Takes the worker out of the rotation and nothing more.
CommitWorkerErrorSilent(w) ==
    /\ Dies(w)
    /\ UNCHANGED <<byWorker, task, sharding, outbox>>

\* onerror of a commit worker: its batches are rejected and it leaves the
\* rotation.
CommitWorkerError(w) ==
    LET lost == IF w \in DOMAIN byWorker THEN byWorker[w] ELSE {}
    IN  /\ Dies(w)
        /\ byWorker' = [v \in DOMAIN byWorker \ {w} |-> byWorker[v]]
        /\ task' = [id \in RequestIds |->
                      [task[id] EXCEPT !.flying = {b \in @ : <<id, b>> \notin lost}]]
        /\ FailShards({p[1] : p \in lost})

Init ==
    /\ requests = <<>>
    /\ promise = [id \in RequestIds |-> "none"]
    /\ inbox = <<>> /\ outbox = <<>>
    /\ alive = TRUE /\ wasm = "loading" /\ nilWasm = FALSE /\ builder = FALSE
    /\ waiting = {} /\ sharding = {}
    /\ task = [id \in RequestIds |-> NoTask]
    /\ pool = "no" /\ initOk = {}
    /\ commitWorkers = <<>> /\ robin = 0
    /\ byWorker = [w \in {} |-> {}]
    /\ queue = [w \in Workers |-> <<>>]
    /\ dead = {}

GatewayStep ==
    \/ \E o \in {"ready", "failed"} : initializeWasm(o)
    \/ InitNilWasmAlone \/ InitNilWasmWithPool \/ InitMdu0Builder \/ UseMdu0Builder
    \/ \E ok \in BOOLEAN : Compute(ok)
    \/ ShardFileProgressive
    \/ \E id \in RequestIds :
          SendBatch(id) \/ CommitHere(id) \/ CommitHereFails(id) \/ FinishShard(id)

PoolStep(w) == PoolInitialized(w) \/ PoolInitFails(w) \/ BatchDone(w) \/ BatchFails(w)

Next ==
    \/ \E type \in Types : sendMessageToWorker(type)
    \/ OnMessage \/ OnError
    \/ GatewayStep
    \/ \E w \in Workers : PoolStep(w) \/ CommitWorkerError(w)

Spec == Init /\ [][Next]_vars

\* Threads that have a message to handle handle it; workers need not fail, and
\* the page need not ask.
Fairness ==
    /\ WF_vars(OnMessage)
    /\ WF_vars(GatewayStep)
    /\ \A w \in Workers : WF_vars(PoolStep(w))

FairSpec == Spec /\ Fairness

-----------------------------------------------------------------------------
(* Properties *)

\* Types of the workers' state; no more batches of a request are in flight
\* than the pool had workers.
TypeOK ==
    /\ requests \in Seq(Types) /\ Len(requests) <= MaxRequests
    /\ promise \in [RequestIds -> {"none", "pending", "resolved", "rejected"}]
    /\ inbox \in Seq(RequestIds)
    /\ outbox \in Seq([id : RequestIds, type : {"result", "error", "progress"}])
    /\ alive \in BOOLEAN /\ wasm \in {"loading", "ready", "failed"}
    /\ nilWasm \in BOOLEAN /\ builder \in BOOLEAN
    /\ waiting \subseteq RequestIds /\ sharding \subseteq RequestIds
    /\ pool \in {"no", "starting", "done"} /\ initOk \subseteq Workers /\ dead \subseteq Workers
    /\ commitWorkers \in Seq(Workers) /\ robin \in Nat
    /\ DOMAIN byWorker \subseteq Workers
    /\ \A id \in RequestIds :
          /\ task[id].next \in 0..Batches /\ task[id].width \in 1..PoolSize
          /\ task[id].flying \subseteq 0..(Batches - 1) /\ task[id].done \subseteq 0..(Batches - 1)
          /\ Cardinality(task[id].flying) <= task[id].width

\* The witness of an MDU that the page receives holds the commitments of all
\* its blobs, whichever workers computed them, failed or were lost meanwhile.
WitnessIsWhole ==
    \A id \in RequestIds :
        promise[id] = "resolved" /\ requests[id + 1] = "shardFileProgressive"
        => task[id].done = 0..(Batches - 1)

\* A request is answered once: when its promise is settled no second answer
\* is on its way, so that progress alone can reach a request that is over.
AnsweredOnce ==
    \A id \in RequestIds :
        LET answers == {j \in 1..Len(outbox) : outbox[j].id = id /\ outbox[j].type # "progress"}
        IN  /\ Cardinality(answers) <= 1
            /\ answers # {} => promise[id] = "pending" /\ id \notin waiting \cup sharding

\* The requests sent to a gateway worker that runs are answered or rejected, in
\* the end all of them, also when commit workers fail under them, or the gateway
\* worker itself does.
RequestsSettle ==
    alive /\ (\E id \in RequestIds : promise[id] = "pending")
    ~> (\A id \in RequestIds : promise[id] # "pending")
-----------------------------------------------------------------------------
(* What a document, a comment or a test says and the code does not keep; the *)
(* README tells how. *)

\* The pool is best effort: whatever happens to its workers, the request that
\* initializes NilWasm is answered.
PoolIsBestEffort ==
    \A id \in RequestIds :
        promise[id] = "pending" /\ alive /\ requests[id + 1] = "initNilWasm"
        ~> promise[id] # "pending"
=============================================================================
