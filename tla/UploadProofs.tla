---------------------------- MODULE UploadProofs ----------------------------
(***************************************************************************)
(* Proofs about an upload in the browser: the workers that encode it       *)
(* (WorkerPool) and the panel that uploads and commits it (FileSharder).   *)
(* What is proved is stated in Uploads.                                    *)
(***************************************************************************)
EXTENDS Uploads, Integers, FiniteSets, Sequences, SequenceTheorems, FiniteSetTheorems, TLAPS

-----------------------------------------------------------------------------
(***************************************************************************)
(* The workers.  A request that is not settled is in one place: the inbox, *)
(* a handler that waits or shards, or an answer on its way.                *)
(***************************************************************************)
AllBatches == 0..(Batches - 1)

TaskType ==
    [next : 0..Batches, flying : SUBSET AllBatches, done : SUBSET AllBatches, width : 1..PoolSize]

PoolMessage ==
    [id : W!RequestIds, type : {"init"}]
    \cup [id : W!RequestIds, type : {"commit"}, batch : AllBatches]

WorkerMessage == [id : W!RequestIds, type : {"result", "error", "progress"}]

\* Whole(t): every batch of the task is committed.
Whole(t) == t.done = AllBatches

PageTypes ==
    /\ requests \in Seq(W!Types) /\ Len(requests) <= MaxRequests
    /\ promise \in [W!RequestIds -> {"none", "pending", "resolved", "rejected"}]
    /\ inbox \in Seq(W!RequestIds)
    /\ outbox \in Seq(WorkerMessage)

WorkerTypes ==
    /\ alive \in BOOLEAN /\ wasm \in {"loading", "ready", "failed"}
    /\ nilWasm \in BOOLEAN /\ mdu0Builder \in BOOLEAN
    /\ waiting \subseteq W!RequestIds /\ sharding \subseteq W!RequestIds
    /\ pool \in {"no", "starting", "done"} /\ initOk \subseteq W!Workers /\ dead \subseteq W!Workers

TaskTypes ==
    /\ task \in [W!RequestIds -> TaskType]
    /\ \A id \in W!RequestIds : Cardinality(task[id].flying) <= task[id].width

SendTypes ==
    /\ commitWorkers \in Seq(W!Workers) /\ Len(commitWorkers) <= PoolSize
    /\ robin \in Nat
    /\ DOMAIN byWorker \subseteq W!Workers
    /\ queue \in [W!Workers -> Seq(PoolMessage)]

PoolTypes == PageTypes /\ WorkerTypes /\ TaskTypes /\ SendTypes

\* Requests that were not sent yet.
UnsentInv ==
    \A id \in W!RequestIds : id >= Len(requests) => promise[id] = "none" /\ task[id] = W!NoTask

\* Requests the gateway worker has not looked at.
InboxInv ==
    \A j \in 1..Len(inbox) :
        /\ promise[inbox[j]] = "pending" /\ task[inbox[j]] = W!NoTask
        /\ inbox[j] \notin waiting \cup sharding
        /\ \A k \in 1..Len(inbox) : inbox[k] = inbox[j] => k = j

\* Requests a handler works on.
HeldInv ==
    /\ \A id \in waiting :
          promise[id] = "pending" /\ requests[id + 1] = "initNilWasm" /\ id \notin sharding
    /\ \A id \in sharding : promise[id] = "pending" /\ requests[id + 1] = "shardFileProgressive"

\* Answers on their way.
AnswersInv ==
    \A j \in 1..Len(outbox) : outbox[j].type # "progress" =>
        LET id == outbox[j].id IN
        /\ promise[id] = "pending"
        /\ id \notin waiting \cup sharding
        /\ \A k \in 1..Len(inbox) : inbox[k] # id
        /\ \A k \in 1..Len(outbox) : outbox[k].type # "progress" /\ outbox[k].id = id => k = j
        /\ outbox[j].type = "result" /\ requests[id + 1] = "shardFileProgressive" => Whole(task[id])

\* A handler that shards has committed, or waits for, every batch it has taken up.
ShardingInv ==
    /\ \A id \in sharding : 0..(task[id].next - 1) = task[id].flying \cup task[id].done
    /\ \A w \in W!Workers : \A j \in 1..Len(queue[w]) :
          queue[w][j].type = "commit" => queue[w][j].batch < task[queue[w][j].id].next

\* One request at most starts the pool.
StartingInv ==
    /\ nilWasm => wasm = "ready"
    /\ nilWasm <=> pool # "no"
    /\ pool # "starting" => waiting = {}
    /\ pool # "done" => commitWorkers = <<>>
    /\ pool = "no" => \A w \in W!Workers : queue[w] = <<>>
    /\ pool = "starting" =>
          \E id \in W!RequestIds :
             /\ waiting = {id}
             /\ \A w \in W!Workers : \A j \in 1..Len(queue[w]) :
                   queue[w][j].type = "init" => queue[w][j].id = id

PoolInv ==
    /\ PoolTypes /\ UnsentInv /\ StartingInv /\ ShardingInv
    /\ alive => InboxInv /\ HeldInv /\ AnswersInv
    /\ ~alive => inbox = <<>> /\ outbox = <<>>
    /\ W!WitnessIsWhole

LEMMA OutboxIds ==
    ASSUME PageTypes PROVE \A j \in 1..Len(outbox) : outbox[j].id \in W!RequestIds
  <1>1. \A j \in 1..Len(outbox) : outbox[j] \in WorkerMessage
    BY DEF PageTypes
  <1>2. QED
    BY <1>1 DEF WorkerMessage

LEMMA PoolCardinality == \A T : W!Cardinality(T) = Cardinality(T)
  BY DEF W!Cardinality, Cardinality

\* The invariant says what is to be shown.
LEMMA PoolImplies == ASSUME PoolInv PROVE AnswersAreWhole
  <1>1. W!TypeOK
    <2>1. \A id \in W!RequestIds :
          /\ task[id].next \in 0..Batches /\ task[id].width \in 1..PoolSize
          /\ task[id].flying \subseteq AllBatches /\ task[id].done \subseteq AllBatches
          /\ W!Cardinality(task[id].flying) <= task[id].width
      BY PoolCardinality DEF PoolInv, PoolTypes, TaskTypes, TaskType
    <2>2. QED
      BY <2>1 DEF PoolInv, PoolTypes, PageTypes, WorkerTypes, SendTypes, W!TypeOK, AllBatches,
                  WorkerMessage
  <1>2. W!AnsweredOnce
    <2> SUFFICES ASSUME NEW id \in W!RequestIds
                 PROVE  LET answers == {j \in 1..Len(outbox) :
                                          outbox[j].id = id /\ outbox[j].type # "progress"}
                        IN  /\ W!Cardinality(answers) <= 1
                            /\ answers # {} => promise[id] = "pending" /\ id \notin waiting \cup sharding
      BY DEF W!AnsweredOnce
    <2> DEFINE answers == {j \in 1..Len(outbox) : outbox[j].id = id /\ outbox[j].type # "progress"}
    <2>1. CASE answers = {}
      <3>1. W!Cardinality({}) = 0
        BY FS_EmptySet, PoolCardinality, Zenon
      <3>2. W!Cardinality(answers) <= 1
        <4>1. W!Cardinality(answers) = 0
          BY <2>1, <3>1, Zenon
        <4> HIDE DEF answers
        <4>2. QED
          BY <4>1
      <3>3. QED
        BY <2>1, <3>2, Zenon
    <2>2. CASE answers # {}
      <3>1. PICK j \in 1..Len(outbox) : outbox[j].id = id /\ outbox[j].type # "progress"
        BY <2>2
      <3>2. alive
        BY <3>1 DEF PoolInv, PoolTypes, WorkerTypes
      <3>3. AnswersInv
        BY <3>2 DEF PoolInv
      <3>4. /\ promise[id] = "pending" /\ id \notin waiting \cup sharding
            /\ \A k \in 1..Len(outbox) : outbox[k].type # "progress" /\ outbox[k].id = id => k = j
        BY <3>1, <3>3 DEF AnswersInv
      <3>5. answers = {j}
        BY <3>1, <3>4
      <3>6. W!Cardinality(answers) = 1
        BY <3>5, FS_Singleton, PoolCardinality
      <3>7. QED
        BY <3>4, <3>6
    <2>3. QED
      BY <2>1, <2>2
  <1>3. QED
    BY <1>1, <1>2 DEF PoolInv, AnswersAreWhole

LEMMA PoolInit == ASSUME W!PoolAssumption, W!Init PROVE PoolInv
  <1>1. PageTypes
    BY DEF W!Init, PageTypes, W!RequestIds, WorkerMessage, W!PoolAssumption
  <1>2. WorkerTypes
    BY DEF W!Init, WorkerTypes
  <1>3. W!NoTask \in TaskType /\ W!NoTask.width = 1 /\ W!NoTask.flying = {}
    BY DEF W!NoTask, TaskType, AllBatches, W!PoolAssumption
  <1>4. TaskTypes
    <2>1. Cardinality({}) = 0
      BY FS_EmptySet
    <2>2. \A id \in W!RequestIds : task[id] = W!NoTask
      BY DEF W!Init
    <2>3. task \in [W!RequestIds -> TaskType]
      BY <1>3 DEF W!Init
    <2>4. QED
      BY <1>3, <2>1, <2>2, <2>3 DEF TaskTypes
  <1>5. SendTypes
    BY DEF W!Init, SendTypes, W!PoolAssumption
  <1>6. UnsentInv /\ W!WitnessIsWhole
    BY DEF W!Init, UnsentInv, W!WitnessIsWhole
  <1>7. StartingInv /\ ShardingInv /\ InboxInv /\ HeldInv /\ AnswersInv
    BY DEF W!Init, StartingInv, ShardingInv, InboxInv, HeldInv, AnswersInv
  <1>8. alive
    BY DEF W!Init
  <1>9. QED
    BY <1>1, <1>2, <1>4, <1>5, <1>6, <1>7, <1>8 DEF PoolInv, PoolTypes

-----------------------------------------------------------------------------
(* Steps of the page *)

LEMMA SendKeeps ==
    ASSUME W!PoolAssumption, PoolInv, NEW type \in W!Types, W!sendMessageToWorker(type)
    PROVE  PoolInv'
  <1> DEFINE new == Len(requests)
  <1>0. PageTypes /\ WorkerTypes /\ TaskTypes /\ SendTypes
    BY DEF PoolInv, PoolTypes
  <1>1. /\ new \in W!RequestIds /\ new \in Nat /\ new < MaxRequests
    BY <1>0 DEF W!sendMessageToWorker, W!RequestIds, W!PoolAssumption, PageTypes
  <1>2. /\ promise[new] = "none" /\ task[new] = W!NoTask
    BY <1>1 DEF PoolInv, UnsentInv
  <1>3. /\ requests' = Append(requests, type)
        /\ promise' = [promise EXCEPT ![new] = "pending"]
        /\ inbox' = IF alive THEN Append(inbox, new) ELSE inbox
    BY DEF W!sendMessageToWorker
  <1>4. UNCHANGED <<outbox, alive, wasm, nilWasm, mdu0Builder, waiting, sharding, task, pool, initOk,
                    commitWorkers, robin, byWorker, queue, dead>>
    BY DEF W!sendMessageToWorker, W!workerVars, W!taskVars, W!poolVars, W!sendVars
  <1> HIDE DEF new
  <1>5. /\ Len(requests') = new + 1 /\ requests' \in Seq(W!Types)
        /\ \A j \in 1..new : requests'[j] = requests[j]
    BY <1>0, <1>3 DEF PageTypes, new
  <1>6. PoolTypes'
    <2>1. PageTypes'
      <3>1. promise' \in [W!RequestIds -> {"none", "pending", "resolved", "rejected"}]
        BY <1>0, <1>1, <1>3 DEF PageTypes
      <3>2. inbox' \in Seq(W!RequestIds)
        BY <1>0, <1>1, <1>3 DEF PageTypes
      <3>3. Len(requests') <= MaxRequests
        BY <1>1, <1>5 DEF W!PoolAssumption
      <3>4. QED
        BY <1>0, <1>4, <1>5, <3>1, <3>2, <3>3 DEF PageTypes
    <2>2. WorkerTypes' /\ TaskTypes' /\ SendTypes'
      BY <1>0, <1>4 DEF WorkerTypes, TaskTypes, SendTypes
    <2>3. QED
      BY <2>1, <2>2 DEF PoolTypes
  <1>7. \A id \in W!RequestIds : id # new => promise'[id] = promise[id]
    BY <1>0, <1>3 DEF PageTypes
  <1>8. promise'[new] = "pending"
    BY <1>0, <1>1, <1>3 DEF PageTypes
  <1>9. \A id \in W!RequestIds : promise[id] # "none" => id + 1 \in 1..new
    BY <1>1 DEF PoolInv, UnsentInv, W!RequestIds, new, W!PoolAssumption
  <1>10. UnsentInv'
    BY <1>0, <1>1, <1>4, <1>5, <1>7 DEF PoolInv, UnsentInv, W!RequestIds, new, W!PoolAssumption
  <1>11. StartingInv' /\ ShardingInv'
    BY <1>4 DEF PoolInv, StartingInv, ShardingInv
  <1>12. W!WitnessIsWhole'
    <2> SUFFICES ASSUME NEW id \in W!RequestIds, promise'[id] = "resolved",
                        requests'[id + 1] = "shardFileProgressive"
                 PROVE  task'[id].done = 0..(Batches - 1)
      BY DEF W!WitnessIsWhole
    <2>1. promise[id] = "resolved"
      BY <1>7, <1>8
    <2>2. requests[id + 1] = "shardFileProgressive"
      BY <1>5, <1>9, <2>1
    <2>3. QED
      BY <1>4, <2>1, <2>2 DEF PoolInv, W!WitnessIsWhole
  <1>13. ~alive' => inbox' = <<>> /\ outbox' = <<>>
    BY <1>0, <1>3, <1>4 DEF PoolInv, WorkerTypes
  <1>14. ASSUME alive PROVE InboxInv' /\ HeldInv' /\ AnswersInv'
    <2>1. InboxInv /\ HeldInv /\ AnswersInv
      BY <1>14 DEF PoolInv
    <2>2. /\ Len(inbox') = Len(inbox) + 1 /\ inbox'[Len(inbox) + 1] = new
          /\ \A j \in 1..Len(inbox) : inbox'[j] = inbox[j]
          /\ Len(inbox) \in Nat
      BY <1>0, <1>1, <1>3, <1>14 DEF PageTypes
    <2>3. new \notin waiting \cup sharding
      BY <1>2, <2>1 DEF HeldInv
    <2>4. \A j \in 1..Len(inbox) : inbox[j] # new /\ inbox[j] \in W!RequestIds
      BY <1>0, <1>2, <2>1 DEF InboxInv, PageTypes
    <2>5. \A j \in 1..Len(inbox') : j \in 1..Len(inbox) \/ j = Len(inbox')
      BY <2>2
    <2>6. InboxInv'
      BY <1>2, <1>4, <1>7, <1>8, <2>1, <2>2, <2>3, <2>4, <2>5 DEF InboxInv
    <2>7. HeldInv'
      <3>1. \A id \in waiting \cup sharding :
               /\ id \in W!RequestIds /\ promise[id] = "pending" /\ id # new
        BY <1>0, <2>1, <2>3 DEF HeldInv, WorkerTypes
      <3>2. \A id \in waiting \cup sharding :
               promise'[id] = "pending" /\ requests'[id + 1] = requests[id + 1]
        BY <1>5, <1>7, <1>9, <3>1
      <3>3. QED
        BY <1>4, <2>1, <3>2 DEF HeldInv
    <2>8. AnswersInv'
      <3> SUFFICES ASSUME NEW j \in 1..Len(outbox), outbox[j].type # "progress"
                   PROVE  LET id == outbox[j].id IN
                          /\ promise'[id] = "pending"
                          /\ id \notin waiting \cup sharding
                          /\ \A k \in 1..Len(inbox') : inbox'[k] # id
                          /\ \A k \in 1..Len(outbox) :
                                outbox[k].type # "progress" /\ outbox[k].id = id => k = j
                          /\ outbox[j].type = "result" /\ requests'[id + 1] = "shardFileProgressive"
                             => Whole(task[id])
        BY <1>4 DEF AnswersInv, Whole
      <3> DEFINE id == outbox[j].id
      <3>1. id \in W!RequestIds
        BY <1>0, OutboxIds
      <3>2. promise[id] = "pending" /\ \A k \in 1..Len(inbox) : inbox[k] # id
        BY <2>1 DEF AnswersInv
      <3>3. id # new
        BY <1>2, <3>2
      <3>4. promise'[id] = "pending" /\ requests'[id + 1] = requests[id + 1]
        BY <1>5, <1>7, <1>9, <3>1, <3>2, <3>3
      <3>5. \A k \in 1..Len(inbox') : inbox'[k] # id
        BY <2>2, <2>5, <3>2, <3>3
      <3>6. QED
        BY <2>1, <3>4, <3>5 DEF AnswersInv
    <2>9. QED
      BY <2>6, <2>7, <2>8
  <1>15. QED
    BY <1>4, <1>6, <1>10, <1>11, <1>12, <1>13, <1>14 DEF PoolInv

LEMMA OnMessageKeeps ==
    ASSUME W!PoolAssumption, PoolInv, W!OnMessage PROVE PoolInv'
  <1> DEFINE m == Head(outbox)
  <1>0. PageTypes /\ WorkerTypes /\ TaskTypes /\ SendTypes
    BY DEF PoolInv, PoolTypes
  <1>1. /\ outbox # <<>> /\ outbox' = Tail(outbox)
        /\ promise' = [promise EXCEPT ![m.id] =
                         IF promise[m.id] # "pending" \/ m.type = "progress" THEN promise[m.id]
                         ELSE IF m.type = "result" THEN "resolved" ELSE "rejected"]
    BY DEF W!OnMessage
  <1>2. UNCHANGED <<requests, inbox, alive, wasm, nilWasm, mdu0Builder, waiting, sharding, task, pool,
                    initOk, commitWorkers, robin, byWorker, queue, dead>>
    BY DEF W!OnMessage, W!workerVars, W!taskVars, W!poolVars, W!sendVars
  <1>3. /\ m \in WorkerMessage /\ m = outbox[1] /\ Len(outbox) \in Nat \ {0}
        /\ outbox' \in Seq(WorkerMessage) /\ Len(outbox') = Len(outbox) - 1
        /\ \A j \in 1..Len(outbox') : j + 1 \in 1..Len(outbox) /\ outbox'[j] = outbox[j + 1]
    BY <1>0, <1>1 DEF PageTypes
  <1>4. m.id \in W!RequestIds
    BY <1>3 DEF WorkerMessage
  <1>5. alive
    BY <1>0, <1>1 DEF PoolInv, WorkerTypes
  <1>6. InboxInv /\ HeldInv /\ AnswersInv
    BY <1>5 DEF PoolInv
  <1> HIDE DEF m
  <1>7. PoolTypes'
    <2>1. PageTypes'
      BY <1>0, <1>1, <1>2, <1>3, <1>4 DEF PageTypes
    <2>2. WorkerTypes' /\ TaskTypes' /\ SendTypes'
      BY <1>0, <1>2 DEF WorkerTypes, TaskTypes, SendTypes
    <2>3. QED
      BY <2>1, <2>2 DEF PoolTypes
  <1>8. \A id \in W!RequestIds : id # m.id \/ m.type = "progress" => promise'[id] = promise[id]
    BY <1>0, <1>1, <1>4 DEF PageTypes
  <1>9. /\ promise[m.id] = "none" => promise'[m.id] = "none"
        /\ promise'[m.id] = "resolved" => promise[m.id] = "resolved" \/ m.type = "result"
    BY <1>0, <1>1, <1>4 DEF PageTypes
  <1>10. UnsentInv'
    BY <1>2, <1>4, <1>8, <1>9 DEF PoolInv, UnsentInv
  <1>11. StartingInv' /\ ShardingInv'
    BY <1>2 DEF PoolInv, StartingInv, ShardingInv
  <1>12. W!WitnessIsWhole'
    <2> SUFFICES ASSUME NEW id \in W!RequestIds, promise'[id] = "resolved",
                        requests[id + 1] = "shardFileProgressive"
                 PROVE  task[id].done = 0..(Batches - 1)
      BY <1>2 DEF W!WitnessIsWhole
    <2>1. CASE promise[id] = "resolved"
      BY <2>1 DEF PoolInv, W!WitnessIsWhole
    <2>2. CASE promise[id] # "resolved"
      <3>1. id = m.id /\ m.type = "result"
        BY <1>8, <1>9, <2>2
      <3>2. Whole(task[id])
        BY <1>3, <1>6, <3>1 DEF AnswersInv
      <3>3. QED
        BY <3>2 DEF Whole, AllBatches
    <2>3. QED
      BY <2>1, <2>2
  <1>13. \* No other place holds the request that is answered.
         m.type # "progress" =>
            /\ m.id \notin waiting \cup sharding
            /\ \A k \in 1..Len(inbox) : inbox[k] # m.id
            /\ \A k \in 1..Len(outbox') : outbox'[k].type # "progress" => outbox'[k].id # m.id
    <2> SUFFICES ASSUME m.type # "progress"
                 PROVE  /\ m.id \notin waiting \cup sharding
                        /\ \A k \in 1..Len(inbox) : inbox[k] # m.id
                        /\ \A k \in 1..Len(outbox') : outbox'[k].type # "progress" => outbox'[k].id # m.id
      OBVIOUS
    <2>1. 1 \in 1..Len(outbox) /\ outbox[1].type # "progress" /\ outbox[1].id = m.id
      BY <1>3
    <2>2. /\ m.id \notin waiting \cup sharding
          /\ \A k \in 1..Len(inbox) : inbox[k] # m.id
          /\ \A k \in 1..Len(outbox) : outbox[k].type # "progress" /\ outbox[k].id = m.id => k = 1
      BY <1>6, <2>1 DEF AnswersInv
    <2>3. QED
      BY <1>3, <2>2
  <1>14. InboxInv' /\ HeldInv'
    BY <1>0, <1>2, <1>6, <1>8, <1>13 DEF InboxInv, HeldInv, PageTypes, WorkerTypes
  <1>15. AnswersInv'
    <2> SUFFICES ASSUME NEW j \in 1..Len(outbox'), outbox'[j].type # "progress"
                 PROVE  LET id == outbox'[j].id IN
                        /\ promise'[id] = "pending"
                        /\ id \notin waiting \cup sharding
                        /\ \A k \in 1..Len(inbox) : inbox[k] # id
                        /\ \A k \in 1..Len(outbox') :
                              outbox'[k].type # "progress" /\ outbox'[k].id = id => k = j
                        /\ outbox'[j].type = "result" /\ requests[id + 1] = "shardFileProgressive"
                           => Whole(task[id])
      BY <1>2 DEF AnswersInv, Whole
    <2>1. j + 1 \in 1..Len(outbox) /\ outbox'[j] = outbox[j + 1]
      BY <1>3
    <2> DEFINE id == outbox[j + 1].id
    <2>2. id \in W!RequestIds
      BY <1>0, <2>1, OutboxIds
    <2>3. /\ promise[id] = "pending" /\ id \notin waiting \cup sharding
          /\ \A k \in 1..Len(inbox) : inbox[k] # id
          /\ \A k \in 1..Len(outbox) : outbox[k].type # "progress" /\ outbox[k].id = id => k = j + 1
          /\ outbox[j + 1].type = "result" /\ requests[id + 1] = "shardFileProgressive"
             => Whole(task[id])
      BY <1>6, <2>1 DEF AnswersInv
    <2>4. promise'[id] = promise[id]
      BY <1>8, <1>13, <2>1, <2>2
    <2>5. \A k \in 1..Len(outbox') : outbox'[k].type # "progress" /\ outbox'[k].id = id => k = j
      BY <1>3, <2>3
    <2>6. QED
      BY <2>1, <2>3, <2>4, <2>5
  <1>16. QED
    BY <1>2, <1>5, <1>7, <1>10, <1>11, <1>12, <1>14, <1>15 DEF PoolInv

LEMMA OnErrorKeeps ==
    ASSUME W!PoolAssumption, PoolInv, W!OnError PROVE PoolInv'
  <1>0. PageTypes /\ WorkerTypes /\ TaskTypes /\ SendTypes
    BY DEF PoolInv, PoolTypes
  <1>1. /\ ~alive' /\ inbox' = <<>> /\ outbox' = <<>> /\ alive' \in BOOLEAN
        /\ promise' = [id \in W!RequestIds |->
                         IF promise[id] = "pending" THEN "rejected" ELSE promise[id]]
    BY DEF W!OnError
  <1>2. UNCHANGED <<requests, wasm, nilWasm, mdu0Builder, waiting, sharding, task, pool, initOk,
                    commitWorkers, robin, byWorker, queue, dead>>
    BY DEF W!OnError, W!taskVars, W!poolVars, W!sendVars
  <1>3. PageTypes'
    BY <1>0, <1>1, <1>2 DEF PageTypes
  <1>4. WorkerTypes' /\ TaskTypes' /\ SendTypes'
    BY <1>0, <1>1, <1>2 DEF WorkerTypes, TaskTypes, SendTypes
  <1>5. StartingInv' /\ ShardingInv'
    BY <1>2 DEF PoolInv, StartingInv, ShardingInv
  <1>6. UnsentInv' /\ W!WitnessIsWhole'
    BY <1>1, <1>2 DEF PoolInv, UnsentInv, W!WitnessIsWhole
  <1>7. QED
    BY <1>1, <1>3, <1>4, <1>5, <1>6 DEF PoolInv, PoolTypes

-----------------------------------------------------------------------------
(* Steps of the gateway worker *)

\* Whichever request is taken from the inbox, held and answered: those answered are
\* held or taken before the step and not after it.
LEMMA HandlerKeeps ==
    ASSUME PoolInv, alive, PoolTypes', UNCHANGED <<requests, promise, alive>>,
           NEW taken \in SUBSET W!RequestIds,
           \/ taken = {} /\ inbox' = inbox
           \/ inbox # <<>> /\ taken = {Head(inbox)} /\ inbox' = Tail(inbox),
           NEW ext \in Seq(WorkerMessage), outbox' = outbox \o ext,
           waiting' \cup sharding' \subseteq waiting \cup sharding \cup taken,
           \A id \in waiting' : /\ id \notin sharding'
                                /\ id \in waiting \/ requests[id + 1] = "initNilWasm",
           \A id \in sharding' : id \in sharding \/ requests[id + 1] = "shardFileProgressive",
           \A id \in W!RequestIds :
              /\ id \notin sharding \cup taken /\ task[id] = W!NoTask => task'[id] = W!NoTask
              /\ task[id].done \subseteq task'[id].done,
           \A j \in 1..Len(ext) : ext[j].type # "progress" =>
              /\ ext[j].id \in waiting \cup sharding \cup taken
              /\ ext[j].id \notin waiting' \cup sharding'
              /\ \A k \in 1..Len(ext) : ext[k].type # "progress" /\ ext[k].id = ext[j].id => k = j
              /\ ext[j].type = "result" /\ requests[ext[j].id + 1] = "shardFileProgressive"
                 => Whole(task'[ext[j].id]),
           StartingInv', ShardingInv'
    PROVE  PoolInv'
  <1>0. PageTypes /\ WorkerTypes /\ TaskTypes /\ PageTypes' /\ TaskTypes'
    BY DEF PoolInv, PoolTypes
  <1>1. InboxInv /\ HeldInv /\ AnswersInv
    BY DEF PoolInv
  <1>2. \A id \in W!RequestIds : Whole(task[id]) => Whole(task'[id])
    <2>1. \A id \in W!RequestIds : task'[id].done \subseteq AllBatches
      BY <1>0 DEF TaskTypes, TaskType
    <2>2. ASSUME NEW id \in W!RequestIds, task[id].done = AllBatches
          PROVE  task'[id].done = AllBatches
      <3>1. AllBatches \subseteq task'[id].done
        BY <2>2
      <3>2. QED
        BY <2>1, <3>1
    <2>3. QED
      BY <2>2 DEF Whole
  <1>3. \A j \in 1..Len(inbox') : \E i \in 1..Len(inbox) :
           inbox'[j] = inbox[i] /\ (i = j \/ i = j + 1) /\ inbox[i] \notin taken
    <2>1. CASE taken = {} /\ inbox' = inbox
      BY <2>1
    <2>2. CASE inbox # <<>> /\ taken = {Head(inbox)} /\ inbox' = Tail(inbox)
      <3>1. /\ Len(inbox) \in Nat \ {0} /\ Head(inbox) = inbox[1]
            /\ Len(inbox') = Len(inbox) - 1
            /\ \A j \in 1..Len(inbox') : j + 1 \in 1..Len(inbox) /\ inbox'[j] = inbox[j + 1]
        BY <1>0, <2>2 DEF PageTypes
      <3>2. \A i \in 1..Len(inbox) : inbox[i] = inbox[1] => i = 1
        BY <1>1, <3>1 DEF InboxInv
      <3>3. ASSUME NEW j \in 1..Len(inbox') PROVE inbox[j + 1] \notin taken
        <4>1. j + 1 \in 1..Len(inbox) /\ j + 1 # 1
          BY <3>1
        <4>2. inbox[j + 1] # inbox[1]
          BY <3>2, <4>1
        <4>3. QED
          BY <2>2, <3>1, <4>2
      <3>4. ASSUME NEW j \in 1..Len(inbox')
            PROVE  \E i \in 1..Len(inbox) :
                      inbox'[j] = inbox[i] /\ (i = j \/ i = j + 1) /\ inbox[i] \notin taken
        <4>1. j + 1 \in 1..Len(inbox) /\ inbox'[j] = inbox[j + 1] /\ inbox[j + 1] \notin taken
          BY <3>1, <3>3
        <4>2. QED
          BY <4>1
      <3>5. QED
        BY <3>4
    <2>3. QED
      BY <2>1, <2>2
  <1>4. \A id \in taken : \E i \in 1..Len(inbox) : inbox[i] = id
    <2>1. inbox # <<>> => 1 \in 1..Len(inbox) /\ Head(inbox) = inbox[1]
      BY <1>0 DEF PageTypes
    <2>2. taken = {} \/ (inbox # <<>> /\ taken = {Head(inbox)})
      OBVIOUS
    <2>3. QED
      BY <2>1, <2>2
  <1>5. InboxInv'
    <2>1. \A j \in 1..Len(inbox') : inbox'[j] \in W!RequestIds /\ inbox'[j] \notin taken
      <3>1. \A i \in 1..Len(inbox) : inbox[i] \in W!RequestIds
        BY <1>0 DEF PageTypes
      <3>2. QED
        BY <1>3, <3>1, Zenon
    <2>2. \A j \in 1..Len(inbox') :
            /\ promise[inbox'[j]] = "pending" /\ task[inbox'[j]] = W!NoTask
            /\ inbox'[j] \notin waiting \cup sharding
      <3> SUFFICES ASSUME NEW j \in 1..Len(inbox')
                   PROVE  /\ promise[inbox'[j]] = "pending" /\ task[inbox'[j]] = W!NoTask
                          /\ inbox'[j] \notin waiting \cup sharding
        OBVIOUS
      <3>1. PICK i \in 1..Len(inbox) : inbox'[j] = inbox[i]
        BY <1>3
      <3>2. QED
        BY <1>1, <3>1, Zenon DEF InboxInv
    <2>3. \A j \in 1..Len(inbox') : task'[inbox'[j]] = W!NoTask
      BY <2>1, <2>2
    <2>4. ASSUME NEW j \in 1..Len(inbox'), NEW k \in 1..Len(inbox'), inbox'[k] = inbox'[j]
          PROVE  k = j
      <3>1. CASE inbox' = inbox
        BY <1>1, <2>4, <3>1 DEF InboxInv
      <3>2. CASE inbox # <<>> /\ inbox' = Tail(inbox)
        <4>1. /\ j + 1 \in 1..Len(inbox) /\ inbox'[j] = inbox[j + 1]
              /\ k + 1 \in 1..Len(inbox) /\ inbox'[k] = inbox[k + 1]
          BY <1>0, <2>4, <3>2 DEF PageTypes
        <4>2. k + 1 = j + 1
          BY <1>1, <2>4, <4>1 DEF InboxInv
        <4>3. QED
          BY <4>2
      <3>3. QED
        BY <3>1, <3>2
    <2>5. QED
      BY <2>1, <2>2, <2>3, <2>4 DEF InboxInv
  <1>6. \A id \in waiting \cup sharding \cup taken :
          /\ promise[id] = "pending"
          /\ \A k \in 1..Len(inbox') : inbox'[k] # id
          /\ \A k \in 1..Len(outbox) : outbox[k].type # "progress" => outbox[k].id # id
    <2> SUFFICES ASSUME NEW id \in waiting \cup sharding \cup taken
                 PROVE  /\ promise[id] = "pending"
                        /\ \A k \in 1..Len(inbox') : inbox'[k] # id
                        /\ \A k \in 1..Len(outbox) : outbox[k].type # "progress" => outbox[k].id # id
      OBVIOUS
    <2>1. CASE id \in taken
      <3>1. PICK i \in 1..Len(inbox) : inbox[i] = id
        BY <1>4, <2>1
      <3>2. promise[id] = "pending"
        BY <1>1, <3>1, Zenon DEF InboxInv
      <3>3. \A k \in 1..Len(inbox') : inbox'[k] # id
        BY <1>3, <2>1
      <3>4. \A k \in 1..Len(outbox) : outbox[k].type # "progress" => outbox[k].id # id
        BY <1>1, <3>1, Zenon DEF AnswersInv
      <3>5. QED
        BY <3>2, <3>3, <3>4
    <2>2. CASE id \in waiting \cup sharding
      <3>1. promise[id] = "pending"
        BY <1>1, <2>2 DEF HeldInv
      <3>2. \A k \in 1..Len(inbox') : inbox'[k] # id
        BY <1>1, <1>3, <2>2 DEF InboxInv
      <3>3. \A k \in 1..Len(outbox) : outbox[k].type # "progress" => outbox[k].id # id
        BY <1>1, <2>2 DEF AnswersInv
      <3>4. QED
        BY <3>1, <3>2, <3>3
    <2>3. QED
      BY <2>1, <2>2
  <1>7. HeldInv'
    BY <1>1, <1>6 DEF HeldInv
  <1>8. /\ Len(outbox') = Len(outbox) + Len(ext) /\ Len(outbox) \in Nat /\ Len(ext) \in Nat
        /\ \A j \in 1..Len(outbox) : outbox'[j] = outbox[j]
        /\ \A j \in 1..Len(outbox') : j > Len(outbox) =>
              j - Len(outbox) \in 1..Len(ext) /\ outbox'[j] = ext[j - Len(outbox)]
    BY <1>0 DEF PageTypes
  <1>9. ASSUME NEW j \in 1..Len(outbox'), outbox'[j].type # "progress"
        PROVE  /\ promise[outbox'[j].id] = "pending"
               /\ outbox'[j].id \notin waiting' \cup sharding'
               /\ \A k \in 1..Len(inbox') : inbox'[k] # outbox'[j].id
               /\ \A k \in 1..Len(outbox') :
                     outbox'[k].type # "progress" /\ outbox'[k].id = outbox'[j].id => k = j
               /\ outbox'[j].type = "result" /\ requests[outbox'[j].id + 1] = "shardFileProgressive"
                  => Whole(task'[outbox'[j].id])
    <2>1. CASE j <= Len(outbox)
      <3> DEFINE x == outbox[j].id
      <3>1. j \in 1..Len(outbox) /\ outbox'[j] = outbox[j] /\ x \in W!RequestIds
        BY <1>0, <1>8, <2>1, OutboxIds
      <3>2. /\ promise[x] = "pending" /\ x \notin waiting \cup sharding
            /\ \A k \in 1..Len(inbox) : inbox[k] # x
            /\ \A k \in 1..Len(outbox) : outbox[k].type # "progress" /\ outbox[k].id = x => k = j
            /\ outbox[j].type = "result" /\ requests[x + 1] = "shardFileProgressive"
               => Whole(task[x])
        BY <1>1, <1>9, <3>1 DEF AnswersInv
      <3>3. x \notin taken
        BY <1>4, <3>2
      <3>4. \A k \in 1..Len(inbox') : inbox'[k] # x
        BY <1>3, <3>2
      <3>5. ASSUME NEW k \in 1..Len(outbox'), outbox'[k].type # "progress", outbox'[k].id = x
            PROVE  k = j
        <4>1. CASE k <= Len(outbox)
          BY <1>8, <3>2, <3>5, <4>1
        <4>2. CASE k > Len(outbox)
          <5>1. PICK i \in 1..Len(ext) : outbox'[k] = ext[i]
            BY <1>8, <4>2
          <5>2. x \in waiting \cup sharding \cup taken
            BY <3>5, <5>1
          <5>3. QED
            BY <3>2, <3>3, <5>2
        <4>3. QED
          BY <1>8, <4>1, <4>2
      <3>6. QED
        BY <1>2, <3>1, <3>2, <3>3, <3>4, <3>5
    <2>2. CASE j > Len(outbox)
      <3>1. PICK i \in 1..Len(ext) : outbox'[j] = ext[i] /\ i = j - Len(outbox)
        BY <1>8, <2>2
      <3> DEFINE x == ext[i].id
      <3>2. /\ x \in waiting \cup sharding \cup taken /\ x \notin waiting' \cup sharding'
            /\ \A k \in 1..Len(ext) : ext[k].type # "progress" /\ ext[k].id = x => k = i
            /\ ext[i].type = "result" /\ requests[x + 1] = "shardFileProgressive"
               => Whole(task'[x])
        BY <1>9, <3>1
      <3>3. /\ promise[x] = "pending" /\ \A k \in 1..Len(inbox') : inbox'[k] # x
            /\ \A k \in 1..Len(outbox) : outbox[k].type # "progress" => outbox[k].id # x
        BY <1>6, <3>2
      <3>4. ASSUME NEW k \in 1..Len(outbox'), outbox'[k].type # "progress", outbox'[k].id = x
            PROVE  k = j
        <4>1. CASE k <= Len(outbox)
          BY <1>8, <3>3, <3>4, <4>1
        <4>2. CASE k > Len(outbox)
          <5>1. k - Len(outbox) \in 1..Len(ext) /\ outbox'[k] = ext[k - Len(outbox)]
            BY <1>8, <4>2
          <5>2. k - Len(outbox) = i
            BY <3>2, <3>4, <5>1
          <5>3. QED
            BY <1>8, <3>1, <5>2
        <4>3. QED
          BY <1>8, <4>1, <4>2
      <3>5. QED
        BY <3>1, <3>2, <3>3, <3>4
    <2>3. QED
      BY <1>8, <2>1, <2>2
  <1>10. AnswersInv'
    BY <1>9 DEF AnswersInv
  <1>11. UnsentInv'
    <2>1. \A id \in sharding \cup taken : promise[id] # "none"
      BY <1>6
    <2>2. QED
      BY <2>1 DEF PoolInv, UnsentInv
  <1>12. W!WitnessIsWhole'
    BY <1>2 DEF PoolInv, W!WitnessIsWhole, Whole, AllBatches
  <1>13. QED
    BY <1>5, <1>7, <1>10, <1>11, <1>12 DEF PoolInv

LEMMA Dispatched ==
    ASSUME PoolInv, NEW type, W!Dispatch(type)
    PROVE  /\ alive /\ inbox # <<>> /\ inbox' = Tail(inbox) /\ inbox' \in Seq(W!RequestIds)
           /\ Head(inbox) \in W!RequestIds /\ requests[Head(inbox) + 1] = type
           /\ UNCHANGED <<requests, promise, alive, wasm>> /\ wasm # "loading"
           /\ Head(inbox) \notin waiting \cup sharding
           /\ promise[Head(inbox)] = "pending" /\ task[Head(inbox)] = W!NoTask
  <1>1. /\ alive /\ inbox # <<>> /\ inbox' = Tail(inbox) /\ requests[Head(inbox) + 1] = type
        /\ UNCHANGED <<requests, promise, alive, wasm>> /\ wasm # "loading"
    BY DEF W!Dispatch, W!pageVars
  <1>2. inbox' \in Seq(W!RequestIds) /\ Head(inbox) = inbox[1] /\ 1 \in 1..Len(inbox)
        /\ Head(inbox) \in W!RequestIds
    BY <1>1 DEF PoolInv, PoolTypes, PageTypes
  <1>3. InboxInv
    BY <1>1 DEF PoolInv
  <1>4. QED
    BY <1>1, <1>2, <1>3 DEF InboxInv

\* A handler that answers before it returns to the event loop.
LEMMA AnsweredAtOnce ==
    ASSUME PoolInv, NEW type, W!Dispatch(type), NEW ok \in BOOLEAN, W!Answer(Head(inbox), ok),
           type = "shardFileProgressive" => ~ok,
           UNCHANGED <<waiting, sharding, task, commitWorkers, robin, byWorker, queue, dead, initOk>>,
           WorkerTypes', StartingInv'
    PROVE  PoolInv'
  <1> DEFINE id == Head(inbox)
             kind == IF ok THEN "result" ELSE "error"
             m == W!Msg(id, kind)
  <1>1. /\ alive /\ inbox # <<>> /\ inbox' = Tail(inbox) /\ inbox' \in Seq(W!RequestIds)
        /\ id \in W!RequestIds /\ requests[id + 1] = type
        /\ UNCHANGED <<requests, promise, alive, wasm>>
        /\ id \notin waiting \cup sharding
    BY Dispatched
  <1>2. PageTypes /\ TaskTypes /\ SendTypes /\ ShardingInv
    BY DEF PoolInv, PoolTypes
  <1>3. m \in WorkerMessage /\ m.id = id /\ m.type = kind /\ kind # "progress"
        /\ (kind = "result" => type # "shardFileProgressive")
    BY <1>1 DEF W!Msg, WorkerMessage
  <1>4. outbox' = Append(outbox, m)
    BY DEF W!Answer
  <1> HIDE DEF m, kind, id
  <1>5. outbox' = outbox \o <<m>> /\ <<m>> \in Seq(WorkerMessage) /\ outbox' \in Seq(WorkerMessage)
    BY <1>2, <1>3, <1>4 DEF PageTypes
  <1>6. PageTypes' /\ TaskTypes' /\ SendTypes' /\ ShardingInv'
    BY <1>1, <1>2, <1>5 DEF PageTypes, TaskTypes, SendTypes, ShardingInv
  <1>7. PICK ext : ext = <<m>>
    OBVIOUS
  <1>8. Len(ext) = 1 /\ ext[1] = m /\ ext \in Seq(WorkerMessage) /\ outbox' = outbox \o ext
    BY <1>5, <1>7
  <1>9. \A j \in 1..Len(ext) : j = 1 /\ ext[j] = m
    BY <1>8
  <1>10. PICK taken \in SUBSET W!RequestIds : taken = {id}
    BY <1>1
  <1>11. /\ taken = {Head(inbox)}
         /\ waiting' \cup sharding' \subseteq waiting \cup sharding \cup taken
    BY <1>10 DEF id
  <1>12. \A x \in waiting' : x \notin sharding' /\ (x \in waiting \/ requests[x + 1] = "initNilWasm")
    BY <1>1 DEF PoolInv, HeldInv
  <1>13. \A j \in 1..Len(ext) : ext[j].type # "progress" =>
            /\ ext[j].id \in waiting \cup sharding \cup taken
            /\ ext[j].id \notin waiting' \cup sharding'
            /\ \A k \in 1..Len(ext) : ext[k].type # "progress" /\ ext[k].id = ext[j].id => k = j
            /\ ext[j].type = "result" /\ requests[ext[j].id + 1] = "shardFileProgressive"
                => Whole(task'[ext[j].id])
    BY <1>1, <1>3, <1>9, <1>10
  <1>14. PoolTypes'
    BY <1>6 DEF PoolTypes
  <1>15. QED
    BY <1>1, <1>6, <1>8, <1>11, <1>12, <1>13, <1>14, HandlerKeeps

LEMMA ImmediateKeeps ==
    ASSUME PoolInv, \/ W!InitNilWasmAlone \/ W!InitMdu0Builder \/ W!UseMdu0Builder
                    \/ \E ok \in BOOLEAN : W!Compute(ok)
    PROVE  PoolInv'
  <1> USE DEF W!taskVars, W!poolVars, W!sendVars
  <1>0. WorkerTypes /\ StartingInv
    BY DEF PoolInv, PoolTypes
  <1>1. CASE W!InitNilWasmAlone
    <2>1. /\ W!Dispatch("initNilWasm") /\ W!Answer(Head(inbox), wasm = "ready")
          /\ nilWasm' = (wasm = "ready")
          /\ pool' = IF wasm = "ready" /\ ~nilWasm THEN "done" ELSE pool
          /\ UNCHANGED <<mdu0Builder, waiting, sharding, task, initOk, commitWorkers, robin, byWorker,
                         queue, dead>>
      BY <1>1 DEF W!InitNilWasmAlone
    <2>2. UNCHANGED <<requests, promise, alive, wasm>>
      BY <2>1, Dispatched
    <2>3. PICK ok \in BOOLEAN : ok = (wasm = "ready")
      OBVIOUS
    <2>4. nilWasm' = ok /\ (ok <=> wasm = "ready")
      BY <2>1, <2>3, Zenon
    <2>5. WorkerTypes' /\ StartingInv'
      BY <1>0, <2>1, <2>2, <2>4 DEF WorkerTypes, StartingInv
    <2>6. W!Answer(Head(inbox), ok)
      BY <2>1, <2>3, Zenon
    <2>7. QED
      BY <2>1, <2>5, <2>6, AnsweredAtOnce
  <1>2. CASE W!InitMdu0Builder
    <2>1. /\ W!Dispatch("initMdu0Builder") /\ W!Answer(Head(inbox), nilWasm)
          /\ mdu0Builder' = (mdu0Builder \/ nilWasm)
          /\ UNCHANGED <<nilWasm, waiting, sharding, task, pool, initOk, commitWorkers, robin,
                         byWorker, queue, dead>>
      BY <1>2 DEF W!InitMdu0Builder
    <2>2. UNCHANGED <<requests, promise, alive, wasm>> /\ nilWasm \in BOOLEAN
      BY <1>0, <2>1, Dispatched DEF WorkerTypes
    <2>3. WorkerTypes' /\ StartingInv'
      BY <1>0, <2>1, <2>2 DEF WorkerTypes, StartingInv
    <2>4. QED
      BY <2>1, <2>2, <2>3, AnsweredAtOnce
  <1>3. CASE W!UseMdu0Builder
    <2>1. /\ W!Dispatch("mdu0") /\ W!Answer(Head(inbox), mdu0Builder)
          /\ UNCHANGED <<nilWasm, mdu0Builder, waiting, sharding, task, pool, initOk, commitWorkers,
                         robin, byWorker, queue, dead>>
      BY <1>3 DEF W!UseMdu0Builder
    <2>2. UNCHANGED <<requests, promise, alive, wasm>> /\ mdu0Builder \in BOOLEAN
      BY <1>0, <2>1, Dispatched DEF WorkerTypes
    <2>3. WorkerTypes' /\ StartingInv'
      BY <1>0, <2>1, <2>2 DEF WorkerTypes, StartingInv
    <2>4. QED
      BY <2>1, <2>2, <2>3, AnsweredAtOnce
  <1>4. ASSUME NEW ok \in BOOLEAN, W!Compute(ok) PROVE PoolInv'
    <2>1. /\ W!Dispatch("compute") /\ W!Answer(Head(inbox), nilWasm /\ ok)
          /\ UNCHANGED <<nilWasm, mdu0Builder, waiting, sharding, task, pool, initOk, commitWorkers,
                         robin, byWorker, queue, dead>>
      BY <1>4 DEF W!Compute
    <2>2. UNCHANGED <<requests, promise, alive, wasm>>
      BY <1>0, <2>1, Dispatched DEF WorkerTypes
    <2>3. WorkerTypes' /\ StartingInv'
      BY <1>0, <2>1, <2>2 DEF WorkerTypes, StartingInv
    <2>4. PICK b \in BOOLEAN : b = (nilWasm /\ ok)
      OBVIOUS
    <2>5. W!Answer(Head(inbox), b)
      BY <2>1, <2>4, Zenon
    <2>6. QED
      BY <2>1, <2>3, <2>5, AnsweredAtOnce
  <1>5. QED
    BY <1>1, <1>2, <1>3, <1>4

LEMMA InitializeKeeps ==
    ASSUME PoolInv, NEW o \in {"ready", "failed"}, W!initializeWasm(o) PROVE PoolInv'
  <1>1. /\ alive /\ wasm = "loading" /\ wasm' = o
        /\ UNCHANGED <<requests, promise, inbox, outbox, alive, nilWasm, mdu0Builder, waiting, sharding,
                       task, pool, initOk, commitWorkers, robin, byWorker, queue, dead>>
    BY DEF W!initializeWasm, W!pageVars, W!taskVars, W!poolVars, W!sendVars
  <1>2. PoolTypes'
    BY <1>1 DEF PoolInv, PoolTypes, PageTypes, WorkerTypes, TaskTypes, SendTypes
  <1>3. UnsentInv' /\ ShardingInv' /\ W!WitnessIsWhole'
    BY <1>1 DEF PoolInv, UnsentInv, ShardingInv, W!WitnessIsWhole
  <1>4. StartingInv'
    BY <1>1 DEF PoolInv, StartingInv
  <1>5. InboxInv' /\ HeldInv' /\ AnswersInv'
    BY <1>1 DEF PoolInv, InboxInv, HeldInv, AnswersInv, Whole
  <1>6. QED
    BY <1>1, <1>2, <1>3, <1>4, <1>5 DEF PoolInv

\* Nothing is answered.
LEMMA QuietKeeps ==
    ASSUME PoolInv, alive, PoolTypes', UNCHANGED <<requests, promise, alive, outbox>>,
           NEW taken \in SUBSET W!RequestIds,
           \/ taken = {} /\ inbox' = inbox
           \/ inbox # <<>> /\ taken = {Head(inbox)} /\ inbox' = Tail(inbox),
           waiting' \cup sharding' \subseteq waiting \cup sharding \cup taken,
           \A id \in waiting' : /\ id \notin sharding'
                                /\ id \in waiting \/ requests[id + 1] = "initNilWasm",
           \A id \in sharding' : id \in sharding \/ requests[id + 1] = "shardFileProgressive",
           \A id \in W!RequestIds :
              /\ id \notin sharding \cup taken /\ task[id] = W!NoTask => task'[id] = W!NoTask
              /\ task[id].done \subseteq task'[id].done,
           StartingInv', ShardingInv'
    PROVE  PoolInv'
  <1>1. PICK ext : ext = <<>>
    OBVIOUS
  <1>2. outbox \in Seq(WorkerMessage)
    BY DEF PoolInv, PoolTypes, PageTypes
  <1>3. ext \in Seq(WorkerMessage) /\ outbox' = outbox \o ext /\ Len(ext) = 0
    BY <1>1, <1>2
  <1>4. \A j \in 1..Len(ext) : FALSE
    BY <1>3
  <1>5. QED
    BY <1>3, <1>4, HandlerKeeps

\* One message is sent, of a batch or of a request that is over.
LEMMA MessageKeeps ==
    ASSUME PoolInv, alive, PoolTypes', UNCHANGED <<requests, promise, alive, inbox>>,
           NEW m \in WorkerMessage, outbox' = outbox \o <<m>>,
           waiting' \subseteq waiting, sharding' \subseteq sharding,
           \A id \in W!RequestIds :
              /\ id \notin sharding /\ task[id] = W!NoTask => task'[id] = W!NoTask
              /\ task[id].done \subseteq task'[id].done,
           m.type # "progress" =>
              /\ m.id \in waiting \cup sharding /\ m.id \notin waiting' \cup sharding'
              /\ m.type = "result" /\ requests[m.id + 1] = "shardFileProgressive"
                 => Whole(task'[m.id]),
           StartingInv', ShardingInv'
    PROVE  PoolInv'
  <1>1. PICK ext : ext = <<m>>
    OBVIOUS
  <1>2. ext \in Seq(WorkerMessage) /\ outbox' = outbox \o ext /\ Len(ext) = 1 /\ ext[1] = m
    BY <1>1
  <1>3. \A j \in 1..Len(ext) : j = 1 /\ ext[j] = m
    BY <1>2
  <1>4. PICK taken \in SUBSET W!RequestIds : taken = {}
    OBVIOUS
  <1>5. HeldInv
    BY DEF PoolInv
  <1>6. \A id \in waiting' : /\ id \notin sharding'
                             /\ id \in waiting \/ requests[id + 1] = "initNilWasm"
    BY <1>5 DEF HeldInv
  <1>7. \A j \in 1..Len(ext) : ext[j].type # "progress" =>
            /\ ext[j].id \in waiting \cup sharding \cup taken
            /\ ext[j].id \notin waiting' \cup sharding'
            /\ \A k \in 1..Len(ext) : ext[k].type # "progress" /\ ext[k].id = ext[j].id => k = j
            /\ ext[j].type = "result" /\ requests[ext[j].id + 1] = "shardFileProgressive"
                => Whole(task'[ext[j].id])
    BY <1>3
  <1>8. waiting' \cup sharding' \subseteq waiting \cup sharding \cup taken
    OBVIOUS
  <1>9. QED
    BY <1>2, <1>4, <1>6, <1>7, <1>8, HandlerKeeps

LEMMA InitPoolKeeps == ASSUME W!PoolAssumption, PoolInv, W!InitNilWasmWithPool PROVE PoolInv'
  <1> DEFINE id == Head(inbox)
             m == W!Msg(id, "init")
  <1>1. /\ W!Dispatch("initNilWasm") /\ wasm = "ready" /\ ~nilWasm /\ nilWasm' = TRUE
        /\ pool' = "starting" /\ byWorker' = [w \in W!Workers |-> {}]
        /\ queue' = [w \in W!Workers |-> <<m>>]
        /\ waiting' = waiting \cup {id}
        /\ UNCHANGED <<outbox, mdu0Builder, sharding, task, commitWorkers, robin, initOk, dead>>
    BY DEF W!InitNilWasmWithPool
  <1>2. /\ alive /\ inbox # <<>> /\ inbox' = Tail(inbox) /\ inbox' \in Seq(W!RequestIds)
        /\ id \in W!RequestIds /\ requests[id + 1] = "initNilWasm"
        /\ UNCHANGED <<requests, promise, alive, wasm>>
        /\ id \notin waiting \cup sharding
    BY <1>1, Dispatched
  <1>3. PageTypes /\ WorkerTypes /\ TaskTypes /\ SendTypes /\ StartingInv /\ ShardingInv /\ HeldInv
    BY <1>2 DEF PoolInv, PoolTypes
  <1>4. m \in PoolMessage /\ m.type = "init" /\ m.id = id
    BY <1>2 DEF W!Msg, PoolMessage
  <1>5. waiting = {} /\ commitWorkers = <<>>
    BY <1>1, <1>3 DEF StartingInv, WorkerTypes
  <1> HIDE DEF m, id
  <1>6. PoolTypes'
    <2>1. PageTypes' /\ WorkerTypes' /\ TaskTypes'
      BY <1>1, <1>2, <1>3 DEF PageTypes, WorkerTypes, TaskTypes
    <2>2. queue' \in [W!Workers -> Seq(PoolMessage)] /\ DOMAIN byWorker' \subseteq W!Workers
      BY <1>1, <1>4
    <2>3. SendTypes'
      BY <1>1, <1>3, <2>2 DEF SendTypes
    <2>4. QED
      BY <2>1, <2>3 DEF PoolTypes
  <1>7. \A w \in W!Workers : \A j \in 1..Len(queue'[w]) : queue'[w][j] = m
    BY <1>1
  <1>8. StartingInv'
    BY <1>1, <1>2, <1>4, <1>5, <1>7 DEF StartingInv
  <1>9. ShardingInv'
    BY <1>1, <1>3, <1>4, <1>7 DEF ShardingInv
  <1>10. PICK taken \in SUBSET W!RequestIds : taken = {id}
    BY <1>2
  <1>11. /\ taken = {Head(inbox)}
         /\ waiting' \cup sharding' \subseteq waiting \cup sharding \cup taken
    BY <1>1, <1>10 DEF id
  <1>12. \A x \in waiting' : x \notin sharding' /\ (x \in waiting \/ requests[x + 1] = "initNilWasm")
    BY <1>1, <1>2, <1>5
  <1>13. QED
    BY <1>1, <1>2, <1>6, <1>8, <1>9, <1>11, <1>12, QuietKeeps

LEMMA ShardKeeps == ASSUME W!PoolAssumption, PoolInv, W!ShardFileProgressive PROVE PoolInv'
  <1> DEFINE id == Head(inbox)
             width == IF commitWorkers = <<>> THEN 1 ELSE Len(commitWorkers)
  <1>1. /\ W!Dispatch("shardFileProgressive")
        /\ UNCHANGED <<nilWasm, mdu0Builder, waiting, pool, initOk, commitWorkers, robin, byWorker,
                       queue, dead>>
    BY DEF W!ShardFileProgressive, W!poolVars, W!sendVars
  <1>2. /\ alive /\ inbox # <<>> /\ inbox' = Tail(inbox) /\ inbox' \in Seq(W!RequestIds)
        /\ id \in W!RequestIds /\ requests[id + 1] = "shardFileProgressive"
        /\ UNCHANGED <<requests, promise, alive, wasm>>
        /\ id \notin waiting \cup sharding /\ task[id] = W!NoTask
    BY <1>1, Dispatched
  <1>3. PageTypes /\ WorkerTypes /\ TaskTypes /\ SendTypes /\ StartingInv /\ ShardingInv /\ HeldInv
    BY <1>2 DEF PoolInv, PoolTypes
  <1>4. CASE ~nilWasm
    <2>1. W!Answer(id, FALSE) /\ UNCHANGED <<sharding, task>>
      BY <1>4 DEF W!ShardFileProgressive
    <2>2. WorkerTypes' /\ StartingInv'
      BY <1>1, <1>2, <1>3, <2>1 DEF WorkerTypes, StartingInv
    <2>3. QED
      BY <1>1, <2>1, <2>2, AnsweredAtOnce
  <1>5. CASE nilWasm
    <2>1. /\ sharding' = sharding \cup {id} /\ outbox' = outbox
          /\ task' = [task EXCEPT ![id].width = width]
      BY <1>5 DEF W!ShardFileProgressive
    <2>2. width \in 1..PoolSize
      BY <1>3 DEF SendTypes, W!PoolAssumption
    <2> HIDE DEF width, id
    <2>3. task[id] = [next |-> 0, flying |-> {}, done |-> {}, width |-> 1]
      BY <1>2 DEF W!NoTask
    <2>4. /\ task'[id] = [next |-> 0, flying |-> {}, done |-> {}, width |-> width]
          /\ \A x \in W!RequestIds : x # id => task'[x] = task[x]
      <3>1. PICK t : t = [task[id] EXCEPT !.width = width]
        OBVIOUS
      <3>2. t = [next |-> 0, flying |-> {}, done |-> {}, width |-> width]
        BY <2>3, <3>1
      <3>3. task' = [task EXCEPT ![id] = t]
        BY <2>1, <3>1
      <3>4. QED
        BY <1>2, <1>3, <3>2, <3>3 DEF TaskTypes
    <2>5. task'[id] \in TaskType
      BY <2>2, <2>4 DEF TaskType, AllBatches, W!PoolAssumption
    <2>6. TaskTypes'
      <3>1. task' \in [W!RequestIds -> TaskType]
        BY <1>2, <1>3, <2>1, <2>4, <2>5 DEF TaskTypes
      <3>2. Cardinality(task'[id].flying) <= task'[id].width
        BY <2>2, <2>4, FS_EmptySet
      <3>3. QED
        BY <1>3, <2>4, <3>1, <3>2 DEF TaskTypes
    <2>7. PageTypes' /\ WorkerTypes' /\ SendTypes'
      BY <1>1, <1>2, <1>3, <2>1 DEF PageTypes, WorkerTypes, SendTypes
    <2>8. PoolTypes'
      BY <2>6, <2>7 DEF PoolTypes
    <2>9. StartingInv'
      BY <1>1, <1>2, <1>3 DEF StartingInv
    <2>10. ShardingInv'
      <3>1. \A x \in sharding' : 0..(task'[x].next - 1) = task'[x].flying \cup task'[x].done
        <4>1. 0..(task'[id].next - 1) = task'[id].flying \cup task'[id].done
          BY <2>4
        <4>2. QED
          BY <1>3, <2>1, <2>4, <4>1 DEF ShardingInv, WorkerTypes
      <3>2. ASSUME NEW w \in W!Workers, NEW j \in 1..Len(queue[w]), queue[w][j].type = "commit"
            PROVE  queue[w][j].batch < task'[queue[w][j].id].next
        <4>1. queue[w][j] \in PoolMessage /\ queue[w][j].batch < task[queue[w][j].id].next
          BY <1>3, <3>2 DEF SendTypes, ShardingInv
        <4>2. queue[w][j].id \in W!RequestIds
          BY <4>1 DEF PoolMessage
        <4>3. task'[queue[w][j].id].next = task[queue[w][j].id].next
          BY <2>3, <2>4, <4>2
        <4>4. QED
          BY <4>1, <4>3
      <3>3. QED
        BY <1>1, <3>1, <3>2 DEF ShardingInv
    <2>11. PICK taken \in SUBSET W!RequestIds : taken = {id}
      BY <1>2
    <2>12. /\ taken = {Head(inbox)}
           /\ waiting' \cup sharding' \subseteq waiting \cup sharding \cup taken
      BY <1>1, <2>1, <2>11 DEF id
    <2>13. \A x \in waiting' : x \notin sharding' /\ (x \in waiting \/ requests[x + 1] = "initNilWasm")
      BY <1>1, <1>2, <1>3, <2>1 DEF HeldInv
    <2>14. \A x \in sharding' : x \in sharding \/ requests[x + 1] = "shardFileProgressive"
      BY <1>2, <2>1
    <2>15. \A x \in W!RequestIds :
              /\ x \notin sharding \cup taken /\ task[x] = W!NoTask => task'[x] = W!NoTask
              /\ task[x].done \subseteq task'[x].done
      BY <2>3, <2>4, <2>11
    <2>16. QED
      BY <1>2, <2>1, <2>8, <2>9, <2>10, <2>12, <2>13, <2>14, <2>15, QuietKeeps
  <1>6. QED
    BY <1>4, <1>5

-----------------------------------------------------------------------------
(* The loop of shardFileProgressive *)

TaskIs(next, flying, done, width) ==
    [next |-> next, flying |-> flying, done |-> done, width |-> width]

LEMMA TaskFields ==
    ASSUME TaskTypes, NEW id \in W!RequestIds
    PROVE  /\ task[id] = TaskIs(task[id].next, task[id].flying, task[id].done, task[id].width)
           /\ task[id].next \in 0..Batches /\ task[id].width \in 1..PoolSize
           /\ task[id].flying \subseteq AllBatches /\ task[id].done \subseteq AllBatches
           /\ Cardinality(task[id].flying) <= task[id].width
  <1>1. task[id] \in TaskType
    BY DEF TaskTypes
  <1>2. QED
    BY <1>1 DEF TaskTypes, TaskType, TaskIs

NextSet(t, n) == [t EXCEPT !.next = n]
FlyingSet(t, F) == [t EXCEPT !.flying = F]
DoneSet(t, D) == [t EXCEPT !.done = D]

LEMMA TaskSet ==
    ASSUME NEW n, NEW F, NEW D, NEW width, NEW x
    PROVE  /\ NextSet(TaskIs(n, F, D, width), x) = TaskIs(x, F, D, width)
           /\ FlyingSet(TaskIs(n, F, D, width), x) = TaskIs(n, x, D, width)
           /\ DoneSet(TaskIs(n, F, D, width), x) = TaskIs(n, F, x, width)
  BY DEF TaskIs, NextSet, FlyingSet, DoneSet

LEMMA FewerFlying ==
    ASSUME W!PoolAssumption, NEW S \in SUBSET AllBatches, NEW T \in SUBSET S
    PROVE  IsFiniteSet(S) /\ Cardinality(T) <= Cardinality(S) /\ Cardinality(S) \in Nat
           /\ Cardinality(T) \in Nat
  <1>1. IsFiniteSet(AllBatches)
    BY FS_Interval DEF AllBatches, W!PoolAssumption
  <1>2. QED
    BY <1>1, FS_Subset, FS_CardinalityType

TaskPut(id, t) == [task EXCEPT ![id] = t]

\* The task of id is as given, and no batch that is queued is ahead of its task.
TaskGoesOn(id, t, n, F, D) ==
    /\ TaskTypes' /\ task'[id] = t
    /\ t.next = n /\ t.flying = F /\ t.done = D
    /\ \A x \in W!RequestIds : x # id => task'[x] = task[x]
    /\ \A w \in W!Workers : \A j \in 1..Len(queue[w]) :
          queue[w][j].type = "commit" => queue[w][j].batch < task'[queue[w][j].id].next
    /\ \A x \in sharding : x # id => 0..(task'[x].next - 1) = task'[x].flying \cup task'[x].done

LEMMA TaskChanged ==
    ASSUME PoolTypes, ShardingInv, NEW id \in W!RequestIds,
           NEW n \in 0..Batches, NEW F \in SUBSET AllBatches, NEW D \in SUBSET AllBatches,
           NEW t, t = TaskIs(n, F, D, task[id].width),
           Cardinality(F) <= task[id].width, task[id].next <= n, task' = TaskPut(id, t)
    PROVE  TaskGoesOn(id, t, n, F, D)
  <1>0. TaskTypes /\ SendTypes /\ WorkerTypes
    BY DEF PoolTypes
  <1>1. task[id].width \in 1..PoolSize /\ task[id].next \in 0..Batches
    BY <1>0, TaskFields
  <1>2. t \in TaskType /\ t.next = n /\ t.flying = F /\ t.done = D /\ t.width = task[id].width
    BY <1>1 DEF TaskIs, TaskType
  <1>3. task' \in [W!RequestIds -> TaskType] /\ task'[id] = t
        /\ \A x \in W!RequestIds : x # id => task'[x] = task[x]
    BY <1>0, <1>2 DEF TaskTypes, TaskPut
  <1>4. TaskTypes'
    <2>1. Cardinality(task'[id].flying) <= task'[id].width
      BY <1>2, <1>3
    <2>2. QED
      BY <1>0, <1>3, <2>1 DEF TaskTypes
  <1>5. ASSUME NEW w \in W!Workers, NEW j \in 1..Len(queue[w]), queue[w][j].type = "commit"
        PROVE  queue[w][j].batch < task'[queue[w][j].id].next
    <2> DEFINE m == queue[w][j]
    <2>1. m \in PoolMessage
      BY <1>0 DEF SendTypes
    <2>2. m.id \in W!RequestIds /\ m.batch \in AllBatches /\ m.batch < task[m.id].next
      BY <1>5, <2>1 DEF PoolMessage, ShardingInv
    <2> HIDE DEF m
    <2>3. task[m.id].next <= task'[m.id].next /\ task[m.id].next \in Int /\ task'[m.id].next \in Int
      BY <1>0, <1>1, <1>2, <1>3, <2>2, TaskFields
    <2>4. m.batch < task'[m.id].next
      BY <2>2, <2>3 DEF AllBatches
    <2>5. QED
      BY <2>4 DEF m
  <1>6. QED
    BY <1>0, <1>2, <1>3, <1>4, <1>5 DEF ShardingInv, WorkerTypes, TaskGoesOn

LEMMA CommitHereKeeps ==
    ASSUME W!PoolAssumption, PoolInv, NEW id \in W!RequestIds, W!CommitHere(id) PROVE PoolInv'
  <1> DEFINE m == W!Msg(id, "progress")
  <1>0. PICK b, D : b = task[id].next /\ D = task[id].done \cup {b}
    OBVIOUS
  <1>1. /\ alive /\ id \in sharding /\ W!HasRoom(id)
        /\ task' = [task EXCEPT ![id].next = b + 1, ![id].done = D]
        /\ outbox' = Append(outbox, m)
    BY <1>0 DEF W!CommitHere
  <1>2. UNCHANGED <<requests, promise, inbox, alive, wasm, nilWasm, mdu0Builder, waiting, sharding,
                    pool, initOk, commitWorkers, robin, byWorker, queue, dead>>
    BY DEF W!CommitHere, W!pageVars, W!workerVars, W!poolVars, W!sendVars
  <1>3. PageTypes /\ WorkerTypes /\ TaskTypes /\ SendTypes /\ PoolTypes /\ StartingInv /\ ShardingInv
    BY DEF PoolInv, PoolTypes
  <1>4. /\ task[id] = TaskIs(b, task[id].flying, task[id].done, task[id].width)
        /\ b \in 0..Batches /\ task[id].flying \subseteq AllBatches /\ task[id].done \subseteq AllBatches
        /\ Cardinality(task[id].flying) <= task[id].width
    BY <1>0, <1>3, TaskFields
  <1>5. b < Batches
    BY <1>0, <1>1 DEF W!HasRoom
  <1>6. b + 1 \in 0..Batches /\ D \in SUBSET AllBatches /\ task[id].next <= b + 1
    BY <1>0, <1>4, <1>5 DEF AllBatches, W!PoolAssumption
  <1>7. PICK t : t = DoneSet(NextSet(task[id], b + 1), D)
    OBVIOUS
  <1>8. t = TaskIs(b + 1, task[id].flying, D, task[id].width)
    <2>1. PICK f, d, width : f = task[id].flying /\ d = task[id].done /\ width = task[id].width
      OBVIOUS
    <2>2. task[id] = TaskIs(b, f, d, width)
      BY <1>4, <2>1, Zenon
    <2>3. t = TaskIs(b + 1, f, D, width)
      <3>1. NextSet(TaskIs(b, f, d, width), b + 1) = TaskIs(b + 1, f, d, width)
        BY TaskSet
      <3>2. DoneSet(TaskIs(b + 1, f, d, width), D) = TaskIs(b + 1, f, D, width)
        BY TaskSet
      <3>3. QED
        BY <1>7, <2>2, <3>1, <3>2, Zenon
    <2>4. QED
      BY <2>1, <2>3, Zenon
  <1>9. task' = TaskPut(id, t)
    BY <1>1, <1>3, <1>7 DEF TaskPut, TaskTypes, NextSet, DoneSet
  <1>10. /\ TaskTypes' /\ task'[id] = t
         /\ t.next = b + 1 /\ t.flying = task[id].flying /\ t.done = D
         /\ \A x \in W!RequestIds : x # id => task'[x] = task[x]
         /\ \A w \in W!Workers : \A j \in 1..Len(queue[w]) :
              queue[w][j].type = "commit" => queue[w][j].batch < task'[queue[w][j].id].next
         /\ \A x \in sharding : x # id => 0..(task'[x].next - 1) = task'[x].flying \cup task'[x].done
    <2>1. task[id].flying \in SUBSET AllBatches /\ Cardinality(task[id].flying) <= task[id].width
      BY <1>4
    <2>2. TaskGoesOn(id, t, b + 1, task[id].flying, D)
      BY <1>3, <1>6, <1>8, <1>9, <2>1, TaskChanged
    <2>3. QED
      BY <2>2 DEF TaskGoesOn
  <1>11. m \in WorkerMessage /\ m.type = "progress"
    BY DEF W!Msg, WorkerMessage
  <1> HIDE DEF m
  <1>12. outbox' = outbox \o <<m>> /\ outbox' \in Seq(WorkerMessage)
    BY <1>1, <1>3, <1>11 DEF PageTypes
  <1>13. PoolTypes'
    <2>1. PageTypes' /\ WorkerTypes' /\ SendTypes'
      BY <1>2, <1>3, <1>12 DEF PageTypes, WorkerTypes, SendTypes
    <2>2. QED
      BY <1>10, <2>1 DEF PoolTypes
  <1>14. StartingInv'
    BY <1>2, <1>3 DEF StartingInv
  <1>15. ShardingInv'
    <2>1. 0..(b - 1) = task[id].flying \cup task[id].done
      BY <1>0, <1>1, <1>3 DEF ShardingInv
    <2>2. 0..((b + 1) - 1) = task[id].flying \cup D
      BY <1>0, <1>4, <2>1 DEF W!PoolAssumption
    <2>3. 0..(task'[id].next - 1) = task'[id].flying \cup task'[id].done
      BY <1>10, <2>2
    <2>4. QED
      BY <1>2, <1>10, <2>3 DEF ShardingInv
  <1>16. \A x \in W!RequestIds :
            /\ x \notin sharding /\ task[x] = W!NoTask => task'[x] = W!NoTask
            /\ task[x].done \subseteq task'[x].done
    BY <1>0, <1>1, <1>10
  <1>17. QED
    BY <1>1, <1>2, <1>11, <1>12, <1>13, <1>14, <1>15, <1>16, MessageKeeps

LEMMA SendBatchKeeps ==
    ASSUME W!PoolAssumption, PoolInv, NEW id \in W!RequestIds, W!SendBatch(id) PROVE PoolInv'
  <1>0. PICK b, F : b = task[id].next /\ F = task[id].flying \cup {b}
    OBVIOUS
  <1> DEFINE w == commitWorkers[(robin % Len(commitWorkers)) + 1]
             m == W!Commit(id, b)
  <1>1. /\ alive /\ id \in sharding /\ W!HasRoom(id) /\ commitWorkers # <<>>
        /\ robin' = robin + 1
        /\ task' = [task EXCEPT ![id].next = b + 1, ![id].flying = F]
        /\ byWorker' = [v \in DOMAIN byWorker |->
                          IF v = w THEN byWorker[v] \cup {<<id, b>>} ELSE byWorker[v]]
        /\ queue' = [queue EXCEPT ![w] = IF w \in dead THEN queue[w] ELSE Append(queue[w], m)]
    BY <1>0 DEF W!SendBatch
  <1>2. UNCHANGED <<requests, promise, inbox, outbox, alive, wasm, nilWasm, mdu0Builder, waiting,
                    sharding, pool, initOk, commitWorkers, dead>>
    BY DEF W!SendBatch, W!pageVars, W!workerVars, W!poolVars
  <1>3. PageTypes /\ WorkerTypes /\ TaskTypes /\ SendTypes /\ PoolTypes /\ StartingInv /\ ShardingInv
        /\ HeldInv
    BY <1>1 DEF PoolInv, PoolTypes
  <1>4. /\ task[id] = TaskIs(b, task[id].flying, task[id].done, task[id].width)
        /\ b \in 0..Batches /\ task[id].flying \subseteq AllBatches /\ task[id].done \subseteq AllBatches
        /\ Cardinality(task[id].flying) <= task[id].width /\ task[id].width \in 1..PoolSize
    BY <1>0, <1>3, TaskFields
  <1>5. b < Batches /\ Cardinality(task[id].flying) < task[id].width
    BY <1>0, <1>1, PoolCardinality DEF W!HasRoom
  <1>6. b + 1 \in 0..Batches /\ F \in SUBSET AllBatches /\ task[id].next <= b + 1
    BY <1>0, <1>4, <1>5 DEF AllBatches, W!PoolAssumption
  <1>7. Cardinality(F) <= task[id].width
    <2>1. /\ IsFiniteSet(task[id].flying) /\ Cardinality(task[id].flying) \in Nat
      BY <1>4, FewerFlying
    <2>2. Cardinality(F) = IF b \in task[id].flying THEN Cardinality(task[id].flying)
                                                   ELSE Cardinality(task[id].flying) + 1
      BY <1>0, <2>1, FS_AddElement
    <2>3. QED
      BY <1>4, <1>5, <2>1, <2>2
  <1>8. PICK t : t = FlyingSet(NextSet(task[id], b + 1), F)
    OBVIOUS
  <1>9. t = TaskIs(b + 1, F, task[id].done, task[id].width)
    <2>1. PICK f, d, width : f = task[id].flying /\ d = task[id].done /\ width = task[id].width
      OBVIOUS
    <2>2. task[id] = TaskIs(b, f, d, width)
      BY <1>4, <2>1, Zenon
    <2>3. t = TaskIs(b + 1, F, d, width)
      <3>1. NextSet(TaskIs(b, f, d, width), b + 1) = TaskIs(b + 1, f, d, width)
        BY TaskSet
      <3>2. FlyingSet(TaskIs(b + 1, f, d, width), F) = TaskIs(b + 1, F, d, width)
        BY TaskSet
      <3>3. QED
        BY <1>8, <2>2, <3>1, <3>2, Zenon
    <2>4. QED
      BY <2>1, <2>3, Zenon
  <1>10. task' = TaskPut(id, t)
    BY <1>1, <1>3, <1>8 DEF TaskPut, TaskTypes, NextSet, FlyingSet
  <1>11. /\ TaskTypes' /\ task'[id] = t
         /\ t.next = b + 1 /\ t.flying = F /\ t.done = task[id].done
         /\ \A x \in W!RequestIds : x # id => task'[x] = task[x]
         /\ \A v \in W!Workers : \A j \in 1..Len(queue[v]) :
              queue[v][j].type = "commit" => queue[v][j].batch < task'[queue[v][j].id].next
         /\ \A x \in sharding : x # id => 0..(task'[x].next - 1) = task'[x].flying \cup task'[x].done
    <2>1. task[id].done \in SUBSET AllBatches
      BY <1>4
    <2>2. TaskGoesOn(id, t, b + 1, F, task[id].done)
      BY <1>3, <1>6, <1>7, <1>9, <1>10, <2>1, TaskChanged
    <2>3. QED
      BY <2>2 DEF TaskGoesOn
  <1>12. w \in W!Workers
    <2>1. /\ commitWorkers \in Seq(W!Workers) /\ Len(commitWorkers) \in Nat \ {0} /\ robin \in Nat
      BY <1>1, <1>3 DEF SendTypes
    <2>2. (robin % Len(commitWorkers)) + 1 \in 1..Len(commitWorkers)
      BY <2>1
    <2>3. QED
      BY <2>1, <2>2
  <1>13. m \in PoolMessage /\ m.type = "commit" /\ m.batch = b /\ m.id = id
    BY <1>4, <1>5 DEF W!Commit, PoolMessage, AllBatches, W!PoolAssumption
  <1> HIDE DEF m, w
  <1>14. /\ queue' \in [W!Workers -> Seq(PoolMessage)]
         /\ \A v \in W!Workers : \A j \in 1..Len(queue'[v]) :
               \/ j \in 1..Len(queue[v]) /\ queue'[v][j] = queue[v][j]
               \/ queue'[v][j] = m
    <2>1. queue \in [W!Workers -> Seq(PoolMessage)] /\ queue[w] \in Seq(PoolMessage)
      BY <1>3, <1>12 DEF SendTypes
    <2>2. PICK q : q = IF w \in dead THEN queue[w] ELSE Append(queue[w], m)
      OBVIOUS
    <2>3. q \in Seq(PoolMessage) /\ \A j \in 1..Len(q) :
               (j \in 1..Len(queue[w]) /\ q[j] = queue[w][j]) \/ q[j] = m
      BY <1>13, <2>1, <2>2
    <2>4. queue' = [queue EXCEPT ![w] = q]
      BY <1>1, <2>2
    <2>5. queue' \in [W!Workers -> Seq(PoolMessage)] /\ queue'[w] = q
          /\ \A v \in W!Workers : v # w => queue'[v] = queue[v]
      BY <1>12, <2>1, <2>3, <2>4
    <2>6. QED
      BY <2>3, <2>5
  <1>15. PoolTypes'
    <2>1. PageTypes' /\ WorkerTypes'
      BY <1>2, <1>3 DEF PageTypes, WorkerTypes
    <2>2. DOMAIN byWorker' \subseteq W!Workers
      BY <1>1, <1>3 DEF SendTypes
    <2>3. SendTypes'
      BY <1>1, <1>2, <1>3, <1>14, <2>2 DEF SendTypes
    <2>4. QED
      BY <1>11, <2>1, <2>3 DEF PoolTypes
  <1>16. pool = "done"
    BY <1>1, <1>3 DEF StartingInv
  <1>17. StartingInv'
    BY <1>2, <1>3, <1>13, <1>14, <1>16 DEF StartingInv
  <1>18. ShardingInv'
    <2>1. 0..(b - 1) = task[id].flying \cup task[id].done
      BY <1>0, <1>1, <1>3 DEF ShardingInv
    <2>2. 0..((b + 1) - 1) = F \cup task[id].done
      BY <1>0, <1>4, <2>1 DEF W!PoolAssumption
    <2>3. 0..(task'[id].next - 1) = task'[id].flying \cup task'[id].done
      BY <1>11, <2>2
    <2>4. m.batch < task'[m.id].next
      BY <1>4, <1>11, <1>13
    <2>5. QED
      BY <1>2, <1>11, <1>14, <2>3, <2>4 DEF ShardingInv
  <1>19. PICK taken \in SUBSET W!RequestIds : taken = {}
    OBVIOUS
  <1>20. \A x \in W!RequestIds :
            /\ x \notin sharding \cup taken /\ task[x] = W!NoTask => task'[x] = W!NoTask
            /\ task[x].done \subseteq task'[x].done
    BY <1>1, <1>11
  <1>21. \A x \in waiting' : x \notin sharding' /\ (x \in waiting \/ requests[x + 1] = "initNilWasm")
    BY <1>2, <1>3 DEF HeldInv
  <1>22. waiting' \cup sharding' \subseteq waiting \cup sharding \cup taken
    BY <1>2
  <1>23. QED
    BY <1>1, <1>2, <1>15, <1>17, <1>18, <1>19, <1>20, <1>21, <1>22, QuietKeeps

LEMMA FinishKeeps ==
    ASSUME W!PoolAssumption, PoolInv, NEW id \in W!RequestIds, W!FinishShard(id) PROVE PoolInv'
  <1> DEFINE m == W!Msg(id, "result")
  <1>1. /\ alive /\ id \in sharding /\ W!Complete(id) /\ sharding' = sharding \ {id}
        /\ outbox' = Append(outbox, m)
    BY DEF W!FinishShard, W!Answer
  <1>2. UNCHANGED <<requests, promise, inbox, alive, wasm, nilWasm, mdu0Builder, waiting, task,
                    pool, initOk, commitWorkers, robin, byWorker, queue, dead>>
    BY DEF W!FinishShard, W!pageVars, W!workerVars, W!poolVars, W!sendVars
  <1>3. PageTypes /\ WorkerTypes /\ TaskTypes /\ SendTypes /\ StartingInv /\ ShardingInv /\ HeldInv
    BY <1>1 DEF PoolInv, PoolTypes
  <1>4. Whole(task[id])
    <2>1. task[id].next = Batches /\ task[id].flying = {}
      BY <1>1 DEF W!Complete
    <2>2. 0..(task[id].next - 1) = task[id].flying \cup task[id].done
      BY <1>1, <1>3 DEF ShardingInv
    <2>3. QED
      BY <2>1, <2>2 DEF Whole, AllBatches
  <1>5. m \in WorkerMessage /\ m.id = id
    BY DEF W!Msg, WorkerMessage
  <1> HIDE DEF m
  <1>6. outbox' = outbox \o <<m>> /\ outbox' \in Seq(WorkerMessage)
    BY <1>1, <1>3, <1>5 DEF PageTypes
  <1>7. PoolTypes'
    BY <1>1, <1>2, <1>3, <1>6 DEF PoolTypes, PageTypes, WorkerTypes, TaskTypes, SendTypes
  <1>8. StartingInv' /\ ShardingInv'
    BY <1>1, <1>2, <1>3 DEF StartingInv, ShardingInv
  <1>9. /\ m.id \in waiting \cup sharding /\ m.id \notin waiting' \cup sharding'
        /\ Whole(task'[m.id])
    BY <1>1, <1>2, <1>3, <1>4, <1>5 DEF HeldInv
  <1>10. waiting' \subseteq waiting /\ sharding' \subseteq sharding
    BY <1>1, <1>2
  <1>11. \A x \in W!RequestIds :
            /\ x \notin sharding /\ task[x] = W!NoTask => task'[x] = W!NoTask
            /\ task[x].done \subseteq task'[x].done
    BY <1>2
  <1>12. QED
    BY <1>1, <1>2, <1>5, <1>6, <1>7, <1>8, <1>9, <1>10, <1>11, MessageKeeps

-----------------------------------------------------------------------------
(* Steps of the pool *)

\* The oldest message of a commit worker is gone, the others are what they were.
LEMMA QueueRead ==
    ASSUME SendTypes, NEW w \in W!Workers, queue[w] # <<>>, queue' = [queue EXCEPT ![w] = Tail(@)]
    PROVE  /\ Head(queue[w]) \in PoolMessage /\ Head(queue[w]) = queue[w][1] /\ 1 \in 1..Len(queue[w])
           /\ queue' \in [W!Workers -> Seq(PoolMessage)]
           /\ \A v \in W!Workers : \A j \in 1..Len(queue'[v]) :
                 \E i \in 1..Len(queue[v]) : queue'[v][j] = queue[v][i]
  <1>1. queue \in [W!Workers -> Seq(PoolMessage)] /\ queue[w] \in Seq(PoolMessage)
    BY DEF SendTypes
  <1>2. PICK q : q = Tail(queue[w])
    OBVIOUS
  <1>3. /\ q \in Seq(PoolMessage) /\ Head(queue[w]) \in PoolMessage /\ Head(queue[w]) = queue[w][1]
        /\ 1 \in 1..Len(queue[w])
        /\ \A j \in 1..Len(q) : j + 1 \in 1..Len(queue[w]) /\ q[j] = queue[w][j + 1]
    BY <1>1, <1>2
  <1>4. queue' = [queue EXCEPT ![w] = q]
    BY <1>2
  <1>5. /\ queue' \in [W!Workers -> Seq(PoolMessage)] /\ queue'[w] = q
        /\ \A v \in W!Workers : v # w => queue'[v] = queue[v]
    BY <1>1, <1>3, <1>4
  <1>6. QED
    BY <1>3, <1>5

LEMMA PoolAnswered ==
    ASSUME PoolInv, NEW w \in W!Workers, NEW type, W!PoolAnswers(w, type)
    PROVE  /\ alive /\ UNCHANGED <<requests, promise, inbox, alive, wasm, nilWasm, mdu0Builder, robin,
                                   dead>>
           /\ Head(queue[w]) \in PoolMessage /\ Head(queue[w]) = queue[w][1] /\ 1 \in 1..Len(queue[w])
           /\ Head(queue[w]).type = type
           /\ queue' \in [W!Workers -> Seq(PoolMessage)]
           /\ \A v \in W!Workers : \A j \in 1..Len(queue'[v]) :
                 \E i \in 1..Len(queue[v]) : queue'[v][j] = queue[v][i]
           /\ pool # "no"
  <1>1. /\ alive /\ queue[w] # <<>> /\ queue' = [queue EXCEPT ![w] = Tail(@)]
        /\ Head(queue[w]).type = type
        /\ UNCHANGED <<requests, promise, inbox, alive, wasm, nilWasm, mdu0Builder, robin, dead>>
    BY DEF W!PoolAnswers, W!pageVars, W!workerVars
  <1>2. SendTypes /\ StartingInv
    BY DEF PoolInv, PoolTypes
  <1>3. pool # "no"
    BY <1>1, <1>2 DEF StartingInv
  <1>4. QED
    BY <1>1, <1>2, <1>3, QueueRead

\* What the queues still hold was there before.
LEMMA StartingKept ==
    ASSUME StartingInv, pool # "no", UNCHANGED <<nilWasm, wasm, pool, waiting>>,
           commitWorkers = <<>> => commitWorkers' = <<>>,
           \A v \in W!Workers : \A j \in 1..Len(queue'[v]) :
              \E i \in 1..Len(queue[v]) : queue'[v][j] = queue[v][i]
    PROVE  StartingInv'
  <1>1. ASSUME pool = "starting"
        PROVE  \E x \in W!RequestIds :
                  /\ waiting = {x}
                  /\ \A v \in W!Workers : \A j \in 1..Len(queue'[v]) :
                        queue'[v][j].type = "init" => queue'[v][j].id = x
    <2>1. PICK x \in W!RequestIds :
             /\ waiting = {x}
             /\ \A v \in W!Workers : \A j \in 1..Len(queue[v]) :
                   queue[v][j].type = "init" => queue[v][j].id = x
      BY <1>1 DEF StartingInv
    <2>2. ASSUME NEW v \in W!Workers, NEW j \in 1..Len(queue'[v]), queue'[v][j].type = "init"
          PROVE  queue'[v][j].id = x
      <3>1. PICK i \in 1..Len(queue[v]) : queue'[v][j] = queue[v][i]
        OBVIOUS
      <3>2. QED
        BY <2>1, <2>2, <3>1
    <2>3. QED
      BY <2>1, <2>2
  <1>2. QED
    BY <1>1 DEF StartingInv

\* A commit worker has answered its initNilWasm: the pool is done, or it is not yet, or it was.
LEMMA PoolReadyKeeps ==
    ASSUME W!PoolAssumption, PoolInv, NEW w \in W!Workers, W!PoolAnswers(w, "init"),
           UNCHANGED <<sharding, task, byWorker>>, initOk' \subseteq W!Workers,
           \/ /\ pool = "starting" /\ pool' = "done" /\ waiting' = {}
              /\ commitWorkers' \in Seq(W!Workers) /\ Len(commitWorkers') <= PoolSize
              /\ W!Answer(Head(queue[w]).id, TRUE)
           \/ UNCHANGED <<pool, commitWorkers, waiting, outbox>>
    PROVE  PoolInv'
  <1>1. /\ alive /\ UNCHANGED <<requests, promise, inbox, alive, wasm, nilWasm, mdu0Builder, robin, dead>>
        /\ Head(queue[w]) \in PoolMessage /\ Head(queue[w]) = queue[w][1] /\ 1 \in 1..Len(queue[w])
        /\ Head(queue[w]).type = "init"
        /\ queue' \in [W!Workers -> Seq(PoolMessage)]
        /\ \A v \in W!Workers : \A j \in 1..Len(queue'[v]) :
              \E i \in 1..Len(queue[v]) : queue'[v][j] = queue[v][i]
        /\ pool # "no"
    BY PoolAnswered
  <1>2. PageTypes /\ WorkerTypes /\ TaskTypes /\ SendTypes /\ StartingInv /\ ShardingInv /\ HeldInv
    BY <1>1 DEF PoolInv, PoolTypes
  <1>3. TaskTypes' /\ SendTypes'
    BY <1>1, <1>2 DEF TaskTypes, SendTypes
  <1>4. ShardingInv'
    <2>1. \A v \in W!Workers : \A j \in 1..Len(queue'[v]) :
             queue'[v][j].type = "commit" => queue'[v][j].batch < task[queue'[v][j].id].next
      <3> SUFFICES ASSUME NEW v \in W!Workers, NEW j \in 1..Len(queue'[v]),
                          queue'[v][j].type = "commit"
                   PROVE  queue'[v][j].batch < task[queue'[v][j].id].next
        OBVIOUS
      <3>1. PICK i \in 1..Len(queue[v]) : queue'[v][j] = queue[v][i]
        BY <1>1
      <3>2. QED
        BY <1>2, <3>1, Zenon DEF ShardingInv
    <2>2. QED
      BY <1>2, <2>1 DEF ShardingInv
  <1>5. \A x \in W!RequestIds :
            /\ x \notin sharding /\ task[x] = W!NoTask => task'[x] = W!NoTask
            /\ task[x].done \subseteq task'[x].done
    OBVIOUS
  <1>6. CASE /\ pool = "starting" /\ pool' = "done" /\ waiting' = {}
             /\ W!Answer(Head(queue[w]).id, TRUE)
    <2>1. PICK id \in W!RequestIds : waiting = {id} /\ Head(queue[w]).id = id
      BY <1>1, <1>2, <1>6 DEF StartingInv
    <2> DEFINE m == W!Msg(id, "result")
    <2>2. m \in WorkerMessage /\ m.id = id
      BY DEF W!Msg, WorkerMessage
    <2>3. outbox' = Append(outbox, m)
      BY <1>6, <2>1 DEF W!Answer
    <2> HIDE DEF m
    <2>4. outbox' = outbox \o <<m>> /\ outbox' \in Seq(WorkerMessage)
      BY <1>2, <2>2, <2>3 DEF PageTypes
    <2>5. PoolTypes'
      BY <1>1, <1>2, <1>3, <1>6, <2>4 DEF PoolTypes, PageTypes, WorkerTypes
    <2>6. StartingInv'
      BY <1>1, <1>2, <1>6 DEF StartingInv
    <2>7. /\ m.id \in waiting /\ m.id \notin waiting' \cup sharding'
          /\ requests[m.id + 1] = "initNilWasm"
      BY <1>2, <1>6, <2>1, <2>2 DEF HeldInv
    <2>8. QED
      BY <1>1, <1>4, <1>5, <1>6, <2>2, <2>4, <2>5, <2>6, <2>7, MessageKeeps
  <1>7. CASE UNCHANGED <<pool, commitWorkers, waiting, outbox>>
    <2>1. PoolTypes'
      BY <1>1, <1>2, <1>3, <1>7 DEF PoolTypes, PageTypes, WorkerTypes
    <2>2. StartingInv'
      BY <1>1, <1>2, <1>7, StartingKept
    <2>3. PICK taken \in SUBSET W!RequestIds : taken = {}
      OBVIOUS
    <2>4. \A x \in waiting' : x \notin sharding' /\ (x \in waiting \/ requests[x + 1] = "initNilWasm")
      BY <1>2, <1>7 DEF HeldInv
    <2>5. waiting' \cup sharding' \subseteq waiting \cup sharding \cup taken
      BY <1>7
    <2>6. QED
      BY <1>1, <1>4, <1>5, <1>7, <2>1, <2>2, <2>3, <2>4, <2>5, QuietKeeps
  <1>8. QED
    BY <1>6, <1>7

LEMMA PoolInitKeeps ==
    ASSUME W!PoolAssumption, PoolInv, NEW w \in W!Workers, W!PoolInitialized(w) \/ W!PoolInitFails(w)
    PROVE  PoolInv'
  <1>1. WorkerTypes /\ SendTypes
    BY DEF PoolInv, PoolTypes
  <1>2. CASE W!PoolInitialized(w)
    <2>1. /\ W!PoolAnswers(w, "init") /\ UNCHANGED <<sharding, task, byWorker>>
          /\ initOk' = initOk \cup {w}
      BY <1>2 DEF W!PoolInitialized
    <2>2. \/ /\ pool = "starting" /\ pool' = "done" /\ waiting' = {}
             /\ commitWorkers' = [j \in 1..PoolSize |-> j - 1]
             /\ W!Answer(Head(queue[w]).id, TRUE)
          \/ UNCHANGED <<pool, commitWorkers, waiting, outbox>>
      BY <1>2 DEF W!PoolInitialized
    <2>3. PICK s : s = [j \in 1..PoolSize |-> j - 1]
      OBVIOUS
    <2>4. s \in Seq(W!Workers) /\ Len(s) <= PoolSize
      BY <2>3 DEF W!PoolAssumption, W!Workers
    <2>5. initOk' \subseteq W!Workers
      BY <1>1, <2>1 DEF WorkerTypes
    <2>6. QED
      BY <2>1, <2>2, <2>3, <2>4, <2>5, PoolReadyKeeps
  <1>3. CASE W!PoolInitFails(w)
    <2>1. /\ W!PoolAnswers(w, "init") /\ UNCHANGED <<sharding, task, byWorker>>
          /\ UNCHANGED <<initOk, commitWorkers>>
      BY <1>3 DEF W!PoolInitFails
    <2>2. \/ pool = "starting" /\ pool' = "done" /\ waiting' = {} /\ W!Answer(Head(queue[w]).id, TRUE)
          \/ UNCHANGED <<pool, commitWorkers, waiting, outbox>>
      BY <1>3 DEF W!PoolInitFails
    <2>3. initOk' \subseteq W!Workers /\ commitWorkers' \in Seq(W!Workers)
          /\ Len(commitWorkers') <= PoolSize
      BY <1>1, <2>1 DEF WorkerTypes, SendTypes
    <2>4. QED
      BY <2>1, <2>2, <2>3, PoolReadyKeeps
  <1>4. QED
    BY <1>2, <1>3

\* What is known of a batch that a commit worker answers.
LEMMA BatchAnswered ==
    ASSUME PoolInv, NEW w \in W!Workers, W!PoolAnswers(w, "commit"), NEW m, m = Head(queue[w])
    PROVE  /\ m.id \in W!RequestIds /\ m.batch \in AllBatches /\ m.batch < task[m.id].next
           /\ DOMAIN W!Untracked(w, m) = DOMAIN byWorker
           /\ task[m.id] # W!NoTask
  <1>1. m \in PoolMessage /\ m = queue[w][1] /\ 1 \in 1..Len(queue[w]) /\ m.type = "commit"
    BY PoolAnswered
  <1>2. m.id \in W!RequestIds /\ m.batch \in AllBatches
    BY <1>1 DEF PoolMessage
  <1>3. m.batch < task[m.id].next
    BY <1>1 DEF PoolInv, ShardingInv
  <1>4. task[m.id] # W!NoTask
    BY <1>2, <1>3 DEF W!NoTask, AllBatches
  <1>5. QED
    BY <1>2, <1>3, <1>4 DEF W!Untracked

LEMMA BatchDoneKeeps ==
    ASSUME W!PoolAssumption, PoolInv, NEW w \in W!Workers, W!BatchDone(w) PROVE PoolInv'
  <1>1. PICK m : m = Head(queue[w])
    OBVIOUS
  <1>2. PICK id, b : id = m.id /\ b = m.batch
    OBVIOUS
  <1>3. PICK F, D : F = task[id].flying \ {b} /\ D = task[id].done \cup {b}
    OBVIOUS
  <1>4. /\ W!PoolAnswers(w, "commit") /\ byWorker' = W!Untracked(w, m)
        /\ task' = [task EXCEPT ![id].flying = F, ![id].done = D]
        /\ outbox' = Append(outbox, W!Msg(id, "progress"))
        /\ UNCHANGED <<waiting, sharding, pool, initOk, commitWorkers>>
    BY <1>1, <1>2, <1>3 DEF W!BatchDone, W!poolVars
  <1>5. /\ alive /\ UNCHANGED <<requests, promise, inbox, alive, wasm, nilWasm, mdu0Builder, robin, dead>>
        /\ queue' \in [W!Workers -> Seq(PoolMessage)]
        /\ \A v \in W!Workers : \A j \in 1..Len(queue'[v]) :
              \E i \in 1..Len(queue[v]) : queue'[v][j] = queue[v][i]
        /\ pool # "no"
    BY <1>4, PoolAnswered
  <1>6. /\ id \in W!RequestIds /\ b \in AllBatches /\ b < task[id].next /\ task[id] # W!NoTask
        /\ DOMAIN byWorker' = DOMAIN byWorker
    BY <1>1, <1>2, <1>4, BatchAnswered
  <1>7. PageTypes /\ WorkerTypes /\ TaskTypes /\ SendTypes /\ PoolTypes /\ StartingInv /\ ShardingInv
    BY <1>5 DEF PoolInv, PoolTypes
  <1>8. PICK n, f, d, width : n = task[id].next /\ f = task[id].flying /\ d = task[id].done
                              /\ width = task[id].width
    OBVIOUS
  <1>9. /\ task[id] = TaskIs(n, f, d, width) /\ n \in 0..Batches /\ width \in 1..PoolSize
        /\ f \in SUBSET AllBatches /\ d \in SUBSET AllBatches /\ Cardinality(f) <= width
    BY <1>6, <1>7, <1>8, TaskFields
  <1>10. F \in SUBSET AllBatches /\ D \in SUBSET AllBatches /\ F \in SUBSET f
    BY <1>3, <1>6, <1>8, <1>9
  <1>11. Cardinality(F) <= width
    <2>1. Cardinality(F) <= Cardinality(f) /\ Cardinality(f) \in Nat /\ Cardinality(F) \in Nat
      BY <1>9, <1>10, FewerFlying
    <2>2. QED
      BY <1>9, <2>1
  <1>12. PICK t : t = DoneSet(FlyingSet(task[id], F), D)
    OBVIOUS
  <1>13. t = TaskIs(n, F, D, width)
    <2>1. FlyingSet(TaskIs(n, f, d, width), F) = TaskIs(n, F, d, width)
      BY TaskSet
    <2>2. DoneSet(TaskIs(n, F, d, width), D) = TaskIs(n, F, D, width)
      BY TaskSet
    <2>3. QED
      BY <1>9, <1>12, <2>1, <2>2, Zenon
  <1>14. task' = TaskPut(id, t)
    BY <1>4, <1>6, <1>7, <1>12 DEF TaskPut, TaskTypes, FlyingSet, DoneSet
  <1>15. TaskGoesOn(id, t, n, F, D)
    <2>1. t = TaskIs(n, F, D, task[id].width) /\ Cardinality(F) <= task[id].width
      BY <1>8, <1>11, <1>13, Zenon
    <2>2. task[id].next <= n
      BY <1>8, <1>9
    <2>3. QED
      BY <1>6, <1>7, <1>9, <1>10, <1>14, <2>1, <2>2, TaskChanged
  <1>16. /\ TaskTypes' /\ task'[id] = t /\ t.next = n /\ t.flying = F /\ t.done = D
         /\ \A x \in W!RequestIds : x # id => task'[x] = task[x]
         /\ \A v \in W!Workers : \A j \in 1..Len(queue[v]) :
               queue[v][j].type = "commit" => queue[v][j].batch < task'[queue[v][j].id].next
         /\ \A x \in sharding : x # id => 0..(task'[x].next - 1) = task'[x].flying \cup task'[x].done
    BY <1>15 DEF TaskGoesOn
  <1> DEFINE msg == W!Msg(id, "progress")
  <1>17. msg \in WorkerMessage /\ msg.type = "progress"
    BY <1>6 DEF W!Msg, WorkerMessage
  <1>18. outbox' = Append(outbox, msg)
    BY <1>4
  <1> HIDE DEF msg
  <1>19. outbox' = outbox \o <<msg>> /\ outbox' \in Seq(WorkerMessage)
    BY <1>7, <1>17, <1>18 DEF PageTypes
  <1>20. PoolTypes'
    <2>1. PageTypes' /\ WorkerTypes' /\ SendTypes'
      BY <1>4, <1>5, <1>6, <1>7, <1>19 DEF PageTypes, WorkerTypes, SendTypes
    <2>2. QED
      BY <1>16, <2>1 DEF PoolTypes
  <1>21. StartingInv'
    BY <1>4, <1>5, <1>7, StartingKept
  <1>22. ShardingInv'
    <2>1. id \in sharding => 0..(n - 1) = f \cup d
      BY <1>7, <1>8 DEF ShardingInv
    <2>2. id \in sharding => 0..(n - 1) = F \cup D
      <3>1. b \in 0..(n - 1)
        BY <1>6, <1>8, <1>9 DEF AllBatches, W!PoolAssumption
      <3>2. QED
        BY <1>3, <1>8, <2>1, <3>1
    <2>3. id \in sharding => 0..(task'[id].next - 1) = task'[id].flying \cup task'[id].done
      BY <1>16, <2>2
    <2>4. \A v \in W!Workers : \A j \in 1..Len(queue'[v]) :
             queue'[v][j].type = "commit" => queue'[v][j].batch < task'[queue'[v][j].id].next
      BY <1>5, <1>16
    <2>5. QED
      BY <1>4, <1>16, <2>3, <2>4 DEF ShardingInv
  <1>23. \A x \in W!RequestIds :
            /\ x \notin sharding /\ task[x] = W!NoTask => task'[x] = W!NoTask
            /\ task[x].done \subseteq task'[x].done
    BY <1>3, <1>6, <1>16
  <1>24. QED
    BY <1>4, <1>5, <1>17, <1>19, <1>20, <1>21, <1>22, <1>23, MessageKeeps

LEMMA ListOfLength ==
    ASSUME NEW T, NEW n \in Nat, NEW s \in [1..n -> T] PROVE s \in Seq(T) /\ Len(s) = n
  OBVIOUS

LEMMA ListsJoined ==
    ASSUME NEW T, NEW s \in Seq(T), NEW t \in Seq(T)
    PROVE  s \o t \in Seq(T) /\ Len(s \o t) = Len(s) + Len(t)
  OBVIOUS

Failed(T) == [j \in 1..W!Cardinality(T) |-> W!Msg(W!SetToSeq(T)[j], "error")]

LEMMA FailedMessages ==
    ASSUME NEW T \in SUBSET W!RequestIds, IsFiniteSet(T), NEW ext, ext = Failed(T)
    PROVE  /\ ext \in Seq(WorkerMessage)
           /\ \A j \in 1..Len(ext) :
                 /\ ext[j].id \in T /\ ext[j].type = "error"
                 /\ \A k \in 1..Len(ext) : ext[k].id = ext[j].id => k = j
  <1>1. PICK n \in Nat : ExistsBijection(1 .. n, T)
    BY FS_NatBijection
  <1>2. W!Cardinality(T) = n
    BY <1>1, FS_CountingElements, PoolCardinality
  <1>3. PICK f \in [1 .. n -> T] : W!IsInjective(f)
    BY <1>1 DEF ExistsBijection, Bijection, Injection, IsInjective, W!IsInjective
  <1>4. PICK s : s = W!SetToSeq(T)
    OBVIOUS
  <1>5. s \in [1 .. n -> T] /\ W!IsInjective(s)
    BY <1>2, <1>3, <1>4 DEF W!SetToSeq
  <1> DEFINE m(j) == W!Msg(s[j], "error")
  <1>6. ext = [j \in 1..n |-> m(j)]
    BY <1>2, <1>4 DEF Failed
  <1>7. \A j \in 1..n : m(j) \in WorkerMessage /\ m(j).id = s[j] /\ m(j).type = "error"
    BY <1>5 DEF W!Msg, WorkerMessage
  <1> HIDE DEF m
  <1>8. ext \in Seq(WorkerMessage) /\ Len(ext) = n /\ \A j \in 1..n : ext[j] = m(j)
    <2>1. \A j \in 1..n : ext[j] = m(j)
      BY <1>6, Zenon
    <2>2. ext \in [1..n -> WorkerMessage]
      BY <1>6, <1>7, Zenon
    <2>3. ext \in Seq(WorkerMessage) /\ Len(ext) = n
      BY <2>2, ListOfLength, Zenon
    <2>4. QED
      BY <2>1, <2>3, Zenon
  <1>9. \A j \in 1..n : ext[j].id = s[j] /\ ext[j].type = "error"
    BY <1>7, <1>8
  <1>10. \A j, k \in 1..n : s[j] = s[k] => j = k
    BY <1>5 DEF W!IsInjective
  <1>11. \A j \in 1..n : ext[j].id \in T /\ ext[j].type = "error"
    BY <1>5, <1>9
  <1>12. ASSUME NEW j \in 1..n, NEW k \in 1..n, ext[k].id = ext[j].id PROVE k = j
    <2>1. s[k] = s[j]
      BY <1>9, <1>12, Zenon
    <2>2. QED
      BY <1>10, <2>1, Zenon
  <1>13. QED
    BY <1>8, <1>11, <1>12, Zenon

\* The batches of the requests S are rejected: those of them that shard are answered
\* with an error, and the others are over already.
LEMMA FailKeeps ==
    ASSUME W!PoolAssumption, PoolInv, alive, NEW S, W!FailShards(S),
           UNCHANGED <<requests, promise, inbox, alive, wasm, nilWasm, mdu0Builder, waiting, pool,
                       initOk, robin>>,
           StartingInv', dead' \subseteq W!Workers, TaskTypes', SendTypes',
           \A v \in W!Workers : \A j \in 1..Len(queue'[v]) :
              \E i \in 1..Len(queue[v]) : queue'[v][j] = queue[v][i],
           \A id \in W!RequestIds :
              /\ task[id] = W!NoTask => task'[id] = W!NoTask
              /\ task[id].next = task'[id].next /\ task[id].done = task'[id].done
              /\ id \notin S => task'[id].flying = task[id].flying
    PROVE  PoolInv'
  <1> DEFINE T == S \cap sharding
  <1>1. PICK ext : ext = Failed(T)
    OBVIOUS
  <1>2. sharding' = sharding \ S /\ outbox' = outbox \o ext
    BY <1>1 DEF W!FailShards, Failed
  <1>3. PageTypes /\ WorkerTypes /\ StartingInv /\ ShardingInv /\ HeldInv /\ SendTypes
    BY DEF PoolInv, PoolTypes
  <1>4. T \in SUBSET W!RequestIds /\ IsFiniteSet(T)
    <2>1. T \in SUBSET W!RequestIds
      BY <1>3 DEF WorkerTypes
    <2>2. IsFiniteSet(W!RequestIds)
      BY FS_Interval DEF W!RequestIds, W!PoolAssumption
    <2>3. QED
      BY <2>1, <2>2, FS_Subset
  <1> HIDE DEF T
  <1>5. /\ ext \in Seq(WorkerMessage)
        /\ \A j \in 1..Len(ext) :
              /\ ext[j].id \in T /\ ext[j].type = "error"
              /\ \A k \in 1..Len(ext) : ext[k].id = ext[j].id => k = j
    BY <1>1, <1>4, FailedMessages
  <1>6. PoolTypes'
    <2>1. outbox' \in Seq(WorkerMessage)
      BY <1>2, <1>3, <1>5 DEF PageTypes
    <2>2. PageTypes' /\ WorkerTypes'
      BY <1>2, <1>3, <2>1 DEF PageTypes, WorkerTypes
    <2>3. QED
      BY <2>2 DEF PoolTypes
  <1>7. StartingInv'
    OBVIOUS
  <1>8. ShardingInv'
    <2>1. ASSUME NEW id \in sharding'
          PROVE  0..(task'[id].next - 1) = task'[id].flying \cup task'[id].done
      <3>1. id \in sharding /\ id \notin S /\ id \in W!RequestIds
        BY <1>2, <1>3 DEF WorkerTypes
      <3>2. 0..(task[id].next - 1) = task[id].flying \cup task[id].done
        BY <1>3, <3>1 DEF ShardingInv
      <3>3. QED
        BY <3>1, <3>2
    <2>2. ASSUME NEW v \in W!Workers, NEW j \in 1..Len(queue'[v]), queue'[v][j].type = "commit"
          PROVE  queue'[v][j].batch < task'[queue'[v][j].id].next
      <3>1. PICK i \in 1..Len(queue[v]) : queue'[v][j] = queue[v][i]
        OBVIOUS
      <3>2. queue[v][i] \in PoolMessage /\ queue[v][i].batch < task[queue[v][i].id].next
        BY <1>3, <2>2, <3>1 DEF SendTypes, ShardingInv
      <3>3. queue[v][i].id \in W!RequestIds
        BY <3>2 DEF PoolMessage
      <3>4. QED
        BY <3>1, <3>2, <3>3
    <2>3. QED
      BY <2>1, <2>2 DEF ShardingInv
  <1>9. PICK taken \in SUBSET W!RequestIds : taken = {}
    OBVIOUS
  <1>10. waiting' \cup sharding' \subseteq waiting \cup sharding \cup taken
    BY <1>2
  <1>11. \A x \in waiting' : x \notin sharding' /\ (x \in waiting \/ requests[x + 1] = "initNilWasm")
    BY <1>2, <1>3 DEF HeldInv
  <1>12. \A x \in sharding' : x \in sharding \/ requests[x + 1] = "shardFileProgressive"
    BY <1>2
  <1>13. \A j \in 1..Len(ext) : ext[j].type # "progress" =>
            /\ ext[j].id \in waiting \cup sharding \cup taken
            /\ ext[j].id \notin waiting' \cup sharding'
            /\ \A k \in 1..Len(ext) : ext[k].type # "progress" /\ ext[k].id = ext[j].id => k = j
            /\ ext[j].type = "result" /\ requests[ext[j].id + 1] = "shardFileProgressive"
                => Whole(task'[ext[j].id])
    <2>1. \A x \in T : x \in sharding /\ x \notin waiting' \cup sharding'
      BY <1>2, <1>3 DEF T, HeldInv
    <2>2. QED
      BY <1>5, <2>1
  <1>14. \A x \in W!RequestIds :
            /\ x \notin sharding \cup taken /\ task[x] = W!NoTask => task'[x] = W!NoTask
            /\ task[x].done \subseteq task'[x].done
    OBVIOUS
  <1>15. QED
    BY <1>2, <1>5, <1>6, <1>7, <1>8, <1>9, <1>10, <1>11, <1>12, <1>13, <1>14, HandlerKeeps

LEMMA BatchFailsKeeps ==
    ASSUME W!PoolAssumption, PoolInv, NEW w \in W!Workers, W!BatchFails(w) PROVE PoolInv'
  <1>1. PICK m : m = Head(queue[w])
    OBVIOUS
  <1>2. PICK id, b : id = m.id /\ b = m.batch
    OBVIOUS
  <1>3. PICK F : F = task[id].flying \ {b}
    OBVIOUS
  <1>4. /\ W!PoolAnswers(w, "commit") /\ byWorker' = W!Untracked(w, m)
        /\ task' = [task EXCEPT ![id].flying = F]
        /\ W!FailShards({id})
        /\ UNCHANGED <<waiting, pool, initOk, commitWorkers>>
    BY <1>1, <1>2, <1>3 DEF W!BatchFails, W!poolVars
  <1>5. /\ alive /\ UNCHANGED <<requests, promise, inbox, alive, wasm, nilWasm, mdu0Builder, robin, dead>>
        /\ queue' \in [W!Workers -> Seq(PoolMessage)]
        /\ \A v \in W!Workers : \A j \in 1..Len(queue'[v]) :
              \E i \in 1..Len(queue[v]) : queue'[v][j] = queue[v][i]
        /\ pool # "no"
    BY <1>4, PoolAnswered
  <1>6. /\ id \in W!RequestIds /\ task[id] # W!NoTask /\ DOMAIN byWorker' = DOMAIN byWorker
    BY <1>1, <1>2, <1>4, BatchAnswered
  <1>7. TaskTypes /\ SendTypes /\ PoolTypes /\ ShardingInv /\ WorkerTypes
    BY DEF PoolInv, PoolTypes
  <1>8. PICK n, f, d, width : n = task[id].next /\ f = task[id].flying /\ d = task[id].done
                              /\ width = task[id].width
    OBVIOUS
  <1>9. /\ task[id] = TaskIs(n, f, d, width) /\ n \in 0..Batches /\ width \in 1..PoolSize
        /\ f \in SUBSET AllBatches /\ d \in SUBSET AllBatches /\ Cardinality(f) <= width
    BY <1>6, <1>7, <1>8, TaskFields
  <1>10. F \in SUBSET AllBatches /\ F \in SUBSET f
    BY <1>3, <1>8, <1>9
  <1>11. Cardinality(F) <= width
    <2>1. Cardinality(F) <= Cardinality(f) /\ Cardinality(f) \in Nat /\ Cardinality(F) \in Nat
      BY <1>9, <1>10, FewerFlying
    <2>2. QED
      BY <1>9, <2>1
  <1>12. PICK t : t = FlyingSet(task[id], F)
    OBVIOUS
  <1>13. t = TaskIs(n, F, d, width)
    <2>1. FlyingSet(TaskIs(n, f, d, width), F) = TaskIs(n, F, d, width)
      BY TaskSet
    <2>2. QED
      BY <1>9, <1>12, <2>1, Zenon
  <1>14. task' = TaskPut(id, t)
    BY <1>4, <1>6, <1>7, <1>12 DEF TaskPut, TaskTypes, FlyingSet
  <1>15. TaskGoesOn(id, t, n, F, d)
    <2>1. t = TaskIs(n, F, d, task[id].width) /\ Cardinality(F) <= task[id].width
      BY <1>8, <1>11, <1>13, Zenon
    <2>2. task[id].next <= n
      BY <1>8, <1>9
    <2>3. QED
      BY <1>6, <1>7, <1>9, <1>10, <1>14, <2>1, <2>2, TaskChanged
  <1>16. /\ TaskTypes' /\ task'[id] = t /\ t.next = n /\ t.flying = F /\ t.done = d
         /\ \A x \in W!RequestIds : x # id => task'[x] = task[x]
    BY <1>15 DEF TaskGoesOn
  <1>17. SendTypes'
    BY <1>4, <1>5, <1>6, <1>7 DEF SendTypes
  <1>18. dead' \subseteq W!Workers /\ (commitWorkers = <<>> => commitWorkers' = <<>>)
    BY <1>4, <1>5, <1>7 DEF WorkerTypes
  <1>19. \A x \in W!RequestIds :
              /\ task[x] = W!NoTask => task'[x] = W!NoTask
              /\ task[x].next = task'[x].next /\ task[x].done = task'[x].done
              /\ x \notin {id} => task'[x].flying = task[x].flying
    BY <1>6, <1>8, <1>16
  <1>20. StartingInv'
    BY <1>4, <1>5, <1>18, StartingKept DEF PoolInv
  <1>21. QED
    BY <1>4, <1>5, <1>16, <1>17, <1>18, <1>19, <1>20, FailKeeps

LEMMA CommitFailsKeeps ==
    ASSUME W!PoolAssumption, PoolInv, NEW id \in W!RequestIds, W!CommitHereFails(id) PROVE PoolInv'
  <1>1. /\ alive /\ W!FailShards({id})
        /\ UNCHANGED <<requests, promise, inbox, alive, wasm, nilWasm, mdu0Builder, waiting, task, pool,
                       initOk, commitWorkers, robin, byWorker, queue, dead>>
    BY DEF W!CommitHereFails, W!pageVars, W!workerVars, W!poolVars, W!sendVars
  <1>2. TaskTypes /\ SendTypes /\ WorkerTypes /\ StartingInv
    BY DEF PoolInv, PoolTypes
  <1>3. SendTypes'
    BY <1>1, <1>2 DEF SendTypes
  <1>4. TaskTypes' /\ dead' \subseteq W!Workers
    <2>1. TaskTypes'
      BY <1>1, <1>2, Zenon DEF TaskTypes
    <2>2. QED
      BY <1>1, <1>2, <2>1 DEF WorkerTypes
  <1>5. StartingInv'
    BY <1>1, <1>2, SMTT(60) DEF StartingInv
  <1>6. QED
    BY <1>1, <1>3, <1>4, <1>5, FailKeeps

LEMMA WorkerErrorKeeps ==
    ASSUME W!PoolAssumption, PoolInv, NEW w \in W!Workers, W!CommitWorkerError(w) PROVE PoolInv'
  <1>1. PICK lost : lost = IF w \in DOMAIN byWorker THEN byWorker[w] ELSE {}
    OBVIOUS
  <1>2. PICK S : S = {p[1] : p \in lost}
    OBVIOUS
  <1> DEFINE F(id) == {b \in task[id].flying : <<id, b>> \notin lost}
  <1>3. /\ W!Dies(w)
        /\ byWorker' = [v \in DOMAIN byWorker \ {w} |-> byWorker[v]]
        /\ task' = [id \in W!RequestIds |-> [task[id] EXCEPT !.flying = F(id)]]
        /\ W!FailShards(S)
    BY <1>1, <1>2 DEF W!CommitWorkerError
  <1>4. /\ alive /\ pool # "no" /\ dead' = dead \cup {w}
        /\ queue' = [queue EXCEPT ![w] = <<>>]
        /\ UNCHANGED <<requests, promise, inbox, alive, wasm, nilWasm, mdu0Builder, waiting, pool,
                       initOk, robin>>
    BY <1>3 DEF W!Dies, W!pageVars, W!workerVars, W!poolVars
  <1>5. \/ commitWorkers' = commitWorkers
        \/ \E j \in 1..Len(commitWorkers) : commitWorkers' = W!RemoveAt(commitWorkers, j)
    <2> DEFINE at == {j \in 1..Len(commitWorkers) : commitWorkers[j] = w}
    <2>1. commitWorkers' = IF at = {} THEN commitWorkers
                           ELSE W!RemoveAt(commitWorkers, CHOOSE j \in at : TRUE)
      BY <1>3 DEF W!Dies
    <2>2. at # {} => (CHOOSE j \in at : TRUE) \in at
      OBVIOUS
    <2>3. QED
      BY <2>1, <2>2
  <1>6. TaskTypes /\ SendTypes /\ WorkerTypes
    BY DEF PoolInv, PoolTypes
  <1>7. /\ commitWorkers' \in Seq(W!Workers) /\ Len(commitWorkers') <= PoolSize
        /\ commitWorkers = <<>> => commitWorkers' = <<>>
    <2>1. CASE commitWorkers' = commitWorkers
      BY <1>6, <2>1 DEF SendTypes
    <2>2. ASSUME NEW j \in 1..Len(commitWorkers), commitWorkers' = W!RemoveAt(commitWorkers, j)
          PROVE  /\ commitWorkers' \in Seq(W!Workers) /\ Len(commitWorkers') <= PoolSize
                 /\ commitWorkers # <<>>
      <3>1. commitWorkers \in Seq(W!Workers) /\ Len(commitWorkers) <= PoolSize
        BY <1>6 DEF SendTypes
      <3>2. PICK l, r : l = SubSeq(commitWorkers, 1, j - 1)
                        /\ r = SubSeq(commitWorkers, j + 1, Len(commitWorkers))
        OBVIOUS
      <3>3. /\ l \in Seq(W!Workers) /\ Len(l) = j - 1
            /\ r \in Seq(W!Workers) /\ Len(r) = Len(commitWorkers) - j
        BY <3>1, <3>2
      <3>4. commitWorkers' = l \o r
        BY <2>2, <3>2 DEF W!RemoveAt
      <3>5. commitWorkers' \in Seq(W!Workers) /\ Len(commitWorkers') = Len(commitWorkers) - 1
        <4>1. l \o r \in Seq(W!Workers) /\ Len(l \o r) = Len(l) + Len(r)
          BY <3>3, ListsJoined
        <4>2. Len(l) + Len(r) = Len(commitWorkers) - 1
          BY <3>1, <3>3
        <4>3. QED
          BY <3>4, <4>1, <4>2, Zenon
      <3>6. QED
        BY <3>1, <3>5 DEF W!PoolAssumption
    <2>3. QED
      BY <1>5, <2>1, <2>2
  <1>8. /\ queue' \in [W!Workers -> Seq(PoolMessage)]
        /\ \A v \in W!Workers : \A j \in 1..Len(queue'[v]) :
              \E i \in 1..Len(queue[v]) : queue'[v][j] = queue[v][i]
    <2>1. queue \in [W!Workers -> Seq(PoolMessage)]
      BY <1>6 DEF SendTypes
    <2>2. /\ queue' \in [W!Workers -> Seq(PoolMessage)] /\ queue'[w] = <<>>
          /\ \A v \in W!Workers : v # w => queue'[v] = queue[v]
      BY <1>4, <2>1
    <2>3. \A j \in 1..Len(<<>>) : FALSE
      OBVIOUS
    <2>4. QED
      BY <2>2, <2>3
  <1>9. SendTypes'
    BY <1>3, <1>4, <1>6, <1>7, <1>8 DEF SendTypes
  <1>10. ASSUME NEW id \in W!RequestIds
         PROVE  /\ task'[id] = TaskIs(task[id].next, F(id), task[id].done, task[id].width)
                /\ task'[id] \in TaskType /\ task'[id].flying = F(id)
                /\ task'[id].next = task[id].next /\ task'[id].done = task[id].done
                /\ Cardinality(task'[id].flying) <= task'[id].width
    <2>1. PICK n, f, d, width : n = task[id].next /\ f = task[id].flying /\ d = task[id].done
                                /\ width = task[id].width
      OBVIOUS
    <2>2. /\ task[id] = TaskIs(n, f, d, width) /\ n \in 0..Batches /\ width \in 1..PoolSize
          /\ f \in SUBSET AllBatches /\ d \in SUBSET AllBatches /\ Cardinality(f) <= width
      BY <1>6, <2>1, TaskFields
    <2>3. PICK G : G = F(id)
      OBVIOUS
    <2>4. G \in SUBSET f /\ G \in SUBSET AllBatches
      BY <2>1, <2>2, <2>3
    <2>5. Cardinality(G) <= width
      <3>1. Cardinality(G) <= Cardinality(f) /\ Cardinality(f) \in Nat /\ Cardinality(G) \in Nat
        BY <2>2, <2>4, FewerFlying
      <3>2. QED
        BY <2>2, <3>1
    <2> HIDE DEF F
    <2>6. task'[id] = FlyingSet(task[id], G)
      BY <1>3, <2>3 DEF FlyingSet
    <2>7. FlyingSet(TaskIs(n, f, d, width), G) = TaskIs(n, G, d, width)
      BY TaskSet
    <2>8. task'[id] = TaskIs(n, G, d, width)
      BY <2>2, <2>6, <2>7, Zenon
    <2>9. PICK t : t = task'[id]
      OBVIOUS
    <2>10. t \in TaskType /\ t.flying = G /\ t.next = n /\ t.done = d /\ t.width = width
      BY <2>2, <2>4, <2>8, <2>9 DEF TaskIs, TaskType
    <2>11. QED
      BY <2>1, <2>3, <2>5, <2>8, <2>9, <2>10, Zenon
  <1>11. TaskTypes'
    <2>1. task' \in [W!RequestIds -> TaskType]
      BY <1>3, <1>10 DEF F
    <2>2. QED
      BY <1>10, <2>1 DEF TaskTypes
  <1>12. \A id \in W!RequestIds : task[id] = W!NoTask => task'[id] = W!NoTask
    <2> SUFFICES ASSUME NEW id \in W!RequestIds, task[id] = W!NoTask PROVE task'[id] = W!NoTask
      OBVIOUS
    <2>1. task[id].next = 0 /\ task[id].flying = {} /\ task[id].done = {} /\ task[id].width = 1
      BY DEF W!NoTask
    <2>2. F(id) = {}
      BY <2>1
    <2>3. QED
      BY <1>10, <2>1, <2>2 DEF TaskIs, W!NoTask
  <1>13. \A id \in W!RequestIds : id \notin S => task'[id].flying = task[id].flying
    <2> SUFFICES ASSUME NEW id \in W!RequestIds, id \notin S PROVE F(id) = task[id].flying
      BY <1>10
    <2>1. \A b : <<id, b>> \notin lost
      BY <1>2
    <2>2. QED
      BY <2>1
  <1>14. dead' \subseteq W!Workers
    BY <1>4, <1>6 DEF WorkerTypes
  <1>15. \A x \in W!RequestIds :
              /\ task[x] = W!NoTask => task'[x] = W!NoTask
              /\ task[x].next = task'[x].next /\ task[x].done = task'[x].done
              /\ x \notin S => task'[x].flying = task[x].flying
    BY <1>10, <1>12, <1>13
  <1>16. StartingInv'
    BY <1>4, <1>7, <1>8, StartingKept DEF PoolInv
  <1>17. QED
    BY <1>3, <1>4, <1>8, <1>9, <1>11, <1>14, <1>15, <1>16, FailKeeps

\* AnswersAreWhole (gateway.worker.ts, worker-client.ts): however many commit workers the
\* pool has and however many batches an MDU is cut into, requests overlap, and commit
\* workers or the gateway worker fail: an MDU's witness that reaches the page has the
\* commitments of all its batches, no request is answered twice, and no more batches are
\* in flight than the pool had workers.
THEOREM AnswersStayWhole == W!Spec => []AnswersAreWhole
  <1>1. W!Init => PoolInv
    BY PoolInit, UploadsAssumption
  <1>2. PoolInv /\ [W!Next]_(W!vars) => PoolInv'
    <2> SUFFICES ASSUME PoolInv, [W!Next]_(W!vars) PROVE PoolInv'
      OBVIOUS
    <2>0. W!PoolAssumption
      BY UploadsAssumption
    <2>1. ASSUME NEW type \in W!Types, W!sendMessageToWorker(type) PROVE PoolInv'
      BY <2>0, <2>1, SendKeeps
    <2>2. CASE W!OnMessage
      BY <2>0, <2>2, OnMessageKeeps
    <2>3. CASE W!OnError
      BY <2>0, <2>3, OnErrorKeeps
    <2>4. CASE W!GatewayStep
      BY <2>0, <2>4, InitializeKeeps, ImmediateKeeps, InitPoolKeeps, ShardKeeps, SendBatchKeeps,
         CommitHereKeeps, CommitFailsKeeps, FinishKeeps DEF W!GatewayStep
    <2>5. ASSUME NEW w \in W!Workers, W!PoolStep(w) \/ W!CommitWorkerError(w) PROVE PoolInv'
      BY <2>0, <2>5, PoolInitKeeps, BatchDoneKeeps, BatchFailsKeeps, WorkerErrorKeeps DEF W!PoolStep
    <2>6. CASE UNCHANGED W!vars
      <3>1. UNCHANGED <<requests, promise, inbox, outbox, alive, wasm, nilWasm, mdu0Builder, waiting,
                        sharding, task, pool, initOk, commitWorkers, robin, byWorker, queue, dead>>
        BY <2>6 DEF W!vars, W!pageVars, W!workerVars, W!taskVars, W!poolVars, W!sendVars
      <3>2. PoolTypes' /\ UnsentInv' /\ StartingInv' /\ ShardingInv' /\ W!WitnessIsWhole'
        BY <3>1 DEF PoolInv, PoolTypes, PageTypes, WorkerTypes, TaskTypes, SendTypes, UnsentInv,
                    StartingInv, ShardingInv, W!WitnessIsWhole
      <3>3. alive => InboxInv' /\ HeldInv' /\ AnswersInv'
        BY <3>1 DEF PoolInv, InboxInv, HeldInv, AnswersInv, Whole
      <3>4. QED
        BY <3>1, <3>2, <3>3 DEF PoolInv
    <2>7. QED
      BY <2>1, <2>2, <2>3, <2>4, <2>5, <2>6 DEF W!Next
  <1>3. PoolInv => AnswersAreWhole
    BY PoolImplies
  <1>4. QED
    BY <1>1, <1>2, <1>3, PTL DEF W!Spec

-----------------------------------------------------------------------------
(***************************************************************************)
(* The upload panel.  A user who waits has one run under way, the last     *)
(* one, while the panel says it is processing; so what the worker's one    *)
(* builder holds is of that run, step by step.                             *)
(***************************************************************************)
RunOf(r) == [file |-> r.file, deal |-> r.deal, mode2 |-> r.mode2, phase |-> r.phase,
             base |-> r.base, table |-> r.table, mdu0 |-> r.mdu0]

\* What builder b holds when run r is at a phase that uses it.
Holds(b, r) ==
    /\ r.phase \in {"users", "roots"} => b.table = r.table
    /\ r.phase = "append" => b.table = r.table /\ b.roots = U!RunUsers(r)
    /\ r.phase = "bytes" => /\ b.table = Append(r.table, r.file)
                            /\ b.roots = U!RunUsers(r)

OwnMdu0(r) ==
    r.mdu0.table # <<>> => /\ r.mdu0.table = Append(r.table, r.file)
                           /\ r.mdu0.roots = U!RunUsers(r)

EarlyPhases == {"gateway", "wasm", "base", "build", "users", "roots", "append", "bytes"}

RunInv(r) ==
    /\ r = RunOf(r)
    /\ r.phase \in EarlyPhases => r.mdu0.table = <<>>
    /\ OwnMdu0(r)

\* Of the panel, only whether it is processing.
IsPanel(v) == v = [x \in DOMAIN v |-> v[x]] /\ "processing" \in DOMAIN v

BuilderRec(b) == b = [table |-> b.table, roots |-> b.roots]
IsList(s) == Len(s) \in Nat /\ s = [j \in 1..Len(s) |-> s[j]]

BuilderInv ==
    /\ IsList(runs) /\ BuilderRec(builder) /\ IsPanel(panel)
    /\ \A i \in 1..Len(runs) :
         /\ RunInv(runs[i])
         /\ Holds(builder, runs[i])
         /\ runs[i].phase # "over" => panel.processing /\ i = Len(runs)

LEMMA ListIsSeq ==
    ASSUME NEW s, IsList(s), NEW S, \A j \in 1..Len(s) : s[j] \in S PROVE s \in Seq(S)
  <1>1. [j \in 1..Len(s) |-> s[j]] \in [1..Len(s) -> S]
    OBVIOUS
  <1>2. s \in [1..Len(s) -> S]
    BY <1>1 DEF IsList
  <1>3. QED
    BY <1>2, SeqDef DEF IsList

Appended(s, x) == Append(s, x)

LEMMA ListAppend ==
    ASSUME NEW s, IsList(s), NEW x, NEW t, t = Appended(s, x)
    PROVE  /\ IsList(t) /\ Len(t) = Len(s) + 1
           /\ \A j \in 1..Len(s) : t[j] = s[j]
           /\ t[Len(s) + 1] = x
  <1> DEFINE S == {s[j] : j \in 1..Len(s)} \cup {x}
  <1>1. s \in Seq(S) /\ x \in S
    BY ListIsSeq
  <1> HIDE DEF S
  <1>2. /\ t \in Seq(S) /\ Len(t) = Len(s) + 1
        /\ \A j \in 1..Len(s) : t[j] = s[j]
        /\ t[Len(s) + 1] = x
    BY <1>1, AppendProperties DEF Appended
  <1>3. t \in [1..Len(t) -> S] /\ Len(t) \in Nat
    BY <1>2, LenProperties
  <1>4. IsList(t)
    BY <1>3 DEF IsList
  <1>5. QED
    BY <1>2, <1>4

Replaced(s, i, x) == [s EXCEPT ![i] = x]

LEMMA ListExcept ==
    ASSUME NEW s, IsList(s), NEW i \in 1..Len(s), NEW x, NEW t, t = Replaced(s, i, x)
    PROVE  /\ IsList(t) /\ Len(t) = Len(s)
           /\ \A j \in 1..Len(s) : t[j] = IF j = i THEN x ELSE s[j]
  <1> DEFINE S == {s[j] : j \in 1..Len(s)} \cup {x}
  <1>1. s \in Seq(S) /\ x \in S
    BY ListIsSeq
  <1> HIDE DEF S
  <1>2. s \in [1..Len(s) -> S] /\ Len(s) \in Nat
    BY <1>1, LenProperties
  <1>3. t \in [1..Len(s) -> S]
    BY <1>1, <1>2 DEF Replaced
  <1>4. t \in Seq(S)
    BY <1>2, <1>3, SeqDef
  <1>5. Len(t) = Len(s)
    BY <1>2, <1>3, <1>4, LenProperties
  <1>6. \A j \in 1..Len(s) : t[j] = IF j = i THEN x ELSE s[j]
    BY <1>2 DEF Replaced
  <1>7. IsList(t)
    BY <1>2, <1>3, <1>5 DEF IsList
  <1>8. QED
    BY <1>5, <1>6, <1>7

LEMMA RunsKept ==
    ASSUME BuilderInv, UNCHANGED <<runs, builder>>, IsPanel(panel'),
           panel'.processing = panel.processing
    PROVE  BuilderInv'
  BY DEF BuilderInv

\* Run i goes on while it is under way, or ends and frees the panel.
LEMMA RunGoesOn ==
    ASSUME BuilderInv, NEW i \in 1..Len(runs), NEW r, runs[i].phase # "over",
           runs' = Replaced(runs, i, r), RunInv(r), Holds(builder', r),
           BuilderRec(builder'), IsPanel(panel'),
           r.phase # "over" => panel'.processing
    PROVE  BuilderInv'
  <1>1. i = Len(runs) /\ \A j \in 1..Len(runs) : j # i => runs[j].phase = "over"
    BY DEF BuilderInv
  <1>2. /\ IsList(runs') /\ Len(runs') = Len(runs)
        /\ \A j \in 1..Len(runs) : runs'[j] = IF j = i THEN r ELSE runs[j]
    <2>1. IsList(runs) /\ runs' = Replaced(runs, i, r)
      BY DEF BuilderInv, Replaced
    <2>2. QED
      BY <2>1, ListExcept
  <1>3. ASSUME NEW j \in 1..Len(runs'), j # i
        PROVE  /\ RunInv(runs'[j]) /\ runs'[j].phase = "over" /\ Holds(builder', runs'[j])
    BY <1>1, <1>2, <1>3 DEF BuilderInv, Holds
  <1>4. QED
    BY <1>1, <1>2, <1>3 DEF BuilderInv

\* Run r at phase p.
At(r, p) == [file |-> r.file, deal |-> r.deal, mode2 |-> r.mode2, phase |-> p,
             base |-> r.base, table |-> r.table, mdu0 |-> r.mdu0]

LEMMA PhaseChanged ==
    ASSUME NEW r, r = RunOf(r), NEW p PROVE [r EXCEPT !.phase = p] = At(r, p)
  <1>1. [RunOf(r) EXCEPT !.phase = p] = At(r, p)
    BY DEF RunOf, At
  <1>2. QED
    BY <1>1

LEMMA NextPhase ==
    ASSUME NEW i \in 1..Len(runs), runs[i] = RunOf(runs[i]), NEW p, U!ToPhase(i, p)
    PROVE  runs' = Replaced(runs, i, At(runs[i], p))
  <1>1. runs' = [runs EXCEPT ![i] = [runs[i] EXCEPT !.phase = p]]
    BY DEF U!ToPhase
  <1>2. PICK q : q = runs[i]
    OBVIOUS
  <1>3. q = RunOf(q)
    BY <1>2
  <1>4. [q EXCEPT !.phase = p] = At(q, p)
    BY <1>3, PhaseChanged
  <1>5. QED
    BY <1>1, <1>2, <1>4 DEF Replaced

LEMMA AtIsRun ==
    ASSUME BuilderInv, NEW i \in 1..Len(runs), NEW p
    PROVE  /\ At(runs[i], p) = RunOf(At(runs[i], p))
           /\ At(runs[i], p).phase = p /\ At(runs[i], p).file = runs[i].file
           /\ At(runs[i], p).base = runs[i].base /\ At(runs[i], p).table = runs[i].table
           /\ At(runs[i], p).mdu0 = runs[i].mdu0
           /\ U!RunUsers(At(runs[i], p)) = U!RunUsers(runs[i])
           /\ OwnMdu0(At(runs[i], p))
  BY DEF At, RunOf, BuilderInv, RunInv, OwnMdu0, U!RunUsers

\* A run that ends, however it does, frees the panel or leaves it busy.
LEMMA RunEnds ==
    ASSUME BuilderInv, NEW i \in 1..Len(runs), runs[i].phase # "over", U!ToPhase(i, "over"),
           UNCHANGED builder, IsPanel(panel')
    PROVE  BuilderInv'
  <1> DEFINE r == At(runs[i], "over")
  <1>1. runs' = Replaced(runs, i, r)
    <2>1. runs[i] = RunOf(runs[i])
      BY DEF BuilderInv, RunInv
    <2>2. QED
      BY <2>1, NextPhase
  <1>2. RunInv(r) /\ r.phase = "over"
    BY AtIsRun DEF RunInv, EarlyPhases
  <1>3. PICK q : q = r
    OBVIOUS
  <1> HIDE DEF r
  <1>4. Holds(builder', q)
    BY <1>2, <1>3 DEF Holds
  <1>5. BuilderRec(builder')
    BY DEF BuilderInv
  <1>6. QED
    BY <1>1, <1>2, <1>3, <1>4, <1>5, RunGoesOn

\* A run goes on to a phase p in which its MDU #0 is still to come.
LEMMA RunProceeds ==
    ASSUME BuilderInv, NEW i \in 1..Len(runs), NEW p \in EarlyPhases,
           runs[i].phase \in EarlyPhases, U!ToPhase(i, p),
           IsPanel(panel'), panel'.processing = panel.processing,
           BuilderRec(builder'), Holds(builder', At(runs[i], p))
    PROVE  BuilderInv'
  <1> DEFINE r == At(runs[i], p)
  <1>1. runs' = Replaced(runs, i, r)
    <2>1. runs[i] = RunOf(runs[i])
      BY DEF BuilderInv, RunInv
    <2>2. QED
      BY <2>1, NextPhase
  <1>2. /\ RunInv(r) /\ runs[i].phase # "over" /\ panel.processing
    BY AtIsRun DEF RunInv, EarlyPhases, BuilderInv
  <1>3. PICK q : q = r
    OBVIOUS
  <1>4. Holds(builder', q)
    BY <1>3
  <1> HIDE DEF r
  <1>5. QED
    BY <1>1, <1>2, <1>3, <1>4, RunGoesOn

\* The panel as the steps set it.
LEMMA PanelSet ==
    ASSUME NEW v, IsPanel(v), NEW a, NEW b, NEW w,
           \/ w = [v EXCEPT !.mirror = a]
           \/ w = [v EXCEPT !.shards = a]
           \/ w = [v EXCEPT !.mode2Uploading = a]
           \/ w = [v EXCEPT !.mode2Uploading = a, !.mode2UploadComplete = b]
           \/ w = [v EXCEPT !.isUploading = a, !.progress = b]
           \/ w = [v EXCEPT !.progress = a, !.isUploading = b]
    PROVE  IsPanel(w) /\ w.processing = v.processing
  BY Zenon DEF IsPanel

LEMMA PanelFreed ==
    ASSUME NEW v, IsPanel(v), NEW a, NEW b, NEW c, NEW d, NEW e, NEW f, NEW w,
           \/ w = [v EXCEPT !.processing = FALSE, !.mode2Uploading = a]
           \/ w = [v EXCEPT !.root = a, !.mdus = b, !.processing = FALSE]
           \/ w = [v EXCEPT !.root = a, !.mdus = b, !.shards = c, !.processing = FALSE,
                            !.mode2Uploading = d, !.mode2UploadComplete = e]
    PROVE  IsPanel(w)
  BY Zenon DEF IsPanel

LEMMA BuilderInit == ASSUME U!Init PROVE BuilderInv
  <1>1. runs = <<>> /\ Len(runs) = 0
    BY DEF U!Init
  <1>2. IsList(runs)
    BY <1>1 DEF IsList
  <1>3. BuilderRec(builder)
    BY DEF U!Init, BuilderRec
  <1>4. IsPanel(panel)
    BY Zenon DEF U!Init, U!EmptyView, IsPanel
  <1>5. QED
    BY <1>1, <1>2, <1>3, <1>4 DEF BuilderInv

\* A patient user picks a file when no run is under way.
LEMMA PickKeeps ==
    ASSUME careful, BuilderInv, NEW f, U!PickFile(f) PROVE BuilderInv'
  <1> DEFINE x == [file |-> f, deal |-> dealId, mode2 |-> stripe,
                   phase |-> IF stripe /\ GatewayEnabled THEN "gateway" ELSE "wasm",
                   base |-> <<>>, table |-> <<>>, mdu0 |-> [table |-> <<>>, roots |-> <<>>]]
  <1>1. runs' = Append(runs, x) /\ builder' = builder
    BY DEF U!PickFile
  <1>2. IsPanel(panel') /\ panel'.processing
    <2>1. PICK vg : panel' = [panel EXCEPT !.root = U!NoSlab, !.mdus = U!NoSlab, !.shards = {},
                                 !.processing = TRUE, !.progress = <<>>, !.isUploading = FALSE,
                                 !.mode2Uploading = vg, !.mode2UploadComplete = FALSE]
      BY DEF U!PickFile
    <2>2. IsPanel(panel)
      BY DEF BuilderInv
    <2>3. QED
      BY <2>1, <2>2, Zenon DEF IsPanel
  <1>3. \A j \in 1..Len(runs) : runs[j].phase = "over"
    BY DEF U!PickFile, U!Busy, BuilderInv
  <1>4. RunInv(x) /\ Holds(builder, x)
    BY DEF RunInv, RunOf, OwnMdu0, Holds
  <1> HIDE DEF x
  <1>5. /\ IsList(runs') /\ Len(runs') = Len(runs) + 1
        /\ \A j \in 1..Len(runs) : runs'[j] = runs[j]
        /\ runs'[Len(runs) + 1] = x
    <2>1. PICK s, y, t : s = runs /\ y = x /\ t = runs'
      OBVIOUS
    <2>2. IsList(s) /\ t = Appended(s, y)
      BY <1>1, <2>1 DEF BuilderInv, Appended
    <2>3. /\ IsList(t) /\ Len(t) = Len(s) + 1
          /\ \A j \in 1..Len(s) : t[j] = s[j]
          /\ t[Len(s) + 1] = y
      BY <2>2, ListAppend
    <2>4. QED
      BY <2>1, <2>3, Zenon
  <1>6. Len(runs) \in Nat
    BY DEF BuilderInv, IsList
  <1>7. \A j \in 1..Len(runs') : j \in 1..Len(runs) \/ j = Len(runs')
    BY <1>5, <1>6
  <1>8. QED
    BY <1>1, <1>2, <1>3, <1>4, <1>5, <1>6, <1>7 DEF BuilderInv

LEMMA GatewaySteps ==
    ASSUME BuilderInv, NEW i \in 1..Len(runs), U!GatewayIngest(i) \/ U!GatewayUnreachable(i)
    PROVE  BuilderInv'
  <1>1. CASE U!GatewayIngest(i)
    <2>1. PICK s : panel' = [panel EXCEPT !.root = s, !.mdus = U!NoSlab, !.shards = {},
                                          !.processing = FALSE, !.mode2Uploading = FALSE,
                                          !.mode2UploadComplete = TRUE]
      BY <1>1 DEF U!GatewayIngest
    <2>2. IsPanel(panel')
      BY <2>1, PanelFreed DEF BuilderInv
    <2>3. runs[i].phase # "over" /\ U!ToPhase(i, "over") /\ UNCHANGED builder
      BY <1>1 DEF U!GatewayIngest, U!Step
    <2>4. QED
      BY <2>2, <2>3, RunEnds
  <1>2. CASE U!GatewayUnreachable(i)
    <2>1. panel' = [panel EXCEPT !.mode2Uploading = FALSE]
      BY <1>2 DEF U!GatewayUnreachable
    <2>2. IsPanel(panel') /\ panel'.processing = panel.processing
      BY <2>1, PanelSet DEF BuilderInv
    <2>3. runs[i].phase = "gateway" /\ U!ToPhase(i, "wasm") /\ builder' = builder
      BY <1>2 DEF U!GatewayUnreachable, U!Step
    <2>4. Holds(builder', At(runs[i], "wasm"))
      BY AtIsRun DEF Holds
    <2>5. QED
      BY <2>2, <2>3, <2>4, RunProceeds DEF EarlyPhases, BuilderInv
  <1>3. QED
    BY <1>1, <1>2

LEMMA FailedRuns ==
    ASSUME BuilderInv, NEW i \in 1..Len(runs),
           U!RunFails(i) \/ U!FileUnreadable(i) \/ U!FinishRun(i)
    PROVE  BuilderInv'
  <1>1. runs[i].phase # "over" /\ U!ToPhase(i, "over") /\ UNCHANGED builder
    BY DEF U!RunFails, U!FileUnreadable, U!FinishRun, U!Step
  <1>2. IsPanel(panel')
    <2>1. CASE U!RunFails(i)
      <3>1. PICK m : panel' = [panel EXCEPT !.processing = FALSE, !.mode2Uploading = m]
        BY <2>1 DEF U!RunFails
      <3>2. QED
        BY <3>1, PanelFreed DEF BuilderInv
    <2>2. CASE U!FileUnreadable(i)
      BY <2>2 DEF U!FileUnreadable, BuilderInv
    <2>3. CASE U!FinishRun(i)
      <3>1. PICK s : panel' = [panel EXCEPT !.root = s, !.mdus = s, !.processing = FALSE]
        BY <2>3 DEF U!FinishRun
      <3>2. QED
        BY <3>1, PanelFreed DEF BuilderInv
    <2>4. QED
      BY <2>1, <2>2, <2>3
  <1>3. QED
    BY <1>1, <1>2, RunEnds

\* The steps that use the builder: what it holds is of the one run under way.
LEMMA BuilderSteps ==
    ASSUME BuilderInv, NEW i \in 1..Len(runs),
           \/ U!WasmReady(i) \/ U!InitBuilder(i) \/ U!ShardUsers(i) \/ U!SetRoots(i)
           \/ U!AppendRecord(i)
    PROVE  BuilderInv'
  <1>1. IsPanel(panel) /\ BuilderRec(builder) /\ Holds(builder, runs[i])
    BY DEF BuilderInv
  <1>2. CASE U!WasmReady(i)
    <2>1. runs[i].phase = "wasm" /\ U!ToPhase(i, "base") /\ UNCHANGED <<panel, builder>>
      BY <1>2 DEF U!WasmReady, U!Step
    <2>2. Holds(builder', At(runs[i], "base"))
      BY AtIsRun DEF Holds
    <2>3. QED
      BY <1>1, <2>1, <2>2, RunProceeds DEF EarlyPhases
  <1>3. CASE U!InitBuilder(i)
    <2>1. /\ runs[i].phase = "build" /\ U!ToPhase(i, "users") /\ panel' = panel
          /\ builder' = [table |-> runs[i].table, roots |-> <<>>]
      BY <1>3 DEF U!InitBuilder, U!Step
    <2>2. Holds(builder', At(runs[i], "users"))
      BY <2>1, AtIsRun DEF Holds
    <2>3. BuilderRec(builder')
      BY <2>1 DEF BuilderRec
    <2>4. QED
      BY <1>1, <2>1, <2>2, <2>3, RunProceeds DEF EarlyPhases
  <1>4. CASE U!ShardUsers(i)
    <2>1. runs[i].phase = "users" /\ U!ToPhase(i, "roots") /\ builder' = builder
      BY <1>4 DEF U!ShardUsers, U!Step
    <2>2. panel' = panel \/ \E s : panel' = [panel EXCEPT !.shards = s]
      BY <1>4 DEF U!ShardUsers
    <2>3. IsPanel(panel') /\ panel'.processing = panel.processing
      BY <1>1, <2>2, PanelSet
    <2>4. Holds(builder', At(runs[i], "roots"))
      BY <1>1, <2>1, AtIsRun DEF Holds
    <2>5. QED
      BY <1>1, <2>1, <2>3, <2>4, RunProceeds DEF EarlyPhases
  <1>5. CASE U!SetRoots(i)
    <2>1. /\ runs[i].phase = "roots" /\ U!ToPhase(i, "append") /\ panel' = panel
          /\ builder' = [builder EXCEPT !.roots = U!RunUsers(runs[i])]
      BY <1>5 DEF U!SetRoots, U!Step
    <2>2. builder' = [table |-> builder.table, roots |-> U!RunUsers(runs[i])]
      BY <1>1, <2>1 DEF BuilderRec
    <2>3. Holds(builder', At(runs[i], "append"))
      BY <1>1, <2>1, <2>2, AtIsRun DEF Holds
    <2>4. BuilderRec(builder')
      BY <2>2 DEF BuilderRec
    <2>5. QED
      BY <1>1, <2>1, <2>3, <2>4, RunProceeds DEF EarlyPhases
  <1>6. CASE U!AppendRecord(i)
    <2>1. /\ runs[i].phase = "append" /\ U!ToPhase(i, "bytes") /\ panel' = panel
          /\ builder' = [builder EXCEPT !.table = Append(builder.table, runs[i].file)]
      BY <1>6 DEF U!AppendRecord, U!Step
    <2>2. builder' = [table |-> Append(builder.table, runs[i].file), roots |-> builder.roots]
      BY <1>1, <2>1 DEF BuilderRec
    <2>3. Holds(builder', At(runs[i], "bytes"))
      <3>1. PICK r : r = At(runs[i], "bytes")
        OBVIOUS
      <3>2. /\ r.phase = "bytes" /\ r.table = runs[i].table /\ r.file = runs[i].file
            /\ U!RunUsers(r) = U!RunUsers(runs[i])
        BY <3>1, AtIsRun
      <3>3. builder.table = runs[i].table /\ builder.roots = U!RunUsers(runs[i])
        BY <1>1, <2>1 DEF Holds
      <3>4. builder'.table = Append(builder.table, runs[i].file) /\ builder'.roots = builder.roots
        BY <2>2
      <3>5. builder'.table = Append(r.table, r.file) /\ builder'.roots = U!RunUsers(r)
        BY <3>2, <3>3, <3>4, Zenon
      <3>6. QED
        BY <3>1, <3>2, <3>5 DEF Holds
    <2>4. BuilderRec(builder')
      BY <2>2 DEF BuilderRec
    <2>5. QED
      BY <1>1, <2>1, <2>3, <2>4, RunProceeds DEF EarlyPhases
  <1>7. QED
    BY <1>2, <1>3, <1>4, <1>5, <1>6

\* A run as the two steps leave it that keep what they have read.
LEMMA RunRead ==
    ASSUME NEW r, r = RunOf(r), NEW users, NEW table, NEW m, NEW q
    PROVE  /\ q = [[[r EXCEPT !.phase = "build"] EXCEPT !.base = users] EXCEPT !.table = table]
              => q = [file |-> r.file, deal |-> r.deal, mode2 |-> r.mode2, phase |-> "build",
                      base |-> users, table |-> table, mdu0 |-> r.mdu0]
           /\ q = [[r EXCEPT !.phase = "manifest"] EXCEPT !.mdu0 = m]
              => q = [file |-> r.file, deal |-> r.deal, mode2 |-> r.mode2, phase |-> "manifest",
                      base |-> r.base, table |-> r.table, mdu0 |-> m]
  <1>1. r = [file |-> r.file, deal |-> r.deal, mode2 |-> r.mode2, phase |-> r.phase,
             base |-> r.base, table |-> r.table, mdu0 |-> r.mdu0]
    BY DEF RunOf
  <1>2. ASSUME q = [[[r EXCEPT !.phase = "build"] EXCEPT !.base = users] EXCEPT !.table = table]
        PROVE  q = [file |-> r.file, deal |-> r.deal, mode2 |-> r.mode2, phase |-> "build",
                    base |-> users, table |-> table, mdu0 |-> r.mdu0]
    <2>1. PICK r1 : r1 = [r EXCEPT !.phase = "build"]
      OBVIOUS
    <2>2. r1 = [file |-> r.file, deal |-> r.deal, mode2 |-> r.mode2, phase |-> "build",
                base |-> r.base, table |-> r.table, mdu0 |-> r.mdu0]
      BY <1>1, <2>1
    <2>3. PICK r2 : r2 = [r1 EXCEPT !.base = users]
      OBVIOUS
    <2>4. r2 = [file |-> r.file, deal |-> r.deal, mode2 |-> r.mode2, phase |-> "build",
                base |-> users, table |-> r.table, mdu0 |-> r.mdu0]
      BY <2>2, <2>3
    <2>5. q = [r2 EXCEPT !.table = table]
      BY <1>2, <2>1, <2>3
    <2>6. QED
      BY <2>4, <2>5
  <1>3. ASSUME q = [[r EXCEPT !.phase = "manifest"] EXCEPT !.mdu0 = m]
        PROVE  q = [file |-> r.file, deal |-> r.deal, mode2 |-> r.mode2, phase |-> "manifest",
                    base |-> r.base, table |-> r.table, mdu0 |-> m]
    <2>1. PICK r1 : r1 = [r EXCEPT !.phase = "manifest"]
      OBVIOUS
    <2>2. r1 = [file |-> r.file, deal |-> r.deal, mode2 |-> r.mode2, phase |-> "manifest",
                base |-> r.base, table |-> r.table, mdu0 |-> r.mdu0]
      BY <1>1, <2>1
    <2>3. q = [r1 EXCEPT !.mdu0 = m]
      BY <1>3, <2>1
    <2>4. QED
      BY <2>2, <2>3
  <1>4. QED
    BY <1>2, <1>3

LEMMA ReadBaseKeeps ==
    ASSUME BuilderInv, NEW i \in 1..Len(runs), U!ReadBase(i) PROVE BuilderInv'
  <1>1. PICK users, table :
            runs' = [runs EXCEPT ![i].phase = "build", ![i].base = users, ![i].table = table]
    BY DEF U!ReadBase
  <1>2. runs[i].phase = "base" /\ UNCHANGED <<panel, builder>>
    BY DEF U!ReadBase, U!Step
  <1>3. PICK r : r = runs[i]
    OBVIOUS
  <1>4. PICK q : q = [[[r EXCEPT !.phase = "build"] EXCEPT !.base = users] EXCEPT !.table = table]
    OBVIOUS
  <1>5. runs' = Replaced(runs, i, q)
    BY <1>1, <1>3, <1>4 DEF Replaced, BuilderInv, IsList
  <1>6. RunInv(r) /\ r.phase = "base"
    BY <1>2, <1>3 DEF BuilderInv
  <1>7. q = [file |-> r.file, deal |-> r.deal, mode2 |-> r.mode2, phase |-> "build",
             base |-> users, table |-> table, mdu0 |-> r.mdu0]
    BY <1>4, <1>6, RunRead DEF RunInv
  <1>8. RunInv(q) /\ Holds(builder', q)
    BY <1>6, <1>7 DEF RunInv, RunOf, OwnMdu0, EarlyPhases, Holds
  <1>9. IsPanel(panel') /\ panel'.processing /\ BuilderRec(builder')
    BY <1>2 DEF BuilderInv
  <1>10. QED
    BY <1>2, <1>5, <1>8, <1>9, RunGoesOn

LEMMA GetMdu0Keeps ==
    ASSUME BuilderInv, NEW i \in 1..Len(runs), U!GetMdu0(i) PROVE BuilderInv'
  <1>1. runs' = [runs EXCEPT ![i].phase = "manifest", ![i].mdu0 = builder]
    BY DEF U!GetMdu0
  <1>2. runs[i].phase = "bytes" /\ UNCHANGED <<panel, builder>>
    BY DEF U!GetMdu0, U!Step
  <1>3. PICK r, m : r = runs[i] /\ m = builder
    OBVIOUS
  <1>4. PICK q : q = [[r EXCEPT !.phase = "manifest"] EXCEPT !.mdu0 = m]
    OBVIOUS
  <1>5. runs' = Replaced(runs, i, q)
    BY <1>1, <1>3, <1>4 DEF Replaced, BuilderInv, IsList
  <1>6. RunInv(r) /\ r.phase = "bytes" /\ Holds(m, r)
    BY <1>2, <1>3 DEF BuilderInv
  <1>7. q = [file |-> r.file, deal |-> r.deal, mode2 |-> r.mode2, phase |-> "manifest",
             base |-> r.base, table |-> r.table, mdu0 |-> m]
    BY <1>4, <1>6, RunRead DEF RunInv
  <1>8. m.table = Append(r.table, r.file) /\ m.roots = U!RunUsers(r)
    BY <1>6 DEF Holds
  <1>9. U!RunUsers(q) = U!RunUsers(r) /\ q.table = r.table /\ q.file = r.file /\ q.mdu0 = m
    BY <1>7 DEF U!RunUsers
  <1>10. OwnMdu0(q)
    BY <1>8, <1>9, Zenon DEF OwnMdu0
  <1>11. RunInv(q) /\ Holds(builder', q)
    BY <1>7, <1>10 DEF RunInv, RunOf, EarlyPhases, Holds
  <1>12. IsPanel(panel') /\ panel'.processing /\ BuilderRec(builder')
    BY <1>2 DEF BuilderInv
  <1>13. QED
    BY <1>2, <1>5, <1>11, <1>12, RunGoesOn

\* Uploads and mirrors change other parts of the panel, and everything else no run
\* and no builder.
LEMMA OtherSteps ==
    ASSUME BuilderInv,
           \/ \E d \in PanelDeals : U!SwitchDeal(d)
           \/ U!Upload \/ U!Commit \/ U!LoadStripe \/ U!LoadBases \/ U!LoadFails
           \/ \E k \in 1..Len(uploads), ok \in BOOLEAN : U!UploadPiece(k, ok)
           \/ \E s \in mirrors, o \in {"success", "skipped", "error"} : U!MirrorEnds(s, o)
           \/ \E ok \in BOOLEAN : U!Wallet(ok)
           \/ U!Mine \/ U!Receipt \/ U!Revert \/ U!Effects
           \/ \E p \in persists : U!PersistRoot(p) \/ U!PersistMdu(p) \/ U!PersistEnds(p)
           \/ UNCHANGED U!vars
    PROVE  BuilderInv'
  <1>1. UNCHANGED <<runs, builder>>
    BY DEF U!SwitchDeal, U!Upload, U!Commit, U!LoadStripe, U!LoadBases, U!LoadFails, U!UploadPiece,
           U!MirrorEnds, U!Wallet, U!Mine, U!Receipt, U!Revert, U!Effects, U!PersistRoot,
           U!PersistMdu, U!PersistEnds, U!persistOnly, U!commitOnly, U!vars, U!stepVars
  <1>2. IsPanel(panel)
    BY DEF BuilderInv
  <1>3. IsPanel(panel') /\ panel'.processing = panel.processing
    <2>1. CASE U!Upload
      <3>1. \/ \E a, b : panel' = [panel EXCEPT !.mode2Uploading = a, !.mode2UploadComplete = b]
            \/ \E a, b : panel' = [panel EXCEPT !.isUploading = a, !.progress = b]
        BY <2>1, Zenon DEF U!Upload
      <3>2. QED
        BY <1>2, <3>1, Zenon DEF IsPanel
    <2>2. ASSUME NEW k \in 1..Len(uploads), NEW ok \in BOOLEAN, U!UploadPiece(k, ok)
          PROVE  IsPanel(panel') /\ panel'.processing = panel.processing
      <3>1. PICK w : w = U!Shown(uploads[k], ok)
        OBVIOUS
      <3>2. \/ \E a, b : w = [panel EXCEPT !.mode2Uploading = a, !.mode2UploadComplete = b]
            \/ \E a, b : w = [panel EXCEPT !.progress = a, !.isUploading = b]
        BY <3>1, Zenon DEF U!Shown
      <3>3. IsPanel(w) /\ w.processing = panel.processing
        BY <1>2, <3>2, Zenon DEF IsPanel
      <3>4. panel' = w \/ \E a : panel' = [w EXCEPT !.mirror = a]
        BY <2>2, <3>1 DEF U!UploadPiece
      <3>5. QED
        BY <3>3, <3>4, PanelSet
    <2>3. ASSUME NEW s, NEW o, U!MirrorEnds(s, o)
          PROVE  IsPanel(panel') /\ panel'.processing = panel.processing
      BY <1>2, <2>3, PanelSet DEF U!MirrorEnds
    <2>4. CASE UNCHANGED panel
      BY <1>2, <2>4
    <2>5. QED
      BY <2>1, <2>2, <2>3, <2>4
         DEF U!SwitchDeal, U!Commit, U!LoadStripe, U!LoadBases, U!LoadFails,
             U!Wallet, U!Mine, U!Receipt, U!Revert, U!Effects, U!PersistRoot,
             U!PersistMdu, U!PersistEnds, U!persistOnly, U!commitOnly, U!vars, U!stepVars
  <1>4. QED
    BY <1>1, <1>3, RunsKept

LEMMA BuilderKept ==
    ASSUME careful, BuilderInv, [U!Next]_(U!vars) PROVE BuilderInv'
  <1>1. ASSUME NEW i \in 1..Len(runs), U!RunStep(i) PROVE BuilderInv'
    BY <1>1, GatewaySteps, FailedRuns, BuilderSteps, ReadBaseKeeps, GetMdu0Keeps DEF U!RunStep
  <1>2. ASSUME NEW f \in Uploaded, U!PickFile(f) PROVE BuilderInv'
    BY <1>2, PickKeeps
  <1>3. QED
    BY <1>1, <1>2, OtherSteps DEF U!Next, U!PanelStep, U!User

\* OwnBuilder (FileSharder.tsx: one worker, one MDU #0 builder for every run of
\* processFile): as long as the user waits for a file to be done before picking the
\* next one, the MDU #0 of every slab has the records and roots of its own run, however
\* runs end, and whatever is uploaded, committed or saved meanwhile.
THEOREM BuilderIsOwn == U!Spec => []OwnBuilder
  <1> DEFINE Inv == careful => BuilderInv
  <1>1. U!Init => Inv
    BY BuilderInit
  <1>2. Inv /\ [U!Next]_(U!vars) => Inv'
    <2>1. ASSUME [U!Next]_(U!vars) PROVE careful' = careful
      BY <2>1 DEF U!Next, U!vars
    <2>2. QED
      BY <2>1, BuilderKept
  <1>3. Inv => OwnBuilder
    BY DEF BuilderInv, RunInv, OwnMdu0, OwnBuilder, U!OwnBuilder
  <1>4. QED
    BY <1>1, <1>2, <1>3, PTL DEF U!Spec

-----------------------------------------------------------------------------
(***************************************************************************)
(* What the panel's state is made of.                                      *)
(***************************************************************************)
Phases == {"gateway", "wasm", "base", "build", "users", "roots", "append", "bytes", "manifest",
           "over"}

IsSlab(s) == IsList(s.users) /\ IsList(s.table) /\ s.base \in Nat /\ s.mode2 \in BOOLEAN

RunTyped(r) ==
    /\ r = RunOf(r)
    /\ r.deal \in PanelDeals /\ r.mode2 \in BOOLEAN /\ r.phase \in Phases
    /\ IsList(r.base) /\ IsList(r.table) /\ IsList(r.mdu0.table)

RunTypes ==
    /\ IsList(runs) /\ Len(runs) <= MaxRuns
    /\ \A i \in 1..Len(runs) : RunTyped(runs[i])
    /\ BuilderRec(builder) /\ IsList(builder.table)

LoadTypes ==
    /\ careful \in BOOLEAN /\ mode2 \in [PanelDeals -> BOOLEAN]
    /\ dealId \in PanelDeals /\ bases \in PanelDeals \cup {NoDeal} /\ stripe \in BOOLEAN
    /\ load \in {"stripe", "bases", "done"}

PanelOf(root, mdus, shards, busy, progress, sending, sending2, sent2, mirror) ==
    [root |-> root, mdus |-> mdus, shards |-> shards, processing |-> busy, progress |-> progress,
     isUploading |-> sending, mode2Uploading |-> sending2, mode2UploadComplete |-> sent2,
     mirror |-> mirror]

PanelRec(v) ==
    v = PanelOf(v.root, v.mdus, v.shards, v.processing, v.progress, v.isUploading,
                v.mode2Uploading, v.mode2UploadComplete, v.mirror)

PanelTypes ==
    /\ PanelRec(panel)
    /\ IsSlab(panel.root) /\ IsSlab(panel.mdus)
    /\ panel.mdus # U!NoSlab => panel.mdus = panel.root
    /\ panel.processing \in BOOLEAN /\ panel.isUploading \in BOOLEAN
    /\ panel.mode2Uploading \in BOOLEAN /\ panel.mode2UploadComplete \in BOOLEAN
    /\ IsList(panel.progress)
    /\ \A k \in 1..Len(panel.progress) : panel.progress[k] \in {"pending", "complete", "error"}

UploadOf(u) == [slab |-> u.slab, deal |-> u.deal, at |-> u.at, mode2 |-> u.mode2, todo |-> u.todo,
                ok |-> u.ok]

UploadTypes ==
    /\ IsList(uploads) /\ Len(uploads) <= MaxUploads
    /\ \A k \in 1..Len(uploads) :
         /\ uploads[k] = UploadOf(uploads[k])
         /\ uploads[k].ok \in BOOLEAN /\ uploads[k].mode2 \in BOOLEAN

CommitTypes ==
    /\ commit = [st |-> commit.st, tx |-> commit.tx, deal |-> commit.deal, slab |-> commit.slab]
    /\ commit.st \in {"none", "wallet", "sent", "mined", "success", "error"}
    /\ commit.tx \in 0..MaxCommits
    /\ commit.deal \in PanelDeals /\ IsSlab(commit.slab)

ChainTypes ==
    /\ committed = [d \in PanelDeals |-> committed[d]]
    /\ \A d \in PanelDeals :
         IsList(committed[d]) /\ \A k \in 1..Len(committed[d]) : IsSlab(committed[d][k])

PersistTyped(p) ==
    /\ p = [deal |-> p.deal, root |-> p.root, mdus |-> p.mdus, next |-> p.next,
            cancelled |-> p.cancelled]
    /\ p.deal \in PanelDeals /\ IsSlab(p.mdus) /\ p.next \in 0..(Len(p.mdus.users) + 1)

StoreTyped(o) ==
    /\ o = [root |-> o.root, mdus |-> o.mdus]
    /\ IsList(o.mdus) /\ \A j \in 1..Len(o.mdus) : IsList(o.mdus[j].table)

SaveTypes ==
    /\ \A p \in persists : PersistTyped(p)
    /\ store = [d \in PanelDeals |-> store[d]]
    /\ \A d \in PanelDeals : StoreTyped(store[d])

TypesInv ==
    /\ LoadTypes /\ RunTypes /\ PanelTypes /\ UploadTypes /\ CommitTypes /\ ChainTypes /\ SaveTypes

-----------------------------------------------------------------------------
(* Lists, and the panel as the steps set it. *)

LEMMA ListNil == IsList(<<>>) /\ Len(<<>>) = 0
  BY DEF IsList

LEMMA ListEmpty == ASSUME NEW s, IsList(s) PROVE s = <<>> <=> Len(s) = 0
  <1>1. s = <<>> => Len(s) = 0
    OBVIOUS
  <1>2. ASSUME Len(s) = 0 PROVE s = <<>>
    <2>1. s = [j \in 1..0 |-> s[j]]
      BY <1>2 DEF IsList
    <2>2. s \in Seq({})
      BY <1>2, ListIsSeq
    <2>3. QED
      BY <1>2, <2>2, EmptySeq
  <1>3. QED
    BY <1>1, <1>2

LEMMA ListFun ==
    ASSUME NEW n \in Nat, NEW s, s = [j \in 1..n |-> s[j]]
    PROVE  IsList(s) /\ Len(s) = n
  <1> DEFINE S == {s[j] : j \in 1..n}
  <1>1. s \in [1..n -> S]
    OBVIOUS
  <1> HIDE DEF S
  <1>2. s \in Seq(S)
    BY <1>1, SeqDef
  <1>3. Len(s) = n
    BY <1>1, <1>2, LenProperties
  <1>4. QED
    BY <1>3 DEF IsList

LEMMA ListTail ==
    ASSUME NEW s, IsList(s), s # <<>>, NEW t, t = Tail(s)
    PROVE  /\ Len(s) \in Nat \ {0} /\ Head(s) = s[1]
           /\ IsList(t) /\ Len(t) = Len(s) - 1
           /\ \A j \in 1..Len(t) : j + 1 \in 1..Len(s) /\ t[j] = s[j + 1]
  <1> DEFINE S == {s[j] : j \in 1..Len(s)}
  <1>1. s \in Seq(S)
    BY ListIsSeq
  <1> HIDE DEF S
  <1>2. /\ Len(s) \in Nat \ {0} /\ t \in Seq(S) /\ Len(t) = Len(s) - 1 /\ Head(s) = s[1]
        /\ \A j \in 1..Len(t) : t[j] = s[j + 1]
    BY <1>1
  <1>3. t \in [1..Len(t) -> S] /\ Len(t) \in Nat
    BY <1>2, LenProperties
  <1>4. IsList(t)
    BY <1>3 DEF IsList
  <1>5. QED
    BY <1>2, <1>4

Joined(s, t) == s \o t

LEMMA ListConcat ==
    ASSUME NEW s, NEW t, IsList(s), IsList(t), NEW u, u = Joined(s, t)
    PROVE  /\ IsList(u) /\ Len(u) = Len(s) + Len(t)
           /\ \A j \in 1..Len(s) : j \in 1..Len(u) /\ u[j] = s[j]
           /\ \A j \in 1..Len(t) : Len(s) + j \in 1..Len(u) /\ u[Len(s) + j] = t[j]
           /\ \A j \in 1..Len(u) :
                \/ j \in 1..Len(s) /\ u[j] = s[j]
                \/ j - Len(s) \in 1..Len(t) /\ u[j] = t[j - Len(s)]
  <1> DEFINE S == {s[j] : j \in 1..Len(s)} \cup {t[j] : j \in 1..Len(t)}
  <1>1. s \in Seq(S) /\ t \in Seq(S)
    BY ListIsSeq
  <1> HIDE DEF S
  <1>2. /\ u \in Seq(S) /\ Len(u) = Len(s) + Len(t)
        /\ \A j \in 1..(Len(s) + Len(t)) : u[j] = IF j <= Len(s) THEN s[j] ELSE t[j - Len(s)]
    BY <1>1, ConcatProperties DEF Joined
  <1>3. u \in [1..Len(u) -> S] /\ Len(u) \in Nat /\ Len(s) \in Nat /\ Len(t) \in Nat
    BY <1>1, <1>2, LenProperties
  <1>4. IsList(u)
    BY <1>3 DEF IsList
  <1>5. QED
    BY <1>2, <1>3, <1>4

LEMMA PanelPicked ==
    ASSUME NEW v, PanelRec(v), NEW a, NEW w,
           w = [v EXCEPT !.root = U!NoSlab, !.mdus = U!NoSlab, !.shards = {},
                         !.processing = TRUE, !.progress = <<>>, !.isUploading = FALSE,
                         !.mode2Uploading = a, !.mode2UploadComplete = FALSE]
    PROVE  w = PanelOf(U!NoSlab, U!NoSlab, {}, TRUE, <<>>, FALSE, a, FALSE, v.mirror)
  BY DEF PanelRec, PanelOf

LEMMA PanelIngested ==
    ASSUME NEW v, PanelRec(v), NEW a, NEW w,
           w = [v EXCEPT !.root = a, !.mdus = U!NoSlab, !.shards = {}, !.processing = FALSE,
                         !.mode2Uploading = FALSE, !.mode2UploadComplete = TRUE]
    PROVE  w = PanelOf(a, U!NoSlab, {}, FALSE, v.progress, v.isUploading, FALSE, TRUE, v.mirror)
  BY DEF PanelRec, PanelOf

LEMMA PanelUnreached ==
    ASSUME NEW v, PanelRec(v), NEW a, NEW w,
           w = [v EXCEPT !.mode2Uploading = a]
    PROVE  w = PanelOf(v.root, v.mdus, v.shards, v.processing, v.progress, v.isUploading,
                       a, v.mode2UploadComplete, v.mirror)
  BY DEF PanelRec, PanelOf

LEMMA PanelFailed ==
    ASSUME NEW v, PanelRec(v), NEW a, NEW w,
           w = [v EXCEPT !.processing = FALSE, !.mode2Uploading = a]
    PROVE  w = PanelOf(v.root, v.mdus, v.shards, FALSE, v.progress, v.isUploading,
                       a, v.mode2UploadComplete, v.mirror)
  BY DEF PanelRec, PanelOf

LEMMA PanelSharded ==
    ASSUME NEW v, PanelRec(v), NEW a, NEW w,
           w = [v EXCEPT !.shards = a]
    PROVE  w = PanelOf(v.root, v.mdus, a, v.processing, v.progress, v.isUploading,
                       v.mode2Uploading, v.mode2UploadComplete, v.mirror)
  BY DEF PanelRec, PanelOf

LEMMA PanelFinished ==
    ASSUME NEW v, PanelRec(v), NEW a, NEW w,
           w = [v EXCEPT !.root = a, !.mdus = a, !.processing = FALSE]
    PROVE  w = PanelOf(a, a, v.shards, FALSE, v.progress, v.isUploading,
                       v.mode2Uploading, v.mode2UploadComplete, v.mirror)
  BY DEF PanelRec, PanelOf

LEMMA PanelSent2 ==
    ASSUME NEW v, PanelRec(v), NEW a, NEW b, NEW w,
           w = [v EXCEPT !.mode2Uploading = a, !.mode2UploadComplete = b]
    PROVE  w = PanelOf(v.root, v.mdus, v.shards, v.processing, v.progress, v.isUploading,
                       a, b, v.mirror)
  BY DEF PanelRec, PanelOf

LEMMA PanelSent ==
    ASSUME NEW v, PanelRec(v), NEW a, NEW b, NEW w,
           w = [v EXCEPT !.isUploading = a, !.progress = b]
    PROVE  w = PanelOf(v.root, v.mdus, v.shards, v.processing, b, a,
                       v.mode2Uploading, v.mode2UploadComplete, v.mirror)
  BY DEF PanelRec, PanelOf

LEMMA PanelMarked ==
    ASSUME NEW v, PanelRec(v), NEW a, NEW b, NEW w,
           w = [v EXCEPT !.progress = b, !.isUploading = a]
    PROVE  w = PanelOf(v.root, v.mdus, v.shards, v.processing, b, a,
                       v.mode2Uploading, v.mode2UploadComplete, v.mirror)
  BY DEF PanelRec, PanelOf

LEMMA PanelMirrored ==
    ASSUME NEW v, PanelRec(v), NEW a, NEW w,
           w = [v EXCEPT !.mirror = a]
    PROVE  w = PanelOf(v.root, v.mdus, v.shards, v.processing, v.progress, v.isUploading,
                       v.mode2Uploading, v.mode2UploadComplete, a)
  BY DEF PanelRec, PanelOf

LEMMA NoSlabIsSlab == IsSlab(U!NoSlab) /\ U!NoSlab.users = <<>>
  BY ListNil DEF U!NoSlab, IsSlab

\* What a panel set so is made of.
LEMMA PanelTyped ==
    ASSUME NEW r, IsSlab(r), NEW m, IsSlab(m), m # U!NoSlab => m = r, NEW s, NEW x,
           NEW b \in BOOLEAN, NEW u \in BOOLEAN, NEW u2 \in BOOLEAN, NEW c2 \in BOOLEAN,
           NEW g, IsList(g), \A k \in 1..Len(g) : g[k] \in {"pending", "complete", "error"},
           panel' = PanelOf(r, m, s, b, g, u, u2, c2, x)
    PROVE  PanelTypes'
  <1>1. /\ panel'.root = r /\ panel'.mdus = m /\ panel'.shards = s /\ panel'.processing = b
        /\ panel'.progress = g /\ panel'.isUploading = u /\ panel'.mode2Uploading = u2
        /\ panel'.mode2UploadComplete = c2 /\ panel'.mirror = x
    BY DEF PanelOf
  <1>2. PanelRec(panel')
    BY <1>1 DEF PanelRec
  <1>3. QED
    BY <1>1, <1>2 DEF PanelTypes

-----------------------------------------------------------------------------
(* Every step keeps the types. *)

LEMMA SharderConstants ==
    /\ PanelDeal \in PanelDeals /\ NoDeal \notin PanelDeals /\ NumSlots \in Nat \ {0}
    /\ GatewayEnabled \in BOOLEAN /\ LoadsFail \in BOOLEAN
    /\ MaxRuns \in Nat /\ MaxUploads \in Nat /\ MaxCommits \in Nat
  BY UploadsAssumption DEF U!SharderAssumption

LEMMA TypesInit == ASSUME U!Init PROVE TypesInv
  <1>1. LoadTypes
    BY SharderConstants DEF U!Init, LoadTypes
  <1>2. RunTypes
    <2>1. runs = <<>> /\ Len(runs) = 0 /\ builder = [table |-> <<>>, roots |-> <<>>]
      BY DEF U!Init
    <2>2. BuilderRec(builder) /\ IsList(builder.table)
      BY <2>1, ListNil DEF BuilderRec
    <2>3. QED
      BY <2>1, <2>2, ListNil, SharderConstants DEF RunTypes
  <1>3. PanelTypes
    <2>1. /\ panel.root = U!NoSlab /\ panel.mdus = U!NoSlab /\ panel.processing = FALSE
          /\ panel.isUploading = FALSE /\ panel.mode2Uploading = FALSE
          /\ panel.mode2UploadComplete = FALSE /\ panel.progress = <<>>
      BY DEF U!Init, U!EmptyView
    <2>2. PanelRec(panel)
      BY DEF U!Init, U!EmptyView, PanelRec, PanelOf
    <2>3. IsList(panel.progress) /\ Len(panel.progress) = 0
      BY <2>1, ListNil
    <2>4. IsSlab(panel.root) /\ IsSlab(panel.mdus)
      BY <2>1, NoSlabIsSlab
    <2>5. \A k \in 1..Len(panel.progress) : FALSE
      BY <2>3
    <2>6. QED
      BY <2>1, <2>2, <2>3, <2>4, <2>5, Zenon DEF PanelTypes
  <1>4. UploadTypes
    BY ListNil, SharderConstants DEF U!Init, UploadTypes
  <1>5. CommitTypes
    <2>1. commit = [st |-> "none", tx |-> 0, deal |-> PanelDeal, slab |-> U!NoSlab]
      BY DEF U!Init
    <2>2. QED
      BY <2>1, NoSlabIsSlab, SharderConstants DEF CommitTypes
  <1>6. ChainTypes
    <2>1. committed = [d \in PanelDeals |-> <<>>]
      BY DEF U!Init
    <2>2. QED
      BY <2>1, ListNil DEF ChainTypes
  <1>7. SaveTypes
    <2>1. persists = {} /\ store = [d \in PanelDeals |-> [root |-> U!NoSlab, mdus |-> <<>>]]
      BY DEF U!Init
    <2>2. \A d \in PanelDeals : StoreTyped(store[d])
      BY <2>1, ListNil DEF StoreTyped
    <2>3. QED
      BY <2>1, <2>2 DEF SaveTypes
  <1>8. QED
    BY <1>1, <1>2, <1>3, <1>4, <1>5, <1>6, <1>7 DEF TypesInv

\* What each group of steps leaves alone.
LEMMA RunFrame ==
    ASSUME NEW i \in 1..Len(runs), U!RunStep(i)
    PROVE  /\ UNCHANGED <<mode2, committed, dealId, load, stripe, bases, uploads, mirrors, commit,
                          last, reported, effectKey, persists, store>>
           /\ ~U!EffectsDue /\ runs[i].phase # "over"
  BY DEF U!RunStep, U!GatewayIngest, U!GatewayUnreachable, U!RunFails, U!FileUnreadable,
         U!WasmReady, U!ReadBase, U!InitBuilder, U!ShardUsers, U!SetRoots, U!AppendRecord,
         U!GetMdu0, U!FinishRun, U!Step, U!chainVars, U!loadVars, U!saveVars

LoadStep ==
    (\E d \in PanelDeals : U!SwitchDeal(d)) \/ U!LoadStripe \/ U!LoadBases \/ U!LoadFails

LEMMA LoadFrame ==
    ASSUME LoadStep
    PROVE  /\ UNCHANGED <<mode2, committed, stored, panel, runs, builder, uploads, mirrors, commit,
                          last, reported, effectKey, persists, store>>
           /\ ~U!EffectsDue
  BY DEF LoadStep, U!SwitchDeal, U!LoadStripe, U!LoadBases, U!LoadFails, U!chainVars, U!saveVars

LEMMA PickFrame ==
    ASSUME NEW f, U!PickFile(f)
    PROVE  /\ UNCHANGED <<mode2, committed, stored, dealId, load, stripe, bases, builder, uploads,
                          mirrors, commit, last, reported, effectKey, persists, store>>
           /\ ~U!EffectsDue
  BY DEF U!PickFile, U!chainVars, U!loadVars, U!saveVars

SendStep ==
    \/ U!Upload
    \/ \E k \in 1..Len(uploads), ok \in BOOLEAN : U!UploadPiece(k, ok)
    \/ \E s \in mirrors, o \in {"success", "skipped", "error"} : U!MirrorEnds(s, o)

LEMMA SendFrame ==
    ASSUME SendStep
    PROVE  /\ UNCHANGED <<mode2, committed, dealId, load, stripe, bases, runs, builder, commit,
                          last, reported, effectKey, persists, store>>
           /\ ~U!EffectsDue
  BY DEF SendStep, U!Upload, U!UploadPiece, U!MirrorEnds, U!chainVars, U!loadVars, U!saveVars

CommitStep ==
    U!Commit \/ (\E ok \in BOOLEAN : U!Wallet(ok)) \/ U!Mine \/ U!Receipt \/ U!Revert

LEMMA CommitFrame ==
    ASSUME CommitStep
    PROVE  /\ UNCHANGED <<mode2, stored, dealId, load, stripe, bases, panel, runs, builder, uploads,
                          mirrors, last, reported, effectKey, persists, store>>
           /\ U!Mine \/ UNCHANGED committed
  BY DEF CommitStep, U!Commit, U!Wallet, U!Mine, U!Receipt, U!Revert, U!chainVars, U!loadVars,
         U!saveVars, U!commitOnly

SaveStep ==
    \/ U!Effects
    \/ \E p \in persists : U!PersistRoot(p) \/ U!PersistMdu(p) \/ U!PersistEnds(p)

LEMMA SaveFrame ==
    ASSUME SaveStep
    PROVE  /\ UNCHANGED <<mode2, committed, stored, dealId, load, stripe, bases, panel, runs,
                          builder, uploads, mirrors, commit>>
           /\ U!Effects \/ UNCHANGED <<last, reported, effectKey>>
  BY DEF SaveStep, U!Effects, U!PersistRoot, U!PersistMdu, U!PersistEnds, U!chainVars, U!loadVars,
         U!persistOnly

LEMMA PanelSteps ==
    ASSUME U!PanelStep
    PROVE  \/ LoadStep \/ (\E f \in Uploaded : U!PickFile(f))
           \/ (\E i \in 1..Len(runs) : U!RunStep(i)) \/ SendStep \/ CommitStep \/ SaveStep
  BY DEF U!PanelStep, U!User, LoadStep, SendStep, CommitStep, SaveStep

LEMMA LoadTypesKept ==
    ASSUME TypesInv, U!PanelStep, careful' = careful PROVE LoadTypes'
  <1>1. CASE LoadStep
    <2>1. UNCHANGED mode2
      BY <1>1, LoadFrame
    <2>2. QED
      BY <1>1, <2>1 DEF TypesInv, LoadTypes, LoadStep, U!SwitchDeal, U!LoadStripe, U!LoadBases,
                        U!LoadFails
  <1>2. CASE UNCHANGED <<mode2, dealId, load, stripe, bases>>
    BY <1>2 DEF TypesInv, LoadTypes
  <1>3. QED
    BY <1>1, <1>2, PanelSteps, PickFrame, RunFrame, SendFrame, CommitFrame, SaveFrame

LEMMA ReadableIsList ==
    ASSUME NEW o, StoreTyped(o) PROVE IsList(U!ReadableBase(o))
  <1>1. CASE o.mdus = <<>>
    BY <1>1, ListNil DEF U!ReadableBase
  <1>2. CASE o.mdus # <<>>
    <2>1. PICK n, m : n = Len(o.mdus[1].table) /\ m = o.mdus
      OBVIOUS
    <2>2. Len(m) \in Nat \ {0}
      BY <1>2, <2>1, ListEmpty DEF StoreTyped, IsList
    <2>3. n \in Nat
      BY <2>1, <2>2 DEF StoreTyped, IsList
    <2>4. PICK users : users = [j \in 1..n |-> m[Len(m) - n + j].file]
      OBVIOUS
    <2>5. IsList(users)
      BY <2>3, <2>4, ListFun
    <2>6. U!ReadableBase(o) = IF n >= Len(m) THEN <<>> ELSE users
      BY <1>2, <2>1, <2>4 DEF U!ReadableBase
    <2>7. QED
      BY <2>5, <2>6, ListNil
  <1>3. QED
    BY <1>1, <1>2

LEMMA AtTyped ==
    ASSUME NEW r, RunTyped(r), NEW p \in Phases PROVE RunTyped(At(r, p))
  BY DEF RunTyped, At, RunOf

LEMMA RunPutTyped ==
    ASSUME RunTypes, NEW i \in 1..Len(runs), NEW q, RunTyped(q), runs' = Replaced(runs, i, q),
           BuilderRec(builder'), IsList(builder'.table)
    PROVE  RunTypes'
  <1>1. /\ IsList(runs') /\ Len(runs') = Len(runs)
        /\ \A j \in 1..Len(runs) : runs'[j] = IF j = i THEN q ELSE runs[j]
    BY ListExcept DEF RunTypes
  <1>2. QED
    BY <1>1 DEF RunTypes

LEMMA PhaseTyped ==
    ASSUME RunTypes, NEW i \in 1..Len(runs), NEW p \in Phases, U!ToPhase(i, p),
           BuilderRec(builder'), IsList(builder'.table)
    PROVE  RunTypes'
  <1>1. PICK r, q : r = runs[i] /\ q = At(r, p)
    OBVIOUS
  <1>2. RunTyped(r)
    BY <1>1 DEF RunTypes
  <1>3. RunTyped(q)
    BY <1>1, <1>2, AtTyped
  <1>4. runs' = Replaced(runs, i, q)
    BY <1>1, <1>2, NextPhase DEF RunTyped
  <1>5. QED
    BY <1>3, <1>4, RunPutTyped

LEMMA RunTypesKept ==
    ASSUME TypesInv, NEW i \in 1..Len(runs), U!RunStep(i) PROVE RunTypes'
  <1>0. RunTypes /\ RunTyped(runs[i]) /\ BuilderRec(builder) /\ IsList(builder.table)
    BY DEF TypesInv, RunTypes
  <1>1. CASE U!ReadBase(i)
    <2>1. PICK users, table :
            /\ runs' = [runs EXCEPT ![i].phase = "build", ![i].base = users, ![i].table = table]
            /\ users = IF runs[i].mode2 THEN U!ReadableBase(store[runs[i].deal]) ELSE <<>>
            /\ table = IF users = <<>> THEN <<>> ELSE store[runs[i].deal].mdus[1].table
      BY <1>1 DEF U!ReadBase
    <2>2. PICK r, o : r = runs[i] /\ o = store[r.deal]
      OBVIOUS
    <2>3. RunTyped(r)
      BY <1>0, <2>2
    <2>4. StoreTyped(o)
      BY <2>2, <2>3 DEF TypesInv, SaveTypes, RunTyped
    <2>5. IsList(users)
      BY <2>1, <2>2, <2>4, ReadableIsList, ListNil
    <2>6. IsList(table)
      <3>1. CASE users = <<>>
        BY <2>1, <3>1, ListNil
      <3>2. CASE users # <<>>
        <4>1. users = U!ReadableBase(o) /\ table = o.mdus[1].table
          BY <2>1, <2>2, <3>2
        <4>2. o.mdus # <<>>
          BY <3>2, <4>1 DEF U!ReadableBase
        <4>3. Len(o.mdus) \in Nat \ {0}
          BY <2>4, <4>2, ListEmpty DEF StoreTyped, IsList
        <4>4. QED
          BY <2>4, <4>1, <4>3 DEF StoreTyped
      <3>3. QED
        BY <3>1, <3>2
    <2>7. PICK q : q = [[[r EXCEPT !.phase = "build"] EXCEPT !.base = users] EXCEPT !.table = table]
      OBVIOUS
    <2>8. runs' = Replaced(runs, i, q)
      BY <1>0, <2>1, <2>2, <2>7 DEF Replaced, RunTypes, IsList
    <2>9. q = [file |-> r.file, deal |-> r.deal, mode2 |-> r.mode2, phase |-> "build",
               base |-> users, table |-> table, mdu0 |-> r.mdu0]
      BY <2>3, <2>7, RunRead DEF RunTyped
    <2>10. RunTyped(q)
      BY <2>3, <2>5, <2>6, <2>9 DEF RunTyped, RunOf, Phases
    <2>11. builder' = builder
      BY <1>1 DEF U!ReadBase
    <2>12. QED
      BY <1>0, <2>8, <2>10, <2>11, RunPutTyped
  <1>2. CASE U!GetMdu0(i)
    <2>1. runs' = [runs EXCEPT ![i].phase = "manifest", ![i].mdu0 = builder] /\ builder' = builder
      BY <1>2 DEF U!GetMdu0
    <2>2. PICK r, m : r = runs[i] /\ m = builder
      OBVIOUS
    <2>3. RunTyped(r) /\ IsList(m.table)
      BY <1>0, <2>2
    <2>4. PICK q : q = [[r EXCEPT !.phase = "manifest"] EXCEPT !.mdu0 = m]
      OBVIOUS
    <2>5. runs' = Replaced(runs, i, q)
      BY <1>0, <2>1, <2>2, <2>4 DEF Replaced, RunTypes, IsList
    <2>6. q = [file |-> r.file, deal |-> r.deal, mode2 |-> r.mode2, phase |-> "manifest",
               base |-> r.base, table |-> r.table, mdu0 |-> m]
      BY <2>3, <2>4, RunRead DEF RunTyped
    <2>7. RunTyped(q)
      BY <2>3, <2>6 DEF RunTyped, RunOf, Phases
    <2>8. QED
      BY <1>0, <2>1, <2>5, <2>7, RunPutTyped
  <1>3. CASE \E p \in Phases : U!ToPhase(i, p)
    <2>1. BuilderRec(builder') /\ IsList(builder'.table)
      <3>1. CASE U!InitBuilder(i)
        <4>1. builder' = [table |-> runs[i].table, roots |-> <<>>]
          BY <3>1 DEF U!InitBuilder
        <4>2. QED
          BY <1>0, <4>1 DEF BuilderRec, RunTyped
      <3>2. CASE U!SetRoots(i)
        <4>1. builder' = [builder EXCEPT !.roots = U!RunUsers(runs[i])]
          BY <3>2 DEF U!SetRoots
        <4>2. builder' = [table |-> builder.table, roots |-> U!RunUsers(runs[i])]
          BY <1>0, <4>1 DEF BuilderRec
        <4>3. QED
          BY <1>0, <4>2 DEF BuilderRec
      <3>3. CASE U!AppendRecord(i)
        <4>1. PICK t : t = Append(builder.table, runs[i].file)
          OBVIOUS
        <4>2. builder' = [builder EXCEPT !.table = t]
          BY <3>3, <4>1 DEF U!AppendRecord
        <4>3. builder' = [table |-> t, roots |-> builder.roots]
          BY <1>0, <4>2 DEF BuilderRec
        <4>4. IsList(t)
          BY <1>0, <4>1, ListAppend DEF Appended
        <4>5. QED
          BY <4>3, <4>4 DEF BuilderRec
      <3>4. CASE builder' = builder
        BY <1>0, <3>4
      <3>5. QED
        BY <3>1, <3>2, <3>3, <3>4 DEF U!RunStep, U!GatewayIngest, U!GatewayUnreachable, U!RunFails,
           U!FileUnreadable, U!WasmReady, U!ReadBase, U!ShardUsers, U!GetMdu0, U!FinishRun
    <2>2. QED
      BY <1>0, <1>3, <2>1, PhaseTyped
  <1>4. QED
    BY <1>1, <1>2, <1>3 DEF Phases, U!RunStep, U!GatewayIngest, U!GatewayUnreachable, U!RunFails,
       U!FileUnreadable, U!WasmReady, U!InitBuilder, U!ShardUsers, U!SetRoots, U!AppendRecord,
       U!FinishRun

LEMMA PickTypes ==
    ASSUME TypesInv, NEW f, U!PickFile(f) PROVE RunTypes' /\ PanelTypes'
  <1>1. PICK x : /\ x = [file |-> f, deal |-> dealId, mode2 |-> stripe,
                         phase |-> IF stripe /\ GatewayEnabled THEN "gateway" ELSE "wasm",
                         base |-> <<>>, table |-> <<>>,
                         mdu0 |-> [table |-> <<>>, roots |-> <<>>]]
                 /\ runs' = Append(runs, x)
    BY DEF U!PickFile
  <1>2. RunTyped(x)
    BY <1>1, ListNil DEF RunTyped, RunOf, Phases, TypesInv, LoadTypes
  <1>3. /\ IsList(runs') /\ Len(runs') = Len(runs) + 1
        /\ \A j \in 1..Len(runs) : runs'[j] = runs[j]
        /\ runs'[Len(runs) + 1] = x
    <2>1. IsList(runs) /\ runs' = Appended(runs, x)
      BY <1>1 DEF Appended, TypesInv, RunTypes
    <2>2. QED
      BY <2>1, ListAppend
  <1>4. builder' = builder /\ Len(runs) < MaxRuns
    BY PickFrame DEF U!PickFile
  <1>5. Len(runs) \in Nat
    BY DEF TypesInv, RunTypes, IsList
  <1>6. RunTypes'
    BY <1>2, <1>3, <1>4, <1>5, SharderConstants DEF TypesInv, RunTypes
  <1>7. PICK g \in BOOLEAN : g = (stripe /\ GatewayEnabled)
    BY SharderConstants DEF TypesInv, LoadTypes
  <1>8. panel' = [panel EXCEPT !.root = U!NoSlab, !.mdus = U!NoSlab, !.shards = {},
                          !.processing = TRUE, !.progress = <<>>, !.isUploading = FALSE,
                          !.mode2Uploading = g, !.mode2UploadComplete = FALSE]
    BY <1>7, Zenon DEF U!PickFile
  <1>9. panel' = PanelOf(U!NoSlab, U!NoSlab, {}, TRUE, <<>>, FALSE, g, FALSE, panel.mirror)
    <2>1. PanelRec(panel)
      BY DEF TypesInv, PanelTypes
    <2>2. QED
      BY <1>8, <2>1, PanelPicked
  <1>10. PanelTypes'
    <2>1. PICK x0, l : x0 = panel.mirror /\ l = <<>>
      OBVIOUS
    <2>2. IsList(l) /\ Len(l) = 0
      BY <2>1, ListNil
    <2>3. \A k \in 1..Len(l) : l[k] \in {"pending", "complete", "error"}
      BY <2>2
    <2>4. panel' = PanelOf(U!NoSlab, U!NoSlab, {}, TRUE, l, FALSE, g, FALSE, x0)
      BY <1>9, <2>1
    <2>5. QED
      BY <2>2, <2>3, <2>4, PanelTyped, NoSlabIsSlab
  <1>11. QED
    BY <1>6, <1>10

LEMMA SlabMade ==
    ASSUME NEW users, IsList(users), NEW table, IsList(table), NEW b \in Nat, NEW m,
           m \in BOOLEAN, NEW roots, NEW s,
           s = [mode2 |-> m, base |-> b, users |-> users, table |-> table, roots |-> roots]
    PROVE  IsSlab(s) /\ s.mode2 = m /\ s.base = b /\ s.users = users
  <1>1. s.mode2 = m /\ s.base = b /\ s.users = users /\ s.table = table
    OBVIOUS
  <1>2. QED
    BY <1>1 DEF IsSlab

LEMMA CurrentIsSlab ==
    ASSUME ChainTypes, NEW d \in PanelDeals PROVE IsSlab(U!Current(d))
  <1>1. CASE committed[d] = <<>>
    BY <1>1, NoSlabIsSlab DEF U!Current
  <1>2. CASE committed[d] # <<>>
    <2>1. Len(committed[d]) \in Nat \ {0}
      BY <1>2, ListEmpty DEF ChainTypes, IsList
    <2>2. QED
      BY <1>2, <2>1 DEF ChainTypes, U!Current
  <1>3. QED
    BY <1>1, <1>2

LEMMA SlabOfIsSlab ==
    ASSUME NEW m, m \in BOOLEAN, NEW b \in Nat, NEW users, IsList(users), NEW s,
           s = U!SlabOf(m, b, users)
    PROVE  IsSlab(s) /\ s.mode2 = m /\ s.base = b /\ s.users = users
  BY SlabMade DEF U!SlabOf

\* The slab the gateway makes, and the one that a run makes.
Ingested(i) ==
    LET old == U!Current(runs[i].deal).users
    IN  U!SlabOf(TRUE, Len(old), Append(old, runs[i].file))

LEMMA IngestedSlab ==
    ASSUME TypesInv, NEW i \in 1..Len(runs), NEW s, s = Ingested(i)
    PROVE  IsSlab(s) /\ s.mode2 /\ Len(s.users) = s.base + 1 /\ s # U!NoSlab
  <1>1. PICK old, f, new : /\ old = U!Current(runs[i].deal).users /\ f = runs[i].file
                           /\ new = Append(old, f)
    OBVIOUS
  <1>2. runs[i].deal \in PanelDeals
    BY DEF TypesInv, RunTypes, RunTyped
  <1>3. IsList(old) /\ Len(old) \in Nat
    BY <1>1, <1>2, CurrentIsSlab DEF TypesInv, IsSlab, IsList
  <1>4. IsList(new) /\ Len(new) = Len(old) + 1
    <2>1. new = Appended(old, f)
      BY <1>1 DEF Appended
    <2>2. QED
      BY <1>3, <2>1, ListAppend
  <1>5. s = U!SlabOf(TRUE, Len(old), new)
    BY <1>1, Zenon DEF Ingested
  <1>6. IsSlab(s) /\ s.mode2 /\ s.base = Len(old) /\ s.users = new
    <2>1. PICK m : m \in BOOLEAN /\ m = TRUE
      OBVIOUS
    <2>2. s = U!SlabOf(m, Len(old), new)
      BY <1>5, <2>1, Zenon
    <2>3. m \in BOOLEAN
      BY <2>1
    <2>4. IsSlab(s) /\ s.mode2 = m /\ s.base = Len(old) /\ s.users = new
      BY <1>3, <1>4, <2>2, <2>3, SlabOfIsSlab
    <2>5. QED
      BY <2>1, <2>4, Zenon
  <1>7. s # U!NoSlab
    <2>1. ~U!NoSlab.mode2
      BY Zenon DEF U!NoSlab
    <2>2. QED
      BY <1>6, <2>1, Zenon
  <1>8. QED
    BY <1>4, <1>6, <1>7, Zenon

LEMMA FinishedSlab ==
    ASSUME TypesInv, NEW i \in 1..Len(runs), NEW s,
           s = [mode2 |-> runs[i].mode2, base |-> Len(runs[i].base),
                users |-> U!RunUsers(runs[i]), table |-> runs[i].mdu0.table,
                roots |-> runs[i].mdu0.roots]
    PROVE  /\ IsSlab(s) /\ s.mode2 = runs[i].mode2 /\ s.base = Len(runs[i].base)
           /\ Len(s.users) = s.base + 1 /\ s # U!NoSlab
  <1>1. RunTyped(runs[i])
    BY DEF TypesInv, RunTypes
  <1>2. PICK users : users = Append(runs[i].base, runs[i].file)
    OBVIOUS
  <1>3. IsList(users) /\ Len(users) = Len(runs[i].base) + 1 /\ Len(runs[i].base) \in Nat
    BY <1>1, <1>2, ListAppend DEF Appended, RunTyped, IsList
  <1>4. s = [mode2 |-> runs[i].mode2, base |-> Len(runs[i].base), users |-> users,
             table |-> runs[i].mdu0.table, roots |-> runs[i].mdu0.roots]
    BY <1>2 DEF U!RunUsers
  <1>5. IsSlab(s)
    BY <1>1, <1>3, <1>4, SlabMade DEF RunTyped
  <1>6. s.mode2 = runs[i].mode2 /\ s.base = Len(runs[i].base) /\ s.users = users
    BY <1>4
  <1>7. Len(U!NoSlab.users) = 0
    BY DEF U!NoSlab
  <1>8. QED
    BY <1>3, <1>5, <1>6, <1>7

\* The panel keeps its types when only these parts of it change.
LEMMA PanelTypedAs ==
    ASSUME PanelTypes, NEW r, IsSlab(r), NEW m, IsSlab(m), m # U!NoSlab => m = r, NEW s,
           NEW b \in BOOLEAN, NEW u2 \in BOOLEAN, NEW c2 \in BOOLEAN,
           panel' = PanelOf(r, m, s, b, panel.progress, panel.isUploading, u2, c2, panel.mirror)
    PROVE  PanelTypes'
  <1>1. PICK g, u, x : g = panel.progress /\ u = panel.isUploading /\ x = panel.mirror
    OBVIOUS
  <1>2. /\ u \in BOOLEAN /\ IsList(g)
        /\ \A k \in 1..Len(g) : g[k] \in {"pending", "complete", "error"}
    BY <1>1, Zenon DEF PanelTypes
  <1>3. panel' = PanelOf(r, m, s, b, g, u, u2, c2, x)
    BY <1>1
  <1>4. QED
    BY <1>2, <1>3, PanelTyped

LEMMA PanelParts ==
    ASSUME PanelTypes
    PROVE  /\ IsSlab(panel.root) /\ IsSlab(panel.mdus)
           /\ panel.mdus # U!NoSlab => panel.mdus = panel.root
           /\ panel.processing \in BOOLEAN /\ panel.isUploading \in BOOLEAN
           /\ panel.mode2Uploading \in BOOLEAN /\ panel.mode2UploadComplete \in BOOLEAN
           /\ PanelRec(panel)
  BY Zenon DEF PanelTypes

LEMMA IngestStep ==
    ASSUME TypesInv, NEW i \in 1..Len(runs), U!GatewayIngest(i)
    PROVE  \E s : /\ IsSlab(s) /\ s.mode2 /\ Len(s.users) = s.base + 1 /\ s # U!NoSlab
                  /\ panel' = PanelOf(s, U!NoSlab, {}, FALSE, panel.progress, panel.isUploading,
                                      FALSE, TRUE, panel.mirror)
                  /\ stored' = stored \cup U!AllPieces(runs[i].deal, s)
                  /\ runs[i].phase = "gateway" /\ U!ToPhase(i, "over")
  <1>1. PICK s :
          /\ s = Ingested(i)
          /\ panel' = [panel EXCEPT !.root = s, !.mdus = U!NoSlab, !.shards = {},
                          !.processing = FALSE, !.mode2Uploading = FALSE,
                          !.mode2UploadComplete = TRUE]
          /\ stored' = stored \cup U!AllPieces(runs[i].deal, s)
          /\ runs[i].phase = "gateway" /\ U!ToPhase(i, "over")
    BY Zenon DEF U!GatewayIngest, U!Step, Ingested
  <1>2. PanelRec(panel)
    BY PanelParts DEF TypesInv
  <1>3. panel' = PanelOf(s, U!NoSlab, {}, FALSE, panel.progress, panel.isUploading, FALSE, TRUE,
                         panel.mirror)
    BY <1>1, <1>2, PanelIngested
  <1>4. IsSlab(s) /\ s.mode2 /\ Len(s.users) = s.base + 1 /\ s # U!NoSlab
    BY <1>1, IngestedSlab, Zenon
  <1>5. QED
    BY <1>1, <1>3, <1>4, Zenon

LEMMA FinishStep ==
    ASSUME TypesInv, NEW i \in 1..Len(runs), U!FinishRun(i)
    PROVE  \E s : /\ IsSlab(s) /\ s.mode2 = runs[i].mode2 /\ s.base = Len(runs[i].base)
                  /\ Len(s.users) = s.base + 1 /\ s # U!NoSlab
                  /\ panel' = PanelOf(s, s, panel.shards, FALSE, panel.progress,
                                      panel.isUploading, panel.mode2Uploading,
                                      panel.mode2UploadComplete, panel.mirror)
                  /\ stored' = stored
                  /\ runs[i].phase = "manifest" /\ U!ToPhase(i, "over")
  <1>1. PICK s : /\ s = [mode2 |-> runs[i].mode2, base |-> Len(runs[i].base),
                         users |-> U!RunUsers(runs[i]), table |-> runs[i].mdu0.table,
                         roots |-> runs[i].mdu0.roots]
                 /\ panel' = [panel EXCEPT !.root = s, !.mdus = s, !.processing = FALSE]
                 /\ stored' = stored
                 /\ runs[i].phase = "manifest" /\ U!ToPhase(i, "over")
    BY Zenon DEF U!FinishRun, U!Step
  <1>2. PanelRec(panel)
    BY PanelParts DEF TypesInv
  <1>3. panel' = PanelOf(s, s, panel.shards, FALSE, panel.progress, panel.isUploading,
                         panel.mode2Uploading, panel.mode2UploadComplete, panel.mirror)
    BY <1>1, <1>2, PanelFinished
  <1>4. /\ IsSlab(s) /\ s.mode2 = runs[i].mode2 /\ s.base = Len(runs[i].base)
        /\ Len(s.users) = s.base + 1 /\ s # U!NoSlab
    BY <1>1, FinishedSlab
  <1>5. QED
    BY <1>1, <1>3, <1>4, Zenon

\* How each other step of a run sets the panel.
LEMMA RunPanel ==
    ASSUME TypesInv, NEW i \in 1..Len(runs), U!RunStep(i)
    PROVE  \/ U!GatewayIngest(i) \/ U!FinishRun(i)
           \/ /\ U!ShardUsers(i) /\ runs[i].mode2
              /\ panel' = PanelOf(panel.root, panel.mdus, {Len(U!RunUsers(runs[i]))},
                                  panel.processing, panel.progress, panel.isUploading,
                                  panel.mode2Uploading, panel.mode2UploadComplete, panel.mirror)
              /\ stored' = stored
              /\ runs[i].phase = "users" /\ U!ToPhase(i, "roots")
           \/ /\ U!GatewayUnreachable(i) \/ U!RunFails(i)
              /\ \E b, u2 \in BOOLEAN :
                   panel' = PanelOf(panel.root, panel.mdus, panel.shards, b, panel.progress,
                                    panel.isUploading, u2, panel.mode2UploadComplete, panel.mirror)
              /\ stored' = stored
           \/ /\ UNCHANGED <<panel, stored>>
              /\ \/ U!FileUnreadable(i) \/ U!WasmReady(i) \/ U!ReadBase(i) \/ U!InitBuilder(i)
                 \/ U!SetRoots(i) \/ U!AppendRecord(i) \/ U!GetMdu0(i)
                 \/ U!ShardUsers(i) /\ ~runs[i].mode2
  <1>0. PanelTypes /\ PanelRec(panel)
    BY PanelParts DEF TypesInv
  <1>3. CASE U!ShardUsers(i) /\ runs[i].mode2
    <2>1. PICK a : /\ a = {Len(U!RunUsers(runs[i]))} /\ panel' = [panel EXCEPT !.shards = a]
                   /\ stored' = stored /\ runs[i].phase = "users" /\ U!ToPhase(i, "roots")
      BY <1>3 DEF U!ShardUsers, U!Step
    <2>2. panel' = PanelOf(panel.root, panel.mdus, a, panel.processing, panel.progress,
                           panel.isUploading, panel.mode2Uploading, panel.mode2UploadComplete,
                           panel.mirror)
      BY <1>0, <2>1, PanelSharded
    <2>3. QED
      BY <1>3, <2>1, <2>2, Zenon
  <1>4. CASE U!GatewayUnreachable(i)
    <2>1. panel' = [panel EXCEPT !.mode2Uploading = FALSE] /\ stored' = stored
      BY <1>4 DEF U!GatewayUnreachable
    <2>2. panel' = PanelOf(panel.root, panel.mdus, panel.shards, panel.processing, panel.progress,
                           panel.isUploading, FALSE, panel.mode2UploadComplete, panel.mirror)
      BY <1>0, <2>1, PanelUnreached
    <2>3. panel.processing \in BOOLEAN
      BY <1>0, PanelParts
    <2>4. QED
      BY <1>4, <2>1, <2>2, <2>3, Zenon
  <1>5. CASE U!RunFails(i)
    <2>1. PICK u2 : /\ panel' = [panel EXCEPT !.processing = FALSE, !.mode2Uploading = u2]
                    /\ stored' = stored /\ (u2 = FALSE \/ u2 = panel.mode2Uploading)
      BY <1>5, Zenon DEF U!RunFails
    <2>2. panel' = PanelOf(panel.root, panel.mdus, panel.shards, FALSE, panel.progress,
                           panel.isUploading, u2, panel.mode2UploadComplete, panel.mirror)
      BY <1>0, <2>1, PanelFailed
    <2>3. u2 \in BOOLEAN
      BY <1>0, <2>1, PanelParts
    <2>4. QED
      BY <1>5, <2>1, <2>2, <2>3, Zenon
  <1>6. CASE U!FileUnreadable(i) \/ U!WasmReady(i) \/ U!ReadBase(i) \/ U!InitBuilder(i)
             \/ U!SetRoots(i) \/ U!AppendRecord(i) \/ U!GetMdu0(i)
    BY <1>6, Zenon DEF U!FileUnreadable, U!WasmReady, U!ReadBase, U!InitBuilder, U!SetRoots,
                U!AppendRecord, U!GetMdu0
  <1>7. CASE U!ShardUsers(i) /\ ~runs[i].mode2
    <2>1. UNCHANGED <<panel, stored>>
      BY <1>7 DEF U!ShardUsers
    <2>2. QED
      BY <1>7, <2>1, Zenon
  <1>8. QED
    BY <1>3, <1>4, <1>5, <1>6, <1>7, Zenon DEF U!RunStep

LEMMA RunPanelTypes ==
    ASSUME TypesInv, NEW i \in 1..Len(runs), U!RunStep(i) PROVE PanelTypes'
  <1>0. PanelTypes
    BY DEF TypesInv
  <1>1. ASSUME NEW s, IsSlab(s), NEW m, m = s \/ m = U!NoSlab, NEW h, NEW u2 \in BOOLEAN,
               NEW c2 \in BOOLEAN,
               panel' = PanelOf(s, m, h, FALSE, panel.progress, panel.isUploading, u2, c2,
                                panel.mirror)
        PROVE  PanelTypes'
    BY <1>0, <1>1, PanelTypedAs, NoSlabIsSlab
  <1>2. ASSUME NEW h, NEW b \in BOOLEAN, NEW u2 \in BOOLEAN,
               panel' = PanelOf(panel.root, panel.mdus, h, b, panel.progress, panel.isUploading,
                                u2, panel.mode2UploadComplete, panel.mirror)
        PROVE  PanelTypes'
    <2>1. PICK r, m, c2 : r = panel.root /\ m = panel.mdus /\ c2 = panel.mode2UploadComplete
      OBVIOUS
    <2>2. IsSlab(r) /\ IsSlab(m) /\ (m # U!NoSlab => m = r) /\ c2 \in BOOLEAN
      BY <1>0, <2>1, PanelParts, Zenon
    <2>3. panel' = PanelOf(r, m, h, b, panel.progress, panel.isUploading, u2, c2, panel.mirror)
      BY <1>2, <2>1
    <2>4. QED
      BY <1>0, <2>2, <2>3, PanelTypedAs
  <1>3. CASE UNCHANGED panel
    BY <1>0, <1>3 DEF PanelTypes
  <1>4. panel.processing \in BOOLEAN /\ panel.mode2Uploading \in BOOLEAN
        /\ panel.mode2UploadComplete \in BOOLEAN
    BY <1>0, PanelParts
  <1>5. CASE U!GatewayIngest(i)
    <2>1. PICK s : /\ IsSlab(s)
                   /\ panel' = PanelOf(s, U!NoSlab, {}, FALSE, panel.progress, panel.isUploading,
                                       FALSE, TRUE, panel.mirror)
      BY <1>5, IngestStep
    <2>2. QED
      BY <1>1, <2>1
  <1>6. CASE U!FinishRun(i)
    <2>1. PICK s : /\ IsSlab(s)
                   /\ panel' = PanelOf(s, s, panel.shards, FALSE, panel.progress,
                                       panel.isUploading, panel.mode2Uploading,
                                       panel.mode2UploadComplete, panel.mirror)
      BY <1>6, FinishStep
    <2>2. QED
      BY <1>1, <1>4, <2>1
  <1>7. QED
    BY <1>2, <1>3, <1>4, <1>5, <1>6, RunPanel, Zenon

LEMMA MarkedList ==
    ASSUME NEW g, IsList(g), NEW p, NEW st, NEW h, h = U!Marked(g, p, st)
    PROVE  /\ IsList(h) /\ Len(h) = Len(g)
           /\ \A k \in 1..Len(g) :
                h[k] = IF IF p = U!Manifest THEN k = Len(g) ELSE k = p + 1 /\ k < Len(g)
                       THEN st ELSE g[k]
  <1>1. Len(g) \in Nat
    BY DEF IsList
  <1>2. h = [k \in 1..Len(g) |->
               IF IF p = U!Manifest THEN k = Len(g) ELSE k = p + 1 /\ k < Len(g)
               THEN st ELSE g[k]]
    BY DEF U!Marked
  <1>3. h = [k \in 1..Len(g) |-> h[k]]
    BY <1>2
  <1>4. IsList(h) /\ Len(h) = Len(g)
    BY <1>1, <1>3, ListFun
  <1>5. QED
    BY <1>2, <1>4

LEMMA MduPiecesList ==
    ASSUME NEW users, IsList(users), NEW todo, todo = U!MduPieces(users)
    PROVE  /\ IsList(todo) /\ Len(todo) = Len(users) + 2
           /\ \A j \in 1..Len(todo) :
                \E p \in {U!Manifest} \cup 0..Len(users) : todo[j] = <<1, p>>
  <1>1. PICK n \in Nat : n = Len(users)
    BY DEF IsList
  <1>2. PICK a, b : a = [k \in 1..(n + 1) |-> <<1, k - 1>>] /\ b = << <<1, U!Manifest>> >>
    OBVIOUS
  <1>3. IsList(a) /\ Len(a) = n + 1
    BY <1>2, ListFun
  <1>4. IsList(b) /\ Len(b) = 1 /\ b[1] = <<1, U!Manifest>>
    <2>1. Len(b) = 1 /\ b[1] = <<1, U!Manifest>>
      BY <1>2
    <2>2. b = [j \in 1..1 |-> b[j]]
      BY <1>2
    <2>3. QED
      BY <2>1, <2>2, ListFun
  <1>5. todo = Joined(a, b)
    BY <1>1, <1>2 DEF U!MduPieces, Joined
  <1>6. /\ IsList(todo) /\ Len(todo) = Len(a) + Len(b)
        /\ \A j \in 1..Len(todo) :
             \/ j \in 1..Len(a) /\ todo[j] = a[j]
             \/ j - Len(a) \in 1..Len(b) /\ todo[j] = b[j - Len(a)]
    <2>1. IsList(a) /\ IsList(b)
      BY <1>3, <1>4
    <2>2. QED
      BY <1>5, <2>1, ListConcat
  <1>7. ASSUME NEW j \in 1..Len(todo)
        PROVE  \E p \in {U!Manifest} \cup 0..n : todo[j] = <<1, p>>
    <2>1. CASE j \in 1..Len(a) /\ todo[j] = a[j]
      <3>1. todo[j] = <<1, j - 1>> /\ j - 1 \in 0..n
        BY <1>2, <1>3, <2>1
      <3>2. QED
        BY <3>1, Zenon
    <2>2. CASE j - Len(a) \in 1..Len(b) /\ todo[j] = b[j - Len(a)]
      <3>1. j - Len(a) = 1
        BY <1>3, <1>4, <2>2
      <3>2. todo[j] = <<1, U!Manifest>>
        BY <1>4, <2>2, <3>1
      <3>3. QED
        BY <3>2, Zenon
    <2>3. QED
      BY <1>6, <2>1, <2>2
  <1>8. QED
    BY <1>1, <1>3, <1>4, <1>6, <1>7

\* How a step of an upload sets the panel.
LEMMA UploadPanel ==
    ASSUME TypesInv, U!Upload, NEW todo,
           todo = IF stripe THEN U!StripePieces(panel.shards) ELSE U!MduPieces(panel.mdus.users)
    PROVE  /\ uploads' = Append(uploads, [slab |-> panel.root, deal |-> dealId, at |-> bases,
                                          mode2 |-> stripe, todo |-> todo, ok |-> TRUE])
           /\ stripe => panel' = PanelOf(panel.root, panel.mdus, panel.shards, panel.processing,
                                         panel.progress, panel.isUploading, TRUE, FALSE,
                                         panel.mirror)
           /\ ~stripe => \E g : /\ g = [k \in 1..Len(todo) |-> "pending"]
                                /\ panel' = PanelOf(panel.root, panel.mdus, panel.shards,
                                              panel.processing, g, TRUE, panel.mode2Uploading,
                                              panel.mode2UploadComplete, panel.mirror)
  <1>1. PanelRec(panel)
    BY PanelParts DEF TypesInv
  <1>2. uploads' = Append(uploads, [slab |-> panel.root, deal |-> dealId, at |-> bases,
                                    mode2 |-> stripe, todo |-> todo, ok |-> TRUE])
    BY Zenon DEF U!Upload
  <1>3. ASSUME stripe
        PROVE  panel' = PanelOf(panel.root, panel.mdus, panel.shards, panel.processing,
                                panel.progress, panel.isUploading, TRUE, FALSE, panel.mirror)
    <2>1. panel' = [panel EXCEPT !.mode2Uploading = TRUE, !.mode2UploadComplete = FALSE]
      BY <1>3 DEF U!Upload
    <2>2. QED
      BY <1>1, <2>1, PanelSent2
  <1>4. ASSUME ~stripe
        PROVE  \E g : /\ g = [k \in 1..Len(todo) |-> "pending"]
                      /\ panel' = PanelOf(panel.root, panel.mdus, panel.shards,
                                          panel.processing, g, TRUE, panel.mode2Uploading,
                                          panel.mode2UploadComplete, panel.mirror)
    <2>1. PICK g : /\ g = [k \in 1..Len(todo) |-> "pending"]
                   /\ panel' = [panel EXCEPT !.isUploading = TRUE, !.progress = g]
      BY <1>4 DEF U!Upload
    <2>2. QED
      BY <1>1, <2>1, PanelSent
  <1>5. QED
    BY <1>2, <1>3, <1>4, Zenon

\* The panel after a piece of upload u was answered: of a stripe, and of MDUs.
ShardAnswered(u, ok) ==
    \E x, a, b :
      /\ a \in BOOLEAN /\ b \in BOOLEAN
      /\ U!Rest(u, ok) # <<>> => a = panel.mode2Uploading
      /\ b => panel.mode2UploadComplete \/ (ok /\ U!Rest(u, ok) = <<>>)
      /\ panel' = PanelOf(panel.root, panel.mdus, panel.shards, panel.processing,
                          panel.progress, panel.isUploading, a, b, x)

MduAnswered(u, ok) ==
    \E x, g, a, st :
      /\ st \in {"complete", "error"} /\ (st = "complete" => ok)
      /\ g = U!Marked(panel.progress, Head(u.todo)[2], st)
      /\ a \in BOOLEAN
      /\ U!Rest(u, ok) # <<>> => a = panel.isUploading
      /\ panel' = PanelOf(panel.root, panel.mdus, panel.shards, panel.processing,
                          g, a, panel.mode2Uploading, panel.mode2UploadComplete, x)

LEMMA ShardPanel ==
    ASSUME TypesInv, NEW k \in 1..Len(uploads), NEW ok \in BOOLEAN, U!UploadPiece(k, ok), NEW u,
           u = uploads[k], u.mode2
    PROVE  ShardAnswered(u, ok)
  <1>0. PanelRec(panel) /\ panel.mode2Uploading \in BOOLEAN /\ panel.mode2UploadComplete \in BOOLEAN
    BY PanelParts DEF TypesInv
  <1>1. PICK w : w = U!Shown(u, ok)
    OBVIOUS
  <1>2. panel' = w \/ \E a : panel' = [w EXCEPT !.mirror = a]
    BY <1>1 DEF U!UploadPiece
  <1>3. PICK a, b :
          /\ a = IF U!Rest(u, ok) = <<>> THEN FALSE ELSE panel.mode2Uploading
          /\ b = IF U!Rest(u, ok) = <<>> /\ ok THEN TRUE ELSE panel.mode2UploadComplete
    OBVIOUS
  <1>4. w = [panel EXCEPT !.mode2Uploading = a, !.mode2UploadComplete = b]
    BY <1>1, <1>3, Zenon DEF U!Shown
  <1>5. a \in BOOLEAN /\ b \in BOOLEAN
    BY <1>0, <1>3
  <1>6. /\ U!Rest(u, ok) # <<>> => a = panel.mode2Uploading
        /\ b => panel.mode2UploadComplete \/ (ok /\ U!Rest(u, ok) = <<>>)
    BY <1>0, <1>3, Zenon
  <1>7. w = PanelOf(panel.root, panel.mdus, panel.shards, panel.processing, panel.progress,
                    panel.isUploading, a, b, panel.mirror)
    BY <1>0, <1>4, PanelSent2
  <1>8. PICK x : panel' = PanelOf(panel.root, panel.mdus, panel.shards, panel.processing,
                                  panel.progress, panel.isUploading, a, b, x)
    BY <1>2, <1>7 DEF PanelOf
  <1>9. QED
    BY <1>5, <1>6, <1>8, Zenon DEF ShardAnswered

LEMMA MduPanel ==
    ASSUME TypesInv, NEW k \in 1..Len(uploads), NEW ok \in BOOLEAN, U!UploadPiece(k, ok), NEW u,
           u = uploads[k], ~u.mode2
    PROVE  MduAnswered(u, ok)
  <1>0. PanelRec(panel) /\ panel.isUploading \in BOOLEAN
    BY PanelParts DEF TypesInv
  <1>1. PICK w : w = U!Shown(u, ok)
    OBVIOUS
  <1>2. panel' = w \/ \E a : panel' = [w EXCEPT !.mirror = a]
    BY <1>1 DEF U!UploadPiece
  <1>3. PICK st, g, a :
          /\ st = IF ok THEN "complete" ELSE "error"
          /\ g = U!Marked(panel.progress, Head(u.todo)[2], st)
          /\ a = IF U!Rest(u, ok) = <<>> THEN FALSE ELSE panel.isUploading
    OBVIOUS
  <1>4. w = [panel EXCEPT !.progress = g, !.isUploading = a]
    BY <1>1, <1>3, Zenon DEF U!Shown
  <1>5. a \in BOOLEAN /\ st \in {"complete", "error"} /\ (st = "complete" => ok)
    BY <1>0, <1>3
  <1>6. U!Rest(u, ok) # <<>> => a = panel.isUploading
    BY <1>0, <1>3, Zenon
  <1>7. w = PanelOf(panel.root, panel.mdus, panel.shards, panel.processing, g, a,
                    panel.mode2Uploading, panel.mode2UploadComplete, panel.mirror)
    BY <1>0, <1>4, PanelMarked
  <1>8. PICK x : panel' = PanelOf(panel.root, panel.mdus, panel.shards, panel.processing,
                                  g, a, panel.mode2Uploading, panel.mode2UploadComplete, x)
    BY <1>2, <1>7 DEF PanelOf
  <1>9. QED
    BY <1>3, <1>5, <1>6, <1>8, Zenon DEF MduAnswered

LEMMA SendTypesKept ==
    ASSUME TypesInv, SendStep PROVE PanelTypes' /\ UploadTypes'
  <1>0. PanelTypes /\ UploadTypes /\ PanelRec(panel)
    BY PanelParts DEF TypesInv
  <1>1. ASSUME NEW g, IsList(g), \A j \in 1..Len(g) : g[j] \in {"pending", "complete", "error"},
               NEW a, a \in BOOLEAN, NEW b, b \in BOOLEAN, NEW c, c \in BOOLEAN, NEW x,
               panel' = PanelOf(panel.root, panel.mdus, panel.shards, panel.processing, g, a, b, c,
                                x)
        PROVE  PanelTypes'
    <2>1. PICK r, m, h, y : /\ r = panel.root /\ m = panel.mdus /\ h = panel.shards
                            /\ y = panel.processing
      OBVIOUS
    <2>2. IsSlab(r) /\ IsSlab(m) /\ (m # U!NoSlab => m = r) /\ y \in BOOLEAN
      BY <1>0, <2>1, PanelParts, Zenon
    <2>3. panel' = PanelOf(r, m, h, y, g, a, b, c, x)
      BY <1>1, <2>1
    <2>4. QED
      BY <1>1, <2>2, <2>3, PanelTyped
  <1>2. /\ IsList(panel.progress)
        /\ \A j \in 1..Len(panel.progress) : panel.progress[j] \in {"pending", "complete", "error"}
        /\ panel.isUploading \in BOOLEAN /\ panel.mode2Uploading \in BOOLEAN
        /\ panel.mode2UploadComplete \in BOOLEAN
    BY <1>0, Zenon DEF PanelTypes
  <1>3. CASE U!Upload
    <2>1. PICK todo : todo = IF stripe THEN U!StripePieces(panel.shards)
                             ELSE U!MduPieces(panel.mdus.users)
      OBVIOUS
    <2>2. PICK u, t : /\ t = TRUE
                      /\ u = [slab |-> panel.root, deal |-> dealId, at |-> bases,
                              mode2 |-> stripe, todo |-> todo, ok |-> t]
                      /\ uploads' = Append(uploads, u)
      BY <1>3, <2>1, UploadPanel
    <2>3. t \in BOOLEAN /\ stripe \in BOOLEAN
      BY <2>2 DEF TypesInv, LoadTypes
    <2>4. /\ IsList(uploads') /\ Len(uploads') = Len(uploads) + 1
          /\ \A j \in 1..Len(uploads) : uploads'[j] = uploads[j]
          /\ uploads'[Len(uploads) + 1] = u
      <3>1. IsList(uploads) /\ uploads' = Appended(uploads, u)
        BY <1>0, <2>2 DEF Appended, UploadTypes
      <3>2. QED
        BY <3>1, ListAppend
    <2>5. Len(uploads) < MaxUploads /\ Len(uploads) \in Nat
      BY <1>0, <1>3 DEF U!Upload, UploadTypes, IsList
    <2>6. u = UploadOf(u) /\ u.ok = t /\ u.mode2 = stripe
      BY <2>2 DEF UploadOf
    <2>7. u.ok \in BOOLEAN /\ u.mode2 \in BOOLEAN
      BY <2>3, <2>6
    <2>8. UploadTypes'
      <3>1. \A j \in 1..Len(uploads') : j \in 1..Len(uploads) \/ j = Len(uploads) + 1
        BY <2>4, <2>5
      <3>2. \A j \in 1..Len(uploads') :
              /\ uploads'[j] = UploadOf(uploads'[j])
              /\ uploads'[j].ok \in BOOLEAN /\ uploads'[j].mode2 \in BOOLEAN
        BY <1>0, <2>4, <2>6, <2>7, <3>1 DEF UploadTypes
      <3>3. Len(uploads') <= MaxUploads
        BY <2>4, <2>5, SharderConstants
      <3>4. QED
        BY <2>4, <3>2, <3>3 DEF UploadTypes
    <2>9. CASE stripe
      <3>1. panel' = PanelOf(panel.root, panel.mdus, panel.shards, panel.processing,
                             panel.progress, panel.isUploading, TRUE, FALSE, panel.mirror)
        BY <1>3, <2>1, <2>9, UploadPanel
      <3>2. PanelTypes'
        BY <1>1, <1>2, <3>1
      <3>3. QED
        BY <2>8, <3>2
    <2>10. CASE ~stripe
      <3>1. PICK g : /\ g = [k \in 1..Len(todo) |-> "pending"]
                     /\ panel' = PanelOf(panel.root, panel.mdus, panel.shards, panel.processing, g,
                                         TRUE, panel.mode2Uploading, panel.mode2UploadComplete,
                                         panel.mirror)
        BY <1>3, <2>1, <2>10, UploadPanel
      <3>2. IsList(panel.mdus.users) /\ todo = U!MduPieces(panel.mdus.users)
        BY <1>0, <2>1, <2>10 DEF PanelTypes, IsSlab
      <3>3. Len(todo) \in Nat
        BY <3>2, MduPiecesList DEF IsList
      <3>4. IsList(g) /\ Len(g) = Len(todo)
        BY <3>1, <3>3, ListFun
      <3>5. \A j \in 1..Len(g) : g[j] \in {"pending", "complete", "error"}
        BY <3>1, <3>4
      <3>6. PanelTypes'
        BY <1>1, <1>2, <3>1, <3>4, <3>5
      <3>7. QED
        BY <2>8, <3>6
    <2>11. QED
      BY <2>9, <2>10
  <1>4. ASSUME NEW k \in 1..Len(uploads), NEW ok \in BOOLEAN, U!UploadPiece(k, ok)
        PROVE  PanelTypes' /\ UploadTypes'
    <2>1. PICK u : u = uploads[k]
      OBVIOUS
    <2>2. UploadTypes'
      <3>1. PICK t, o : t = U!Rest(u, ok) /\ o = (u.ok /\ ok)
        OBVIOUS
      <3>2. u = UploadOf(u) /\ u.ok \in BOOLEAN /\ u.mode2 \in BOOLEAN
        BY <1>0, <2>1 DEF UploadTypes
      <3>3. o \in BOOLEAN
        BY <3>1, Zenon
      <3>4. PICK q : q = [[u EXCEPT !.todo = t] EXCEPT !.ok = o]
        OBVIOUS
      <3>5. uploads' = Replaced(uploads, k, q)
        <4>1. uploads' = [uploads EXCEPT ![k].todo = t, ![k].ok = o]
          BY <1>4, <2>1, <3>1, Zenon DEF U!UploadPiece
        <4>2. uploads' = [[uploads EXCEPT ![k] = [u EXCEPT !.todo = t]]
                            EXCEPT ![k] = [[u EXCEPT !.todo = t] EXCEPT !.ok = o]]
          BY <1>0, <2>1, <4>1 DEF UploadTypes, IsList
        <4>3. QED
          BY <1>0, <3>4, <4>2 DEF Replaced, UploadTypes, IsList
      <3>6. q = [slab |-> u.slab, deal |-> u.deal, at |-> u.at, mode2 |-> u.mode2, todo |-> t,
                 ok |-> o]
        BY <3>2, <3>4 DEF UploadOf
      <3>7. /\ IsList(uploads') /\ Len(uploads') = Len(uploads)
            /\ \A j \in 1..Len(uploads) : uploads'[j] = IF j = k THEN q ELSE uploads[j]
        BY <1>0, <3>5, ListExcept DEF UploadTypes
      <3>8. q = UploadOf(q) /\ q.ok \in BOOLEAN /\ q.mode2 \in BOOLEAN
        BY <3>2, <3>3, <3>6 DEF UploadOf
      <3>9. QED
        BY <1>0, <3>7, <3>8 DEF UploadTypes
    <2>3. CASE u.mode2
      <3>1. PICK x, a, b : /\ a \in BOOLEAN /\ b \in BOOLEAN
                           /\ panel' = PanelOf(panel.root, panel.mdus, panel.shards,
                                               panel.processing, panel.progress,
                                               panel.isUploading, a, b, x)
        BY <1>4, <2>1, <2>3, ShardPanel, Zenon DEF ShardAnswered
      <3>2. PanelTypes'
        BY <1>1, <1>2, <3>1
      <3>3. QED
        BY <2>2, <3>2
    <2>4. CASE ~u.mode2
      <3>1. PICK x, g, a, st :
              /\ st \in {"complete", "error"} /\ (st = "complete" => ok)
              /\ g = U!Marked(panel.progress, Head(u.todo)[2], st)
              /\ a \in BOOLEAN
              /\ U!Rest(u, ok) # <<>> => a = panel.isUploading
              /\ panel' = PanelOf(panel.root, panel.mdus, panel.shards, panel.processing, g, a,
                                  panel.mode2Uploading, panel.mode2UploadComplete, x)
        <4>1. MduAnswered(u, ok)
          BY <1>4, <2>1, <2>4, MduPanel
        <4>2. QED
          BY <4>1 DEF MduAnswered
      <3>2. PICK p, f : p = Head(u.todo)[2] /\ f = panel.progress
        OBVIOUS
      <3>3. g = U!Marked(f, p, st) /\ IsList(f)
        BY <1>2, <3>1, <3>2
      <3>4. /\ IsList(g) /\ Len(g) = Len(f)
            /\ \A j \in 1..Len(f) : g[j] = st \/ g[j] = f[j]
        BY <3>3, MarkedList
      <3>5. \A j \in 1..Len(g) : g[j] \in {"pending", "complete", "error"}
        BY <1>2, <3>1, <3>2, <3>4
      <3>6. PanelTypes'
        BY <1>1, <1>2, <3>1, <3>4, <3>5
      <3>7. QED
        BY <2>2, <3>6
    <2>5. QED
      BY <2>3, <2>4
  <1>5. ASSUME NEW s, NEW o, U!MirrorEnds(s, o) PROVE PanelTypes' /\ UploadTypes'
    <2>1. panel' = [panel EXCEPT !.mirror = o] /\ uploads' = uploads
      BY <1>5 DEF U!MirrorEnds
    <2>2. panel' = PanelOf(panel.root, panel.mdus, panel.shards, panel.processing, panel.progress,
                           panel.isUploading, panel.mode2Uploading, panel.mode2UploadComplete, o)
      BY <1>0, <2>1, PanelMirrored
    <2>3. PanelTypes'
      BY <1>1, <1>2, <2>2
    <2>4. QED
      BY <1>0, <2>1, <2>3 DEF UploadTypes
  <1>6. QED
    BY <1>3, <1>4, <1>5 DEF SendStep

\* How each step of a commit sets the transaction.
CommitMoves(st) ==
    /\ st \in {"sent", "mined", "success", "error"}
    /\ commit' = [commit EXCEPT !.st = st]
    /\ st = "sent" => commit.st = "wallet"
    /\ st = "error" => commit.st \in {"wallet", "sent"}
    /\ st = "mined" => U!Mine
    /\ st = "success" => U!Receipt

LEMMA CommitSet ==
    ASSUME TypesInv, CommitStep
    PROVE  \/ /\ U!Commit
              /\ commit' = [st |-> "wallet", tx |-> commit.tx + 1, deal |-> dealId,
                            slab |-> panel.root]
           \/ /\ ~U!Commit
              /\ \E st \in {"sent", "mined", "success", "error"} :
                    /\ commit' = [st |-> st, tx |-> commit.tx, deal |-> commit.deal,
                                  slab |-> commit.slab]
                    /\ st = "sent" => commit.st = "wallet"
                    /\ st = "error" => commit.st \in {"wallet", "sent"}
                    /\ st = "mined" => U!Mine
                    /\ st = "success" => U!Receipt
  <1>1. CASE U!Commit
    BY <1>1 DEF U!Commit
  <1>2. CASE ~U!Commit
    <2>1. PICK st : CommitMoves(st)
      <3>1. CASE U!Mine
        <4>1. CommitMoves("mined")
          BY <3>1 DEF U!Mine, CommitMoves
        <4>2. QED
          BY <4>1
      <3>2. CASE U!Receipt
        <4>1. CommitMoves("success")
          BY <3>2 DEF U!Receipt, CommitMoves
        <4>2. QED
          BY <4>1
      <3>3. CASE U!Revert
        <4>1. CommitMoves("error")
          BY <3>3 DEF U!Revert, CommitMoves
        <4>2. QED
          BY <4>1
      <3>4. ASSUME NEW ok \in BOOLEAN, U!Wallet(ok) PROVE \E st : CommitMoves(st)
        <4>1. PICK st : st = IF ok THEN "sent" ELSE "error"
          OBVIOUS
        <4>2. CommitMoves(st)
          BY <3>4, <4>1 DEF U!Wallet, CommitMoves
        <4>3. QED
          BY <4>2
      <3>5. QED
        BY <1>2, <3>1, <3>2, <3>3, <3>4 DEF CommitStep
    <2>2. commit = [st |-> commit.st, tx |-> commit.tx, deal |-> commit.deal, slab |-> commit.slab]
      BY DEF TypesInv, CommitTypes
    <2>3. commit' = [st |-> st, tx |-> commit.tx, deal |-> commit.deal, slab |-> commit.slab]
      BY <2>1, <2>2 DEF CommitMoves
    <2>4. QED
      BY <1>2, <2>1, <2>3 DEF CommitMoves
  <1>3. QED
    BY <1>1, <1>2

LEMMA CommitTypesKept ==
    ASSUME TypesInv, CommitStep PROVE CommitTypes' /\ ChainTypes'
  <1>1. CommitTypes /\ ChainTypes
    BY DEF TypesInv
  <1>2. CommitTypes'
    <2>1. CASE U!Commit
      <3>1. commit' = [st |-> "wallet", tx |-> commit.tx + 1, deal |-> dealId, slab |-> panel.root]
        BY <2>1 DEF U!Commit
      <3>2. commit.tx < MaxCommits
        BY <2>1 DEF U!Commit
      <3>3. dealId \in PanelDeals /\ IsSlab(panel.root)
        BY DEF TypesInv, LoadTypes, PanelTypes
      <3>4. /\ commit'.st = "wallet" /\ commit'.tx = commit.tx + 1 /\ commit'.deal = dealId
            /\ commit'.slab = panel.root
        BY <3>1
      <3>5. commit'.tx \in 0..MaxCommits
        BY <1>1, <3>2, <3>4, SharderConstants DEF CommitTypes
      <3>6. commit' = [st |-> commit'.st, tx |-> commit'.tx, deal |-> commit'.deal,
                       slab |-> commit'.slab]
        BY <3>1, <3>4
      <3>7. QED
        BY <3>3, <3>4, <3>5, <3>6 DEF CommitTypes
    <2>2. CASE ~U!Commit
      <3>1. PICK st \in {"sent", "mined", "success", "error"} :
              commit' = [st |-> st, tx |-> commit.tx, deal |-> commit.deal, slab |-> commit.slab]
        BY <2>2, CommitSet
      <3>2. QED
        BY <1>1, <3>1 DEF CommitTypes
    <2>3. QED
      BY <2>1, <2>2
  <1>3. ChainTypes'
    <2>1. CASE UNCHANGED committed
      BY <1>1, <2>1 DEF ChainTypes
    <2>2. CASE U!Mine
      <3>1. PICK d, s : d = commit.deal /\ s = commit.slab
        OBVIOUS
      <3>2. d \in PanelDeals /\ IsSlab(s)
        BY <1>1, <3>1 DEF CommitTypes
      <3>3. PICK q : q = Append(committed[d], s)
        OBVIOUS
      <3>4. committed' = [committed EXCEPT ![d] = q]
        BY <2>2, <3>1, <3>3 DEF U!Mine
      <3>5. committed' = [e \in PanelDeals |-> IF e = d THEN q ELSE committed[e]]
        BY <1>1, <3>4 DEF ChainTypes
      <3>6. /\ IsList(q) /\ Len(q) = Len(committed[d]) + 1
            /\ \A j \in 1..Len(committed[d]) : q[j] = committed[d][j]
            /\ q[Len(committed[d]) + 1] = s
        <4>1. PICK o : o = committed[d]
          OBVIOUS
        <4>2. IsList(o) /\ q = Appended(o, s)
          BY <1>1, <3>2, <3>3, <4>1 DEF ChainTypes, Appended
        <4>3. /\ IsList(q) /\ Len(q) = Len(o) + 1
              /\ \A j \in 1..Len(o) : q[j] = o[j]
              /\ q[Len(o) + 1] = s
          BY <4>2, ListAppend
        <4>4. QED
          BY <4>1, <4>3
      <3>7. Len(committed[d]) \in Nat
        BY <1>1, <3>2 DEF ChainTypes, IsList
      <3>8. \A j \in 1..Len(q) : IsSlab(q[j])
        BY <1>1, <3>2, <3>6, <3>7 DEF ChainTypes
      <3>9. \A e \in PanelDeals : IsList(committed'[e])
        BY <1>1, <3>5, <3>6 DEF ChainTypes
      <3>10. \A e \in PanelDeals : \A j \in 1..Len(committed'[e]) : IsSlab(committed'[e][j])
        BY <1>1, <3>5, <3>8 DEF ChainTypes
      <3>11. committed' = [e \in PanelDeals |-> committed'[e]]
        BY <3>5
      <3>12. QED
        BY <3>9, <3>10, <3>11 DEF ChainTypes
    <2>3. QED
      BY <2>1, <2>2, CommitFrame
  <1>4. QED
    BY <1>2, <1>3

LEMMA PersistPut ==
    ASSUME NEW p, PersistTyped(p), NEW n \in 0..(Len(p.mdus.users) + 1)
    PROVE  PersistTyped([p EXCEPT !.next = n]) /\ PersistTyped([p EXCEPT !.cancelled = TRUE])
  <1>1. p = [deal |-> p.deal, root |-> p.root, mdus |-> p.mdus, next |-> p.next,
             cancelled |-> p.cancelled]
    BY DEF PersistTyped
  <1>2. PersistTyped([p EXCEPT !.next = n])
    <2>1. PICK q : q = [p EXCEPT !.next = n]
      OBVIOUS
    <2>2. q = [deal |-> p.deal, root |-> p.root, mdus |-> p.mdus, next |-> n,
               cancelled |-> p.cancelled]
      BY <1>1, <2>1
    <2>3. PersistTyped(q)
      BY <2>2 DEF PersistTyped
    <2>4. QED
      BY <2>1, <2>3
  <1>3. PersistTyped([p EXCEPT !.cancelled = TRUE])
    <2>1. PICK q, t : t = TRUE /\ q = [p EXCEPT !.cancelled = t]
      OBVIOUS
    <2>2. q = [deal |-> p.deal, root |-> p.root, mdus |-> p.mdus, next |-> p.next, cancelled |-> t]
      BY <1>1, <2>1
    <2>3. PersistTyped(q)
      BY <2>2 DEF PersistTyped
    <2>4. QED
      BY <2>1, <2>3
  <1>4. QED
    BY <1>2, <1>3

LEMMA StorePut ==
    ASSUME SaveTypes, NEW d \in PanelDeals, NEW o, StoreTyped(o), store' = [store EXCEPT ![d] = o]
    PROVE  /\ store' = [e \in PanelDeals |-> store'[e]]
           /\ \A e \in PanelDeals : StoreTyped(store'[e])
  <1>1. store' = [e \in PanelDeals |-> IF e = d THEN o ELSE store[e]]
    BY DEF SaveTypes
  <1>2. QED
    BY <1>1 DEF SaveTypes

LEMMA SaveTypesKept ==
    ASSUME TypesInv, SaveStep PROVE SaveTypes'
  <1>0. SaveTypes
    BY DEF TypesInv
  <1>1. CASE U!Effects
    <2>1. PICK new, b : /\ b = FALSE
                        /\ new = [deal |-> dealId, root |-> panel.root, mdus |-> panel.mdus,
                                  next |-> 0, cancelled |-> b]
      OBVIOUS
    <2>2. /\ store' = store
          /\ \A q \in persists' : q \in persists \/ q = new
                                  \/ \E p \in persists : q = [p EXCEPT !.cancelled = TRUE]
      BY <1>1, <2>1 DEF U!Effects
    <2>3. IsSlab(panel.mdus) /\ dealId \in PanelDeals /\ Len(panel.mdus.users) \in Nat
      BY DEF TypesInv, PanelTypes, LoadTypes, IsSlab, IsList
    <2>4. PersistTyped(new)
      BY <2>1, <2>3 DEF PersistTyped
    <2>5. ASSUME NEW p \in persists PROVE PersistTyped([p EXCEPT !.cancelled = TRUE])
      <3>1. PersistTyped(p) /\ p.next \in 0..(Len(p.mdus.users) + 1)
        BY <1>0 DEF SaveTypes, PersistTyped
      <3>2. QED
        BY <3>1, PersistPut
    <2>6. \A q \in persists' : PersistTyped(q)
      BY <1>0, <2>2, <2>4, <2>5 DEF SaveTypes
    <2>7. QED
      BY <1>0, <2>2, <2>6 DEF SaveTypes
  <1>2. ASSUME NEW p \in persists, U!PersistRoot(p) \/ U!PersistMdu(p) \/ U!PersistEnds(p)
        PROVE  SaveTypes'
    <2>0. PersistTyped(p) /\ p.deal \in PanelDeals /\ StoreTyped(store[p.deal])
      BY <1>0 DEF SaveTypes, PersistTyped
    <2>1. Len(p.mdus.users) \in Nat /\ p.next \in Nat
      BY <2>0 DEF PersistTyped, IsSlab, IsList
    <2>2. PICK d, o : d = p.deal /\ o = store[d]
      OBVIOUS
    <2>3. d \in PanelDeals /\ StoreTyped(o) /\ o = [root |-> o.root, mdus |-> o.mdus]
      BY <2>0, <2>2 DEF StoreTyped
    <2>4. CASE U!PersistEnds(p)
      <3>1. persists' \subseteq persists /\ store' = store
        BY <2>4 DEF U!PersistEnds, U!Without
      <3>2. QED
        BY <1>0, <3>1 DEF SaveTypes
    <2>5. CASE U!PersistRoot(p)
      <3>1. \A q \in persists' : q \in persists \/ q = [p EXCEPT !.next = 1]
        BY <2>5 DEF U!PersistRoot, U!Without
      <3>2. PersistTyped([p EXCEPT !.next = 1])
        <4>1. PICK n : n = 1 /\ n \in 0..(Len(p.mdus.users) + 1)
          BY <2>1
        <4>2. PersistTyped([p EXCEPT !.next = n])
          BY <2>0, <4>1, PersistPut
        <4>3. QED
          BY <4>1, <4>2
      <3>3. PICK o2 : o2 = [o EXCEPT !.root = p.root]
        OBVIOUS
      <3>4. store' = [store EXCEPT ![d] = o2]
        BY <2>2, <2>5, <3>3 DEF U!PersistRoot
      <3>5. o2 = [root |-> p.root, mdus |-> o.mdus]
        BY <2>3, <3>3
      <3>6. StoreTyped(o2)
        BY <2>3, <3>5 DEF StoreTyped
      <3>7. /\ store' = [e \in PanelDeals |-> store'[e]]
            /\ \A e \in PanelDeals : StoreTyped(store'[e])
        BY <1>0, <2>3, <3>4, <3>6, StorePut
      <3>8. QED
        BY <1>0, <3>1, <3>2, <3>7 DEF SaveTypes
    <2>6. CASE U!PersistMdu(p)
      <3>1. \A q \in persists' : q \in persists \/ (p.next # Len(p.mdus.users) + 1 /\
                                                    q = [p EXCEPT !.next = p.next + 1])
        BY <2>6 DEF U!PersistMdu, U!Without
      <3>2. ASSUME p.next # Len(p.mdus.users) + 1 PROVE PersistTyped([p EXCEPT !.next = p.next + 1])
        <4>1. PICK n : n = p.next + 1
          OBVIOUS
        <4>2. n \in 0..(Len(p.mdus.users) + 1)
          BY <2>0, <2>1, <3>2, <4>1 DEF PersistTyped
        <4>3. PersistTyped([p EXCEPT !.next = n])
          BY <2>0, <4>2, PersistPut
        <4>4. QED
          BY <4>1, <4>3
      <3>3. PICK c, m, n : /\ c = U!MduContent(p.mdus, p.next) /\ m = o.mdus /\ n = p.next
        OBVIOUS
      <3>4. IsList(c.table)
        <4>1. IsList(p.mdus.table)
          BY <2>0 DEF PersistTyped, IsSlab
        <4>2. QED
          BY <3>3, <4>1, ListNil DEF U!MduContent
      <3>5. PICK m2 : m2 = IF n > Len(m) THEN Append(m, c) ELSE [m EXCEPT ![n] = c]
        OBVIOUS
      <3>6. PICK o2 : o2 = [o EXCEPT !.mdus = m2]
        OBVIOUS
      <3>7. store' = [store EXCEPT ![d] = o2]
        BY <2>2, <2>6, <3>3, <3>5, <3>6 DEF U!PersistMdu
      <3>8. o2 = [root |-> o.root, mdus |-> m2]
        BY <2>3, <3>6
      <3>9. IsList(m) /\ \A j \in 1..Len(m) : IsList(m[j].table)
        BY <2>3, <3>3 DEF StoreTyped
      <3>10. IsList(m2) /\ \A j \in 1..Len(m2) : IsList(m2[j].table)
        <4>1. CASE n > Len(m)
          <5>1. m2 = Appended(m, c) /\ Len(m) \in Nat
            BY <3>5, <3>9, <4>1 DEF Appended, IsList
          <5>2. /\ IsList(m2) /\ Len(m2) = Len(m) + 1
                /\ \A j \in 1..Len(m) : m2[j] = m[j]
                /\ m2[Len(m) + 1] = c
            BY <3>9, <5>1, ListAppend
          <5>3. QED
            BY <3>4, <3>9, <5>1, <5>2
        <4>2. CASE ~(n > Len(m))
          <5>1. n \in 1..Len(m) /\ m2 = Replaced(m, n, c)
            BY <2>1, <2>6, <3>3, <3>5, <3>9, <4>2 DEF Replaced, IsList, U!PersistMdu
          <5>2. /\ IsList(m2) /\ Len(m2) = Len(m)
                /\ \A j \in 1..Len(m) : m2[j] = IF j = n THEN c ELSE m[j]
            BY <3>9, <5>1, ListExcept
          <5>3. QED
            BY <3>4, <3>9, <5>2
        <4>3. QED
          BY <4>1, <4>2
      <3>11. StoreTyped(o2)
        BY <3>8, <3>10 DEF StoreTyped
      <3>12. /\ store' = [e \in PanelDeals |-> store'[e]]
             /\ \A e \in PanelDeals : StoreTyped(store'[e])
        BY <1>0, <2>3, <3>7, <3>11, StorePut
      <3>13. QED
        BY <1>0, <3>1, <3>2, <3>12 DEF SaveTypes
    <2>7. QED
      BY <1>2, <2>4, <2>5, <2>6
  <1>3. QED
    BY <1>1, <1>2 DEF SaveStep

LEMMA TypesKept ==
    ASSUME TypesInv, U!PanelStep, careful' = careful PROVE TypesInv'
  <1>0. LoadTypes'
    BY LoadTypesKept
  <1>1. UNCHANGED <<runs, builder>> => RunTypes'
    BY DEF TypesInv, RunTypes
  <1>2. UNCHANGED panel => PanelTypes'
    BY DEF TypesInv, PanelTypes
  <1>3. UNCHANGED uploads => UploadTypes'
    BY DEF TypesInv, UploadTypes
  <1>4. UNCHANGED commit => CommitTypes'
    BY DEF TypesInv, CommitTypes
  <1>5. UNCHANGED committed => ChainTypes'
    BY DEF TypesInv, ChainTypes
  <1>6. UNCHANGED <<persists, store>> => SaveTypes'
    BY DEF TypesInv, SaveTypes
  <1>7. CASE LoadStep
    BY <1>0, <1>1, <1>2, <1>3, <1>4, <1>5, <1>6, <1>7, LoadFrame DEF TypesInv
  <1>8. ASSUME NEW f, U!PickFile(f) PROVE TypesInv'
    BY <1>0, <1>3, <1>4, <1>5, <1>6, <1>8, PickFrame, PickTypes DEF TypesInv
  <1>9. ASSUME NEW i \in 1..Len(runs), U!RunStep(i) PROVE TypesInv'
    BY <1>0, <1>3, <1>4, <1>5, <1>6, <1>9, RunFrame, RunTypesKept, RunPanelTypes DEF TypesInv
  <1>10. CASE SendStep
    BY <1>0, <1>1, <1>4, <1>5, <1>6, <1>10, SendFrame, SendTypesKept DEF TypesInv
  <1>11. CASE CommitStep
    BY <1>0, <1>1, <1>2, <1>3, <1>6, <1>11, CommitFrame, CommitTypesKept DEF TypesInv
  <1>12. CASE SaveStep
    BY <1>0, <1>1, <1>2, <1>3, <1>4, <1>5, <1>12, SaveFrame, SaveTypesKept DEF TypesInv
  <1>13. QED
    BY <1>7, <1>8, <1>9, <1>10, <1>11, <1>12, PanelSteps

-----------------------------------------------------------------------------
(***************************************************************************)
(* A user who waits and stays on one deal: what is committed was uploaded. *)
(***************************************************************************)
OneDeal == PanelDeals = {PanelDeal}

\* The slabs stored and those on chain, of these pieces and this chain.
PieceIn(S, at, slot, d, s, p) == U!Piece(U!Provider(at, slot), d, s, p) \in S

Held(S, d, s) ==
    IF s.mode2
    THEN \A slot \in U!Slots, p \in {0} \cup (s.base + 1)..Len(s.users) : PieceIn(S, d, slot, d, s, p)
    ELSE \A p \in {U!Manifest} \cup 0..Len(s.users) :
            \E at \in {d, NoDeal} : PieceIn(S, at, 1, d, s, p)

InChain(c, d, s) == \E k \in 1..Len(c[d]) : c[d][k] = s

\* Nothing happens before the settings are read, and they are read once.
LoadInv ==
    /\ load # "done" => /\ runs = <<>> /\ uploads = <<>> /\ commit.st = "none"
                        /\ panel.root = U!NoSlab /\ panel.mdus = U!NoSlab /\ panel.progress = <<>>
                        /\ ~panel.processing /\ ~panel.mode2UploadComplete
    /\ load = "done" /\ stripe => bases = dealId
    /\ load # "stripe" => LoadsFail \/ stripe = mode2[dealId]

LatePhases == {"roots", "append", "bytes", "manifest"}

\* A run is of this kind of deal, and the shards kept are of its last MDU.
RunsInv ==
    \A i \in 1..Len(runs) :
        /\ runs[i].mode2 = stripe
        /\ runs[i].phase = "gateway" => stripe
        /\ runs[i].phase \in LatePhases /\ stripe => panel.shards = {Len(runs[i].base) + 1}

\* And so is the slab shown.
ViewInv ==
    /\ panel.processing => /\ panel.root = U!NoSlab /\ panel.mdus = U!NoSlab
                           /\ panel.progress = <<>> /\ ~panel.mode2UploadComplete
    /\ panel.root # U!NoSlab => panel.root.mode2 = stripe
    /\ panel.mdus # U!NoSlab =>
         /\ Len(panel.root.users) = panel.root.base + 1
         /\ stripe => panel.shards = {Len(panel.root.users)}

\* The piece that step j of n of an upload of MDUs is about.
PieceAt(n, j) == IF j = n THEN U!Manifest ELSE j - 1

\* What panel v says is uploaded is among the pieces S.
Truthful(v, S, d, at, m2) ==
    /\ m2 /\ v.mode2UploadComplete => v.root # U!NoSlab /\ Held(S, d, v.root)
    /\ ~m2 /\ v.progress # <<>>
       => /\ Len(v.progress) = Len(v.root.users) + 2
          /\ \A j \in 1..Len(v.progress) :
               v.progress[j] = "complete" => PieceIn(S, at, 1, d, v.root, PieceAt(Len(v.progress), j))

ShownInv == Truthful(panel, stored, dealId, bases, stripe)

Listed(todo, x) == \E j \in 1..Len(todo) : todo[j] = x

\* Of a stripe s, what is not among the pieces S is to be sent.
Owed(S, todo, d, s) ==
    \A slot \in U!Slots, p \in {0, Len(s.users)} :
        PieceIn(S, d, slot, d, s, p) \/ Listed(todo, <<slot, p>>)

\* Upload u, under way, is of the slab shown; what it has not stored is to be sent.
Sending(u, v, S, d, at, m2) ==
    /\ IsList(u.todo) /\ ~v.processing
    /\ v.root # U!NoSlab /\ v.mdus # U!NoSlab
    /\ u.slab = v.root /\ u.deal = d /\ u.at = at /\ u.mode2 = m2
    /\ m2 => v.mode2Uploading /\ u.ok /\ Owed(S, u.todo, d, v.root)
    /\ ~m2 => /\ v.isUploading
              /\ \A j \in 1..Len(u.todo) :
                   \E p \in {U!Manifest} \cup 0..Len(v.root.users) : u.todo[j] = <<1, p>>

UploadInv ==
    \A k \in 1..Len(uploads) : uploads[k].todo # <<>> =>
        k = Len(uploads) /\ Sending(uploads[k], panel, stored, dealId, bases, stripe)

\* A transaction is about the slab shown until its receipt is reported.
CommitInv ==
    /\ commit.st # "none" => /\ commit.slab # U!NoSlab
                             /\ Held(stored, commit.deal, commit.slab)
                             /\ LoadsFail \/ commit.slab.mode2 = mode2[commit.deal]
    /\ commit.st \in {"wallet", "sent", "mined"} => panel.root = commit.slab /\ last.tx < commit.tx
    /\ commit.st \in {"mined", "success"} => InChain(committed, commit.deal, commit.slab)
    /\ commit.st = "success" => last.tx = commit.tx \/ panel.root = commit.slab

ReportInv ==
    /\ last.tx \in Nat /\ last.tx <= commit.tx
    /\ last.root # U!NoSlab => InChain(committed, dealId, last.root)
    /\ reported.deal # NoDeal => /\ reported.deal \in PanelDeals
                                 /\ InChain(committed, reported.deal, reported.slab)

DeliveryInv == LoadInv /\ RunsInv /\ ViewInv /\ ShownInv /\ UploadInv /\ CommitInv /\ ReportInv

\* What the steps of such a user start from.
Ready == careful /\ OneDeal /\ TypesInv /\ BuilderInv /\ DeliveryInv

LEMMA DeliveryInit == ASSUME U!Init PROVE DeliveryInv
  <1>1. /\ runs = <<>> /\ uploads = <<>> /\ load = "stripe" /\ stripe = FALSE
        /\ Len(runs) = 0 /\ Len(uploads) = 0
    BY DEF U!Init
  <1>2. /\ panel.root = U!NoSlab /\ panel.mdus = U!NoSlab /\ panel.progress = <<>>
        /\ ~panel.processing /\ ~panel.mode2UploadComplete
    BY DEF U!Init, U!EmptyView
  <1>3. /\ commit.st = "none" /\ commit.tx = 0 /\ last.tx = 0 /\ last.root = U!NoSlab
        /\ reported.deal = NoDeal
    BY DEF U!Init
  <1>4. LoadInv /\ RunsInv /\ ViewInv /\ UploadInv
    BY <1>1, <1>2, <1>3 DEF LoadInv, RunsInv, ViewInv, UploadInv
  <1>5. ShownInv
    BY <1>1, <1>2 DEF ShownInv, Truthful
  <1>6. CommitInv /\ ReportInv
    BY <1>3 DEF CommitInv, ReportInv
  <1>7. QED
    BY <1>4, <1>5, <1>6 DEF DeliveryInv

LEMMA DealIsOne ==
    ASSUME OneDeal, LoadTypes, LoadTypes'
    PROVE  dealId = PanelDeal /\ dealId' = dealId /\ \A d \in PanelDeals : d = dealId
  BY DEF OneDeal, LoadTypes

LEMMA HeldGrows ==
    ASSUME NEW S, NEW T, S \subseteq T, NEW d, NEW s, Held(S, d, s) PROVE Held(T, d, s)
  BY DEF Held, PieceIn

LEMMA LoadDelivers ==
    ASSUME Ready, LoadStep, TypesInv' PROVE DeliveryInv'
  <1>1. UNCHANGED <<mode2, committed, stored, panel, runs, builder, uploads, mirrors, commit,
                    last, reported, effectKey, persists, store>>
    BY LoadFrame
  <1>2. dealId' = dealId /\ \A d \in PanelDeals : d = dealId
    BY DealIsOne DEF Ready, TypesInv
  <1>3. U!LoadStripe \/ U!LoadBases \/ U!LoadFails
    BY <1>2 DEF LoadStep, U!SwitchDeal
  <1>4. load # "done"
    BY <1>3 DEF U!LoadStripe, U!LoadBases, U!LoadFails
  <1>5. /\ runs = <<>> /\ uploads = <<>> /\ commit.st = "none" /\ panel.root = U!NoSlab
        /\ panel.mdus = U!NoSlab /\ panel.progress = <<>>
        /\ ~panel.processing /\ ~panel.mode2UploadComplete
    BY <1>4 DEF Ready, DeliveryInv, LoadInv
  <1>6. LoadInv'
    <2>1. load' = "done" /\ stripe' => bases' = dealId'
      BY <1>2, <1>3 DEF U!LoadStripe, U!LoadBases, U!LoadFails
    <2>2. load' # "stripe" => LoadsFail \/ stripe' = mode2'[dealId']
      <3>1. CASE U!LoadStripe
        BY <1>1, <1>2, <3>1 DEF U!LoadStripe
      <3>2. CASE U!LoadBases
        BY <1>1, <1>2, <3>2 DEF U!LoadBases, Ready, DeliveryInv, LoadInv
      <3>3. CASE U!LoadFails
        BY <3>3 DEF U!LoadFails
      <3>4. QED
        BY <1>3, <3>1, <3>2, <3>3
    <2>3. QED
      BY <1>1, <1>5, <2>1, <2>2, Zenon DEF LoadInv
  <1>7. Len(runs) = 0 /\ Len(uploads) = 0
    BY <1>5
  <1>8. RunsInv' /\ ViewInv' /\ UploadInv'
    BY <1>1, <1>5, <1>7 DEF RunsInv, ViewInv, UploadInv
  <1>9. ShownInv'
    BY <1>1, <1>5 DEF ShownInv, Truthful
  <1>10. CommitInv' /\ ReportInv'
    BY <1>1, <1>2 DEF Ready, DeliveryInv, CommitInv, ReportInv
  <1>11. QED
    BY <1>6, <1>8, <1>9, <1>10 DEF DeliveryInv

\* A file is picked, or a run goes on: no transaction is under way, no upload is, and
\* the last receipt was reported.
LEMMA CommitsRest ==
    ASSUME Ready, ~U!EffectsDue,
           commit.st \notin {"wallet", "sent", "mined"},
           stored \subseteq stored', UNCHANGED <<mode2, committed, dealId, commit, last, reported>>
    PROVE  CommitInv' /\ ReportInv'
  <1>1. CommitInv /\ ReportInv
    BY DEF Ready, DeliveryInv
  <1>2. commit.st = "success" => last.tx = commit.tx
    BY <1>1 DEF CommitInv, U!EffectsDue, U!CommitEffectDue, U!isCommitSuccess
  <1>3. commit.st # "none" => Held(stored', commit.deal, commit.slab)
    BY <1>1, HeldGrows DEF CommitInv
  <1>4. CommitInv'
    BY <1>1, <1>2, <1>3 DEF CommitInv
  <1>5. ReportInv'
    BY <1>1 DEF ReportInv
  <1>6. QED
    BY <1>4, <1>5

LEMMA PickDelivers ==
    ASSUME Ready, NEW f, U!PickFile(f), TypesInv' PROVE DeliveryInv'
  <1>1. /\ UNCHANGED <<mode2, committed, stored, dealId, load, stripe, bases, builder, uploads,
                       mirrors, commit, last, reported, effectKey, persists, store>>
        /\ ~U!EffectsDue
    BY PickFrame
  <1>2. /\ load = "done" /\ ~panel.processing /\ commit.st \notin {"wallet", "sent", "mined"}
        /\ \A k \in 1..Len(uploads) : uploads[k].todo = <<>>
    BY DEF Ready, U!PickFile, U!Busy
  <1>3. /\ panel'.root = U!NoSlab /\ panel'.mdus = U!NoSlab /\ panel'.progress = <<>>
        /\ ~panel'.mode2UploadComplete
    <2>1. PICK g \in BOOLEAN : g = (stripe /\ GatewayEnabled)
      BY Zenon
    <2>2. panel' = [panel EXCEPT !.root = U!NoSlab, !.mdus = U!NoSlab, !.shards = {},
                                 !.processing = TRUE, !.progress = <<>>, !.isUploading = FALSE,
                                 !.mode2Uploading = g, !.mode2UploadComplete = FALSE]
      BY <2>1, Zenon DEF U!PickFile
    <2>3. PanelRec(panel)
      BY PanelParts DEF Ready, TypesInv
    <2>4. panel' = PanelOf(U!NoSlab, U!NoSlab, {}, TRUE, <<>>, FALSE, g, FALSE, panel.mirror)
      BY <2>2, <2>3, PanelPicked
    <2>5. QED
      BY <2>4, Zenon DEF PanelOf
  <1>4. LoadInv'
    BY <1>1, <1>2 DEF Ready, DeliveryInv, LoadInv
  <1>5. RunsInv'
    <2>1. PICK x : /\ x = [file |-> f, deal |-> dealId, mode2 |-> stripe,
                           phase |-> IF stripe /\ GatewayEnabled THEN "gateway" ELSE "wasm",
                           base |-> <<>>, table |-> <<>>,
                           mdu0 |-> [table |-> <<>>, roots |-> <<>>]]
                   /\ runs' = Append(runs, x)
      BY DEF U!PickFile
    <2>2. x.mode2 = stripe /\ x.phase \in {"gateway", "wasm"} /\ (x.phase = "gateway" => stripe)
      BY <2>1
    <2>3. /\ IsList(runs') /\ Len(runs') = Len(runs) + 1
          /\ \A j \in 1..Len(runs) : runs'[j] = runs[j]
          /\ runs'[Len(runs) + 1] = x
      <3>1. IsList(runs) /\ runs' = Appended(runs, x)
        BY <2>1 DEF Appended, Ready, TypesInv, RunTypes
      <3>2. QED
        BY <3>1, ListAppend
    <2>4. \A j \in 1..Len(runs) : runs[j].phase = "over" /\ runs[j].mode2 = stripe
      BY <1>2 DEF Ready, BuilderInv, DeliveryInv, RunsInv
    <2>5. \A j \in 1..Len(runs') : j \in 1..Len(runs) \/ j = Len(runs) + 1
      BY <2>3 DEF Ready, TypesInv, RunTypes, IsList
    <2>6. QED
      BY <1>1, <2>2, <2>3, <2>4, <2>5 DEF RunsInv, LatePhases
  <1>6. ViewInv'
    BY <1>3 DEF ViewInv
  <1>7. ShownInv'
    BY <1>3 DEF ShownInv, Truthful
  <1>8. UploadInv'
    BY <1>1, <1>2 DEF UploadInv
  <1>9. CommitInv' /\ ReportInv'
    BY <1>1, <1>2, CommitsRest
  <1>10. QED
    BY <1>4, <1>5, <1>6, <1>7, <1>8, <1>9 DEF DeliveryInv

\* A run after a step of it.
LEMMA RunAfter ==
    ASSUME TypesInv, NEW i \in 1..Len(runs), U!RunStep(i)
    PROVE  \E q : /\ runs' = Replaced(runs, i, q)
                  /\ q.mode2 = runs[i].mode2 /\ q.phase # "gateway"
                  /\ q.phase \in LatePhases =>
                       /\ q.base = runs[i].base
                       /\ runs[i].phase \in LatePhases \/ U!ShardUsers(i)
  <1>0. PICK r : r = runs[i]
    OBVIOUS
  <1>1. RunTyped(r) /\ r = RunOf(r) /\ IsList(runs)
    BY <1>0 DEF TypesInv, RunTypes, RunTyped
  <1>2. CASE U!ReadBase(i)
    <2>1. PICK users, table :
            runs' = [runs EXCEPT ![i].phase = "build", ![i].base = users, ![i].table = table]
      BY <1>2 DEF U!ReadBase
    <2>2. PICK q : q = [[[r EXCEPT !.phase = "build"] EXCEPT !.base = users] EXCEPT !.table = table]
      OBVIOUS
    <2>3. runs' = Replaced(runs, i, q)
      BY <1>0, <1>1, <2>1, <2>2 DEF Replaced, IsList
    <2>4. q = [file |-> r.file, deal |-> r.deal, mode2 |-> r.mode2, phase |-> "build",
               base |-> users, table |-> table, mdu0 |-> r.mdu0]
      BY <1>1, <2>2, RunRead
    <2>5. QED
      BY <1>0, <2>3, <2>4 DEF LatePhases
  <1>3. CASE U!GetMdu0(i)
    <2>1. runs' = [runs EXCEPT ![i].phase = "manifest", ![i].mdu0 = builder]
      BY <1>3 DEF U!GetMdu0
    <2>2. PICK m : m = builder
      OBVIOUS
    <2>3. PICK q : q = [[r EXCEPT !.phase = "manifest"] EXCEPT !.mdu0 = m]
      OBVIOUS
    <2>4. runs' = Replaced(runs, i, q)
      BY <1>0, <1>1, <2>1, <2>2, <2>3 DEF Replaced, IsList
    <2>5. q = [file |-> r.file, deal |-> r.deal, mode2 |-> r.mode2, phase |-> "manifest",
               base |-> r.base, table |-> r.table, mdu0 |-> m]
      BY <1>1, <2>3, RunRead
    <2>6. r.phase = "bytes"
      BY <1>0, <1>3 DEF U!GetMdu0, U!Step
    <2>7. QED
      BY <1>0, <2>4, <2>5, <2>6 DEF LatePhases
  <1>4. CASE ~U!ReadBase(i) /\ ~U!GetMdu0(i)
    <2>1. PICK p : /\ U!ToPhase(i, p) /\ p # "gateway"
                   /\ p \in LatePhases => runs[i].phase \in LatePhases \/ U!ShardUsers(i)
      <3>1. U!GatewayIngest(i) \/ U!RunFails(i) \/ U!FileUnreadable(i) \/ U!FinishRun(i)
            => U!ToPhase(i, "over") /\ "over" \notin LatePhases
        BY DEF U!GatewayIngest, U!RunFails, U!FileUnreadable, U!FinishRun, LatePhases
      <3>2. U!GatewayUnreachable(i) => U!ToPhase(i, "wasm") /\ "wasm" \notin LatePhases
        BY DEF U!GatewayUnreachable, LatePhases
      <3>3. U!WasmReady(i) => U!ToPhase(i, "base") /\ "base" \notin LatePhases
        BY DEF U!WasmReady, LatePhases
      <3>4. U!InitBuilder(i) => U!ToPhase(i, "users") /\ "users" \notin LatePhases
        BY DEF U!InitBuilder, LatePhases
      <3>5. U!ShardUsers(i) => U!ToPhase(i, "roots")
        BY DEF U!ShardUsers
      <3>6. U!SetRoots(i) => U!ToPhase(i, "append") /\ runs[i].phase \in LatePhases
        BY DEF U!SetRoots, U!Step, LatePhases
      <3>7. U!AppendRecord(i) => U!ToPhase(i, "bytes") /\ runs[i].phase \in LatePhases
        BY DEF U!AppendRecord, U!Step, LatePhases
      <3>8. QED
        BY <1>4, <3>1, <3>2, <3>3, <3>4, <3>5, <3>6, <3>7 DEF U!RunStep
    <2>2. PICK q : q = At(r, p)
      OBVIOUS
    <2>3. runs' = Replaced(runs, i, q)
      BY <1>0, <1>1, <2>1, <2>2, NextPhase
    <2>4. q.mode2 = r.mode2 /\ q.phase = p /\ q.base = r.base
      BY <2>2 DEF At
    <2>5. QED
      BY <1>0, <2>1, <2>3, <2>4
  <1>5. QED
    BY <1>2, <1>3, <1>4

LEMMA AllPiecesHeld ==
    ASSUME NEW S, NEW d, NEW s, IsSlab(s), s.mode2, U!AllPieces(d, s) \subseteq S
    PROVE  Held(S, d, s)
  <1>1. PICK n \in Nat : n = Len(s.users)
    BY DEF IsSlab, IsList
  <1>2. \A p \in {0} \cup (s.base + 1)..n : p \in 0..n
    BY DEF IsSlab
  <1>3. ASSUME NEW slot \in U!Slots, NEW p \in 0..n
        PROVE  PieceIn(S, d, slot, d, s, p)
    BY <1>1 DEF U!AllPieces, PieceIn
  <1>4. QED
    BY <1>1, <1>2, <1>3 DEF Held

LEMMA RunDelivers ==
    ASSUME Ready, NEW i \in 1..Len(runs), U!RunStep(i), TypesInv', BuilderInv' PROVE DeliveryInv'
  <1>0. TypesInv /\ BuilderInv /\ DeliveryInv
    BY DEF Ready
  <1>1. /\ UNCHANGED <<mode2, committed, dealId, load, stripe, bases, uploads, mirrors, commit,
                       last, reported, effectKey, persists, store>>
        /\ ~U!EffectsDue /\ runs[i].phase # "over"
    BY RunFrame
  <1>2. panel.processing /\ i = Len(runs) /\ \A j \in 1..Len(runs) : j # i => runs[j].phase = "over"
    BY <1>0, <1>1 DEF BuilderInv
  <1>3. /\ panel.root = U!NoSlab /\ panel.mdus = U!NoSlab /\ panel.progress = <<>>
        /\ ~panel.mode2UploadComplete
    BY <1>0, <1>2 DEF DeliveryInv, ViewInv
  <1>4. load = "done"
    BY <1>0, <1>2 DEF DeliveryInv, LoadInv
  <1>5. \A k \in 1..Len(uploads) : uploads[k].todo = <<>>
    BY <1>0, <1>2 DEF DeliveryInv, UploadInv, Sending
  <1>6. commit.st \notin {"wallet", "sent", "mined"}
    BY <1>0, <1>3 DEF DeliveryInv, CommitInv
  <1>7. LoadInv' /\ UploadInv'
    BY <1>0, <1>1, <1>4, <1>5 DEF DeliveryInv, LoadInv, UploadInv
  <1>8. stored \subseteq stored'
    <2>1. U!GatewayIngest(i) => stored \subseteq stored'
      BY DEF U!GatewayIngest
    <2>2. U!FinishRun(i) => stored' = stored
      BY DEF U!FinishRun
    <2>3. QED
      BY <1>0, <2>1, <2>2, RunPanel
  <1>9. CommitInv' /\ ReportInv'
    BY <1>1, <1>6, <1>8, CommitsRest
  <1>10. PICK q : /\ runs' = Replaced(runs, i, q)
                  /\ q.mode2 = runs[i].mode2 /\ q.phase # "gateway"
                  /\ q.phase \in LatePhases =>
                       /\ q.base = runs[i].base
                       /\ runs[i].phase \in LatePhases \/ U!ShardUsers(i)
    BY <1>0, RunAfter
  <1>11. /\ IsList(runs') /\ Len(runs') = Len(runs)
         /\ \A j \in 1..Len(runs) : runs'[j] = IF j = i THEN q ELSE runs[j]
    BY <1>0, <1>10, ListExcept DEF TypesInv, RunTypes
  <1>12. runs[i].mode2 = stripe
    BY <1>0 DEF DeliveryInv, RunsInv
  <1>13. ASSUME q.phase \in LatePhases /\ stripe => panel'.shards = {Len(q.base) + 1} PROVE RunsInv'
    <2>1. ASSUME NEW j \in 1..Len(runs')
          PROVE  /\ runs'[j].mode2 = stripe'
                 /\ runs'[j].phase = "gateway" => stripe'
                 /\ runs'[j].phase \in LatePhases /\ stripe'
                    => panel'.shards = {Len(runs'[j].base) + 1}
      <3>1. CASE j = i
        BY <1>1, <1>10, <1>11, <1>12, <1>13, <2>1, <3>1
      <3>2. CASE j # i
        <4>1. runs'[j] = runs[j] /\ runs[j].phase = "over" /\ runs[j].mode2 = stripe
          BY <1>0, <1>2, <1>11, <2>1, <3>2 DEF DeliveryInv, RunsInv
        <4>2. QED
          BY <1>1, <4>1 DEF LatePhases
      <3>3. QED
        BY <3>1, <3>2
    <2>2. QED
      BY <2>1 DEF RunsInv
  <1>14. q.phase \in LatePhases /\ stripe /\ ~U!ShardUsers(i) => panel.shards = {Len(q.base) + 1}
    BY <1>0, <1>10 DEF DeliveryInv, RunsInv
  <1>15. CASE U!GatewayIngest(i)
    <2>1. PICK s : /\ IsSlab(s) /\ s.mode2 /\ Len(s.users) = s.base + 1 /\ s # U!NoSlab
                   /\ panel' = PanelOf(s, U!NoSlab, {}, FALSE, panel.progress, panel.isUploading,
                                       FALSE, TRUE, panel.mirror)
                   /\ stored' = stored \cup U!AllPieces(runs[i].deal, s)
                   /\ runs[i].phase = "gateway" /\ U!ToPhase(i, "over")
      BY <1>0, <1>15, IngestStep
    <2>2. /\ panel'.root = s /\ panel'.mdus = U!NoSlab /\ panel'.progress = <<>>
          /\ ~panel'.processing
      BY <1>3, <2>1, Zenon DEF PanelOf
    <2>3. stripe
      BY <1>0, <2>1 DEF DeliveryInv, RunsInv
    <2>4. runs[i].deal = dealId
      BY <1>0 DEF Ready, TypesInv, RunTypes, RunTyped, OneDeal, LoadTypes
    <2>5. Held(stored', dealId, s)
      <3>1. U!AllPieces(dealId, s) \subseteq stored'
        BY <2>1, <2>4
      <3>2. QED
        BY <2>1, <3>1, AllPiecesHeld
    <2>6. ViewInv'
      <3>1. s.mode2 = stripe
        BY <1>0, <2>1, <2>3, Zenon DEF TypesInv, LoadTypes, IsSlab
      <3>2. QED
        BY <1>1, <2>2, <3>1 DEF ViewInv
    <2>7. ShownInv'
      BY <1>1, <2>1, <2>2, <2>3, <2>5 DEF ShownInv, Truthful
    <2>8. q.phase \notin LatePhases
      BY <1>10, <2>1, <1>15 DEF LatePhases, U!ShardUsers, U!Step
    <2>9. RunsInv'
      BY <1>13, <2>8
    <2>10. QED
      BY <1>7, <1>9, <2>6, <2>7, <2>9 DEF DeliveryInv
  <1>16. CASE U!FinishRun(i)
    <2>1. PICK s : /\ IsSlab(s) /\ s.mode2 = runs[i].mode2 /\ s.base = Len(runs[i].base)
                   /\ Len(s.users) = s.base + 1 /\ s # U!NoSlab
                   /\ panel' = PanelOf(s, s, panel.shards, FALSE, panel.progress,
                                       panel.isUploading, panel.mode2Uploading,
                                       panel.mode2UploadComplete, panel.mirror)
                   /\ stored' = stored
                   /\ runs[i].phase = "manifest" /\ U!ToPhase(i, "over")
      BY <1>0, <1>16, FinishStep
    <2>2. /\ panel'.root = s /\ panel'.mdus = s /\ panel'.progress = <<>>
          /\ ~panel'.processing /\ ~panel'.mode2UploadComplete /\ panel'.shards = panel.shards
      BY <1>3, <2>1, Zenon DEF PanelOf
    <2>3. stripe => panel.shards = {Len(s.users)}
      BY <1>0, <2>1 DEF DeliveryInv, RunsInv, LatePhases
    <2>4. ViewInv'
      BY <1>1, <1>12, <2>1, <2>2, <2>3 DEF ViewInv
    <2>5. ShownInv'
      BY <2>2 DEF ShownInv, Truthful
    <2>6. ~U!ShardUsers(i)
      BY <2>1 DEF U!ShardUsers, U!Step
    <2>7. RunsInv'
      BY <1>13, <1>14, <2>2, <2>6
    <2>8. QED
      BY <1>7, <1>9, <2>4, <2>5, <2>7 DEF DeliveryInv
  <1>17. ASSUME panel'.root = panel.root, panel'.mdus = panel.mdus,
                panel'.progress = panel.progress,
                panel'.mode2UploadComplete = panel.mode2UploadComplete, RunsInv'
         PROVE  DeliveryInv'
    <2>1. ViewInv'
      BY <1>3, <1>17 DEF ViewInv
    <2>2. ShownInv'
      BY <1>3, <1>17 DEF ShownInv, Truthful
    <2>3. QED
      BY <1>7, <1>9, <1>17, <2>1, <2>2 DEF DeliveryInv
  <1>18. CASE U!ShardUsers(i) /\ runs[i].mode2
    <2>1. PICK h : /\ h = {Len(U!RunUsers(runs[i]))}
                   /\ panel' = PanelOf(panel.root, panel.mdus, h, panel.processing,
                                       panel.progress, panel.isUploading, panel.mode2Uploading,
                                       panel.mode2UploadComplete, panel.mirror)
      <3>1. PICK h : /\ h = {Len(U!RunUsers(runs[i]))} /\ panel' = [panel EXCEPT !.shards = h]
        BY <1>18 DEF U!ShardUsers
      <3>2. PanelRec(panel)
        BY <1>0, PanelParts DEF TypesInv
      <3>3. QED
        BY <3>1, <3>2, PanelSharded
    <2>2. /\ panel'.root = panel.root /\ panel'.mdus = panel.mdus /\ panel'.shards = h
          /\ panel'.progress = panel.progress
          /\ panel'.mode2UploadComplete = panel.mode2UploadComplete
      BY <2>1 DEF PanelOf
    <2>3. Len(U!RunUsers(runs[i])) = Len(runs[i].base) + 1
      <3>1. PICK b, f, n : b = runs[i].base /\ f = runs[i].file /\ n = Appended(b, f)
        OBVIOUS
      <3>2. IsList(b)
        BY <1>0, <3>1 DEF TypesInv, RunTypes, RunTyped
      <3>3. Len(n) = Len(b) + 1
        BY <3>1, <3>2, ListAppend
      <3>4. QED
        BY <3>1, <3>3 DEF U!RunUsers, Appended
    <2>4. RunsInv'
      BY <1>10, <1>13, <2>1, <2>2, <2>3
    <2>5. QED
      BY <1>17, <2>2, <2>4
  <1>19. CASE U!GatewayUnreachable(i) \/ U!RunFails(i)
    <2>1. PICK h, b, u2 : /\ h = panel.shards
                          /\ panel' = PanelOf(panel.root, panel.mdus, h, b,
                                       panel.progress, panel.isUploading, u2,
                                       panel.mode2UploadComplete, panel.mirror)
      <3>1. PanelRec(panel)
        BY <1>0, PanelParts DEF TypesInv
      <3>2. CASE U!GatewayUnreachable(i)
        <4>1. PICK u2 : panel' = [panel EXCEPT !.mode2Uploading = u2]
          BY <3>2 DEF U!GatewayUnreachable
        <4>2. QED
          BY <3>1, <4>1, PanelUnreached
      <3>3. CASE U!RunFails(i)
        <4>1. PICK u2 : panel' = [panel EXCEPT !.processing = FALSE, !.mode2Uploading = u2]
          BY <3>3 DEF U!RunFails
        <4>2. QED
          BY <3>1, <4>1, PanelFailed
      <3>4. QED
        BY <1>19, <3>2, <3>3
    <2>2. /\ panel'.root = panel.root /\ panel'.mdus = panel.mdus /\ panel'.shards = panel.shards
          /\ panel'.progress = panel.progress
          /\ panel'.mode2UploadComplete = panel.mode2UploadComplete
      BY <2>1 DEF PanelOf
    <2>3. U!ToPhase(i, "wasm") \/ U!ToPhase(i, "over")
      BY <1>19 DEF U!GatewayUnreachable, U!RunFails
    <2>4. q.phase \in {"wasm", "over"}
      <3>1. RunTyped(runs[i]) /\ runs[i] = RunOf(runs[i])
        BY <1>0 DEF TypesInv, RunTypes, RunTyped
      <3>2. PICK p \in {"wasm", "over"} : runs' = Replaced(runs, i, At(runs[i], p))
        BY <2>3, <3>1, NextPhase
      <3>3. runs'[i] = At(runs[i], p)
        <4>1. PICK r : r = At(runs[i], p)
          OBVIOUS
        <4>2. \A j \in 1..Len(runs) : runs'[j] = IF j = i THEN r ELSE runs[j]
          BY <1>0, <3>2, <4>1, ListExcept DEF TypesInv, RunTypes
        <4>3. QED
          BY <4>1, <4>2
      <3>4. q = At(runs[i], p)
        BY <1>11, <3>3
      <3>5. QED
        BY <3>2, <3>4 DEF At
    <2>5. RunsInv'
      BY <1>13, <2>4 DEF LatePhases
    <2>6. QED
      BY <1>17, <2>2, <2>5
  <1>20. CASE UNCHANGED <<panel, stored>> /\ (~U!ShardUsers(i) \/ ~runs[i].mode2)
    <2>1. q.phase \in LatePhases /\ stripe => panel'.shards = {Len(q.base) + 1}
      BY <1>12, <1>14, <1>20
    <2>2. QED
      BY <1>13, <1>17, <1>20, <2>1
  <1>21. QED
    <2>1. ASSUME U!FileUnreadable(i) \/ U!WasmReady(i) \/ U!ReadBase(i) \/ U!InitBuilder(i)
                 \/ U!SetRoots(i) \/ U!AppendRecord(i) \/ U!GetMdu0(i)
          PROVE  UNCHANGED <<panel, stored>> /\ ~U!ShardUsers(i)
      BY <2>1 DEF U!FileUnreadable, U!WasmReady, U!ReadBase, U!InitBuilder, U!SetRoots,
                  U!AppendRecord, U!GetMdu0, U!ShardUsers, U!Step
    <2>2. ASSUME U!ShardUsers(i), ~runs[i].mode2 PROVE UNCHANGED <<panel, stored>>
      BY <2>2 DEF U!ShardUsers
    <2>3. QED
      BY <1>15, <1>16, <1>18, <1>19, <1>20, <2>1, <2>2 DEF U!RunStep

-----------------------------------------------------------------------------
(* Uploads by such a user. *)

LEMMA SharderCardinality == \A T : U!Cardinality(T) = Cardinality(T)
  BY DEF U!Cardinality, Cardinality

LEMMA OneShard ==
    ASSUME NEW n, NEW q, q = U!SetToSeqUp({n}) PROVE IsList(q) /\ Len(q) = 1 /\ q[1] = n
  <1>1. U!Cardinality({n}) = 1
    BY SharderCardinality, FS_Singleton
  <1>2. q = CHOOSE p \in [1..1 -> {n}] : \A j, k \in 1..1 : j < k => p[j] < p[k]
    BY <1>1 DEF U!SetToSeqUp
  <1>3. PICK p \in [1..1 -> {n}] : p = [j \in 1..1 |-> n]
    OBVIOUS
  <1>4. \A j, k \in 1..1 : ~(j < k)
    OBVIOUS
  <1>5. q \in [1..1 -> {n}]
    BY <1>2, <1>3, <1>4
  <1>6. q = [j \in 1..1 |-> q[j]] /\ q[1] = n
    BY <1>5
  <1>7. QED
    BY <1>6, ListFun

\* The list u is a and then b, both of length N.
Halves(u, a, b, N) ==
    /\ IsList(u)
    /\ \A j \in 1..N : j \in 1..Len(u) /\ u[j] = a[j]
    /\ \A j \in 1..N : N + j \in 1..Len(u) /\ u[N + j] = b[j]

LEMMA EqualHalves ==
    ASSUME NEW N, NEW a, NEW b, IsList(a), IsList(b), Len(a) = N, Len(b) = N,
           NEW u, u = Joined(a, b)
    PROVE  Halves(u, a, b, N)
  <1>1. IsList(u)
    BY ListConcat
  <1>2. \A j \in 1..Len(a) : j \in 1..Len(u) /\ u[j] = a[j]
    BY ListConcat
  <1>3. \A j \in 1..Len(b) : Len(a) + j \in 1..Len(u) /\ u[Len(a) + j] = b[j]
    BY ListConcat
  <1>4. QED
    BY <1>1, <1>2, <1>3, Zenon DEF Halves

\* An upload of a stripe is to send the metadata and the shards of the new MDU to all slots.
LEMMA StripeList ==
    ASSUME NEW n, NEW todo, todo = U!StripePieces({n})
    PROVE  /\ IsList(todo)
           /\ \A slot \in U!Slots, p \in {0, n} : Listed(todo, <<slot, p>>)
  <1>1. PICK q : q = U!SetToSeqUp({n})
    OBVIOUS
  <1>2. IsList(q) /\ Len(q) = 1 /\ q[1] = n
    BY <1>1, OneShard
  <1>3. PICK N \in Nat \ {0} : N = NumSlots
    BY SharderConstants
  <1>4. PICK a, b : /\ a = [k \in 1..N |-> <<k, 0>>]
                    /\ b = [k \in 1..N |-> <<((k - 1) % N) + 1, q[((k - 1) \div N) + 1]>>]
    OBVIOUS
  <1>5. todo = Joined(a, b)
    <2>1. NumSlots * Len(q) = N
      BY <1>2, <1>3
    <2>2. QED
      BY <1>1, <1>3, <1>4, <2>1, Zenon DEF U!StripePieces, Joined
  <1>6. \A k \in 1..N : a[k] = <<k, 0>>
    BY <1>4
  <1>7. \A k \in 1..N : b[k] = <<k, n>>
    <2>1. \A k \in 1..N : (k - 1) % N = k - 1 /\ (k - 1) \div N = 0
      BY <1>3
    <2>2. \A k \in 1..N : ((k - 1) % N) + 1 = k /\ ((k - 1) \div N) + 1 = 1
      BY <2>1
    <2>3. QED
      BY <1>2, <1>4, <2>2
  <1>8. IsList(a) /\ IsList(b) /\ Len(a) = N /\ Len(b) = N
    <2>1. a = [k \in 1..N |-> a[k]] /\ b = [k \in 1..N |-> b[k]]
      BY <1>4
    <2>2. N \in Nat
      BY <1>3
    <2>3. QED
      BY <2>1, <2>2, ListFun
  <1>9. /\ IsList(todo)
        /\ \A j \in 1..N : j \in 1..Len(todo) /\ todo[j] = a[j]
        /\ \A j \in 1..N : N + j \in 1..Len(todo) /\ todo[N + j] = b[j]
    <2>1. Halves(todo, a, b, N)
      BY <1>5, <1>8, EqualHalves, Zenon
    <2>2. QED
      BY <2>1, Zenon DEF Halves
  <1>10. ASSUME NEW slot \in U!Slots, NEW p \in {0, n} PROVE Listed(todo, <<slot, p>>)
    <2>1. slot \in 1..N
      BY <1>3 DEF U!Slots
    <2>2. CASE p = 0
      BY <1>6, <1>9, <2>1, <2>2 DEF Listed
    <2>3. CASE p = n
      BY <1>7, <1>9, <2>1, <2>3 DEF Listed
    <2>4. QED
      BY <2>2, <2>3
  <1>11. QED
    BY <1>9, <1>10

SameProgress ==
    panel'.progress = panel.progress /\ panel'.mode2UploadComplete = panel.mode2UploadComplete

\* An upload leaves the runs, the slab shown and the transactions alone.
LEMMA SendRests ==
    ASSUME Ready, SendStep, stored \subseteq stored',
           panel'.root = panel.root, panel'.mdus = panel.mdus, panel'.shards = panel.shards,
           panel'.processing = panel.processing,
           ~panel.processing \/ SameProgress
    PROVE  RunsInv' /\ ViewInv' /\ CommitInv' /\ ReportInv'
  <1>0. /\ UNCHANGED <<mode2, committed, dealId, load, stripe, bases, runs, builder, commit,
                       last, reported, effectKey, persists, store>>
    BY SendFrame
  <1>1. RunsInv /\ ViewInv /\ CommitInv /\ ReportInv
    BY DEF Ready, DeliveryInv
  <1>2. RunsInv'
    BY <1>0, <1>1 DEF RunsInv
  <1>3. ViewInv'
    BY <1>0, <1>1, Zenon DEF ViewInv, SameProgress
  <1>4. commit.st # "none" => Held(stored', commit.deal, commit.slab)
    BY <1>1, HeldGrows DEF CommitInv
  <1>5. CommitInv'
    BY <1>0, <1>1, <1>4 DEF CommitInv
  <1>6. ReportInv'
    BY <1>0, <1>1 DEF ReportInv
  <1>7. QED
    BY <1>2, <1>3, <1>5, <1>6

LEMMA SendLoads == ASSUME Ready, SendStep, load = "done" PROVE LoadInv'
  BY SendFrame DEF LoadInv, Ready, DeliveryInv

LEMMA MirrorDelivers ==
    ASSUME Ready, NEW s \in mirrors, NEW o \in {"success", "skipped", "error"}, U!MirrorEnds(s, o)
    PROVE  DeliveryInv'
  <1>1. SendStep /\ UNCHANGED <<stored, uploads, load, dealId, bases, stripe>>
    BY DEF SendStep, U!MirrorEnds, U!loadVars
  <1>2. PanelRec(panel) /\ panel' = [panel EXCEPT !.mirror = o]
    BY PanelParts DEF Ready, TypesInv, U!MirrorEnds
  <1>3. panel' = PanelOf(panel.root, panel.mdus, panel.shards, panel.processing, panel.progress,
                         panel.isUploading, panel.mode2Uploading, panel.mode2UploadComplete, o)
    BY <1>2, PanelMirrored
  <1>4. /\ panel'.root = panel.root /\ panel'.mdus = panel.mdus /\ panel'.shards = panel.shards
        /\ panel'.processing = panel.processing /\ panel'.progress = panel.progress
        /\ panel'.isUploading = panel.isUploading /\ panel'.mode2Uploading = panel.mode2Uploading
        /\ panel'.mode2UploadComplete = panel.mode2UploadComplete
    BY <1>3 DEF PanelOf
  <1>5. RunsInv' /\ ViewInv' /\ CommitInv' /\ ReportInv'
    BY <1>1, <1>4, SendRests DEF SameProgress
  <1>6. LoadInv'
    <2>1. UNCHANGED <<mode2, runs, commit>>
      BY <1>1, SendFrame
    <2>2. QED
      BY <1>1, <1>4, <2>1, Zenon DEF LoadInv, Ready, DeliveryInv
  <1>7. ShownInv'
    BY <1>1, <1>4 DEF Ready, DeliveryInv, ShownInv, Truthful
  <1>8. UploadInv'
    BY <1>1, <1>4, Zenon DEF Ready, DeliveryInv, UploadInv, Sending
  <1>9. QED
    BY <1>5, <1>6, <1>7, <1>8 DEF DeliveryInv

\* The slab shown is uploaded when no other upload is under way.
LEMMA UploadDelivers ==
    ASSUME Ready, U!Upload, TypesInv' PROVE DeliveryInv'
  <1>0. TypesInv /\ DeliveryInv /\ SendStep
    BY DEF Ready, SendStep
  <1>1. /\ UNCHANGED <<mode2, committed, stored, dealId, load, stripe, bases, runs>>
        /\ panel.mdus # U!NoSlab /\ panel.root # U!NoSlab /\ ~panel.processing
        /\ ~U!activeUploading
    BY DEF U!Upload, U!chainVars, U!loadVars
  <1>2. load = "done"
    BY <1>0, <1>1 DEF DeliveryInv, LoadInv
  <1>3. PICK todo : todo = IF stripe THEN U!StripePieces(panel.shards)
                           ELSE U!MduPieces(panel.mdus.users)
    OBVIOUS
  <1>4. PICK u, t : /\ t = TRUE
                    /\ u = [slab |-> panel.root, deal |-> dealId, at |-> bases,
                            mode2 |-> stripe, todo |-> todo, ok |-> t]
                    /\ uploads' = Append(uploads, u)
    BY <1>0, <1>3, UploadPanel
  <1>5. /\ u.slab = panel.root /\ u.deal = dealId /\ u.at = bases /\ u.mode2 = stripe
        /\ u.todo = todo /\ u.ok
    <2>1. u.ok = t
      BY <1>4
    <2>2. u.ok
      BY <1>4, <2>1
    <2>3. u.slab = panel.root /\ u.deal = dealId /\ u.at = bases /\ u.mode2 = stripe /\ u.todo = todo
      BY <1>4
    <2>4. QED
      BY <2>2, <2>3
  <1>6. /\ IsList(uploads') /\ Len(uploads') = Len(uploads) + 1
        /\ \A j \in 1..Len(uploads) : uploads'[j] = uploads[j]
        /\ uploads'[Len(uploads) + 1] = u
    <2>1. IsList(uploads) /\ uploads' = Appended(uploads, u)
      BY <1>0, <1>4 DEF Appended, TypesInv, UploadTypes
    <2>2. QED
      BY <2>1, ListAppend
  <1>7. \A j \in 1..Len(uploads) : uploads[j].todo = <<>>
    BY <1>0, <1>1 DEF DeliveryInv, UploadInv, Sending, U!activeUploading
  <1>8. ASSUME Sending(u, panel', stored', dealId', bases', stripe') PROVE UploadInv'
    <2>1. \A j \in 1..Len(uploads') : j \in 1..Len(uploads) \/ j = Len(uploads')
      BY <1>0, <1>6 DEF TypesInv, UploadTypes, IsList
    <2>2. \A j \in 1..Len(uploads') :
            uploads'[j].todo # <<>> => j = Len(uploads') /\ uploads'[j] = u
      BY <1>6, <1>7, <2>1
    <2>3. QED
      BY <1>8, <2>2 DEF UploadInv
  <1>9. IsSlab(panel.root) /\ panel.mdus = panel.root /\ IsList(panel.root.users)
    BY <1>0, <1>1 DEF TypesInv, PanelTypes, IsSlab
  <1>10. CASE stripe
    <2>1. panel' = PanelOf(panel.root, panel.mdus, panel.shards, panel.processing,
                           panel.progress, panel.isUploading, TRUE, FALSE, panel.mirror)
      BY <1>0, <1>3, <1>10, UploadPanel
    <2>2. /\ panel'.root = panel.root /\ panel'.mdus = panel.mdus /\ panel'.shards = panel.shards
          /\ panel'.processing = panel.processing
          /\ panel'.mode2Uploading /\ ~panel'.mode2UploadComplete
      BY <2>1, Zenon DEF PanelOf
    <2>3. RunsInv' /\ ViewInv' /\ CommitInv' /\ ReportInv' /\ LoadInv'
      BY <1>0, <1>1, <1>2, <2>2, SendRests, SendLoads
    <2>4. ShownInv'
      BY <1>1, <1>10, <2>2 DEF ShownInv, Truthful
    <2>5. bases = dealId /\ panel.shards = {Len(panel.root.users)}
      BY <1>0, <1>1, <1>2, <1>10 DEF DeliveryInv, LoadInv, ViewInv
    <2>6. /\ IsList(todo)
          /\ Owed(stored, todo, dealId, panel.root)
      <3>1. PICK n : n = Len(panel.root.users)
        OBVIOUS
      <3>2. todo = U!StripePieces({n})
        BY <1>3, <1>10, <2>5, <3>1
      <3>3. QED
        BY <3>1, <3>2, StripeList DEF Owed
    <2>7. Sending(u, panel', stored', dealId', bases', stripe')
      BY <1>1, <1>5, <1>10, <2>2, <2>6, Zenon DEF Sending
    <2>8. QED
      BY <1>8, <2>3, <2>4, <2>7 DEF DeliveryInv
  <1>11. CASE ~stripe
    <2>1. PICK g, a : /\ g = [k \in 1..Len(todo) |-> "pending"] /\ a = TRUE
                      /\ panel' = PanelOf(panel.root, panel.mdus, panel.shards, panel.processing, g,
                                          a, panel.mode2Uploading, panel.mode2UploadComplete,
                                          panel.mirror)
      BY <1>0, <1>3, <1>11, UploadPanel
    <2>2. /\ panel'.root = panel.root /\ panel'.mdus = panel.mdus /\ panel'.shards = panel.shards
          /\ panel'.processing = panel.processing /\ panel'.progress = g
          /\ panel'.isUploading = a
      BY <2>1, Zenon DEF PanelOf
    <2>3. RunsInv' /\ ViewInv' /\ CommitInv' /\ ReportInv' /\ LoadInv'
      BY <1>0, <1>1, <1>2, <2>2, SendRests, SendLoads
    <2>4. /\ IsList(todo) /\ Len(todo) = Len(panel.root.users) + 2
          /\ \A j \in 1..Len(todo) :
               \E p \in {U!Manifest} \cup 0..Len(panel.root.users) : todo[j] = <<1, p>>
      BY <1>3, <1>9, <1>11, MduPiecesList
    <2>5. Len(todo) \in Nat
      BY <2>4 DEF IsList
    <2>6. IsList(g) /\ Len(g) = Len(todo) /\ \A j \in 1..Len(g) : g[j] # "complete"
      <3>1. IsList(g) /\ Len(g) = Len(todo)
        BY <2>1, <2>5, ListFun
      <3>2. QED
        BY <2>1, <3>1
    <2>7. ShownInv'
      BY <1>1, <1>11, <2>2, <2>4, <2>6 DEF ShownInv, Truthful
    <2>8. Sending(u, panel', stored', dealId', bases', stripe')
      <3>1. panel'.isUploading
        BY <2>1, <2>2
      <3>2. QED
        BY <1>1, <1>5, <1>11, <2>2, <2>4, <3>1, Zenon DEF Sending
    <2>9. QED
      BY <1>8, <2>3, <2>7, <2>8 DEF DeliveryInv
  <1>12. QED
    BY <1>10, <1>11

\* What is left of an upload after a piece was answered.
LEMMA PieceSet ==
    ASSUME TypesInv, NEW k \in 1..Len(uploads), NEW ok \in BOOLEAN, U!UploadPiece(k, ok),
           NEW u, u = uploads[k]
    PROVE  \E q : /\ uploads' = Replaced(uploads, k, q)
                  /\ q.slab = u.slab /\ q.deal = u.deal /\ q.at = u.at /\ q.mode2 = u.mode2
                  /\ q.todo = U!Rest(u, ok) /\ (q.ok <=> u.ok /\ ok)
  <1>1. PICK t, o : t = U!Rest(u, ok) /\ o = (u.ok /\ ok)
    OBVIOUS
  <1>2. u = UploadOf(u) /\ IsList(uploads)
    BY DEF TypesInv, UploadTypes
  <1>3. PICK q : q = [[u EXCEPT !.todo = t] EXCEPT !.ok = o]
    OBVIOUS
  <1>4. uploads' = Replaced(uploads, k, q)
    <2>1. uploads' = [uploads EXCEPT ![k].todo = t, ![k].ok = o]
      BY <1>1, Zenon DEF U!UploadPiece
    <2>2. uploads' = [[uploads EXCEPT ![k] = [u EXCEPT !.todo = t]]
                        EXCEPT ![k] = [[u EXCEPT !.todo = t] EXCEPT !.ok = o]]
      BY <1>2, <2>1 DEF IsList
    <2>3. QED
      BY <1>2, <1>3, <2>2 DEF Replaced, IsList
  <1>5. q = [slab |-> u.slab, deal |-> u.deal, at |-> u.at, mode2 |-> u.mode2, todo |-> t, ok |-> o]
    BY <1>2, <1>3 DEF UploadOf
  <1>6. /\ q.slab = u.slab /\ q.deal = u.deal /\ q.at = u.at /\ q.mode2 = u.mode2
        /\ q.todo = t /\ q.ok = o
    BY <1>5
  <1>7. q.ok <=> u.ok /\ ok
    BY <1>1, <1>6, Zenon
  <1>8. QED
    BY <1>1, <1>4, <1>6, <1>7

LEMMA RestIs ==
    ASSUME NEW u, NEW ok \in BOOLEAN, NEW t, t = U!Rest(u, ok)
    PROVE  /\ t = Tail(u.todo) \/ t = <<>>
           /\ u.mode2 /\ u.ok => t = IF ok THEN Tail(u.todo) ELSE <<>>
  BY Zenon DEF U!Rest

\* An upload of a stripe is complete when its last piece is accepted, and all the others were.
LEMMA ShardDelivers ==
    ASSUME NEW S, NEW T, NEW d, NEW s, IsSlab(s), s.mode2, Len(s.users) = s.base + 1,
           NEW todo, IsList(todo), todo # <<>>, NEW t, t = Tail(todo),
           Owed(S, todo, d, s),
           T = S \cup {U!Piece(U!Provider(d, Head(todo)[1]), d, s, Head(todo)[2])}
    PROVE  /\ IsList(t)
           /\ Owed(T, t, d, s)
           /\ t = <<>> => Held(T, d, s)
  <1>1. /\ Len(todo) \in Nat \ {0} /\ Head(todo) = todo[1]
        /\ IsList(t) /\ Len(t) = Len(todo) - 1
        /\ \A j \in 1..Len(t) : j + 1 \in 1..Len(todo) /\ t[j] = todo[j + 1]
    BY ListTail
  <1>2. ASSUME NEW slot \in U!Slots, NEW p \in {0, Len(s.users)}
        PROVE  PieceIn(T, d, slot, d, s, p) \/ Listed(t, <<slot, p>>)
    <2>1. CASE PieceIn(S, d, slot, d, s, p)
      BY <2>1 DEF PieceIn
    <2>2. CASE ~PieceIn(S, d, slot, d, s, p)
      <3>1. PICK j \in 1..Len(todo) : todo[j] = <<slot, p>>
        BY <2>2 DEF Listed, Owed
      <3>2. CASE j = 1
        <4>1. Head(todo)[1] = slot /\ Head(todo)[2] = p
          BY <1>1, <3>1, <3>2
        <4>2. QED
          BY <4>1 DEF PieceIn
      <3>3. CASE j # 1
        <4>1. j - 1 \in 1..Len(t) /\ t[j - 1] = todo[j]
          BY <1>1, <3>1, <3>3
        <4>2. QED
          BY <3>1, <4>1 DEF Listed
      <3>4. QED
        BY <3>2, <3>3
    <2>3. QED
      BY <2>1, <2>2
  <1>3. ASSUME t = <<>> PROVE Held(T, d, s)
    <2>1. \A x : ~Listed(t, x)
      <3>1. \A j \in 1..Len(t) : FALSE
        <4>1. PICK n : n = Len(t) /\ n = 0
          BY <1>3, ListNil
        <4>2. \A j \in 1..n : FALSE
          BY <4>1
        <4>3. QED
          BY <4>1, <4>2, Zenon
      <3>2. QED
        BY <3>1, Zenon DEF Listed
    <2>2. \A p \in {0} \cup (s.base + 1)..Len(s.users) : p \in {0, Len(s.users)}
      BY DEF IsSlab
    <2>3. QED
      BY <1>2, <2>1, <2>2 DEF Held
  <1>4. QED
    BY <1>1, <1>2, <1>3 DEF Owed

\* A step of an upload of MDUs is shown complete when its piece was accepted.
LEMMA MduDelivers ==
    ASSUME NEW S, NEW T, S \subseteq T, NEW v, NEW w, NEW d, NEW at, IsList(v.progress),
           Truthful(v, S, d, at, FALSE), w.root = v.root, NEW p \in Int, NEW st,
           w.progress = U!Marked(v.progress, p, st),
           st = "complete" => PieceIn(T, at, 1, d, v.root, p)
    PROVE  Truthful(w, T, d, at, FALSE)
  <1>1. PICK g, h, n : g = v.progress /\ h = w.progress /\ n = Len(g)
    OBVIOUS
  <1>2. /\ IsList(h) /\ Len(h) = n
        /\ \A j \in 1..n : h[j] = IF IF p = U!Manifest THEN j = n ELSE j = p + 1 /\ j < n
                                  THEN st ELSE g[j]
    <2>1. IsList(g) /\ h = U!Marked(g, p, st)
      BY <1>1
    <2>2. QED
      BY <1>1, <2>1, MarkedList
  <1>3. n \in Nat
    BY <1>1 DEF IsList
  <1>4. SUFFICES ASSUME h # <<>>
                 PROVE  /\ n = Len(v.root.users) + 2
                        /\ \A j \in 1..n : h[j] = "complete" =>
                               PieceIn(T, at, 1, d, v.root, PieceAt(n, j))
    BY <1>1, <1>2, Zenon DEF Truthful
  <1>5. g # <<>>
    BY <1>1, <1>2, <1>4, ListEmpty
  <1>6. /\ n = Len(v.root.users) + 2
        /\ \A j \in 1..n : g[j] = "complete" => PieceIn(S, at, 1, d, v.root, PieceAt(n, j))
    BY <1>1, <1>5, Zenon DEF Truthful
  <1>7. ASSUME NEW j \in 1..n, h[j] = "complete" PROVE PieceIn(T, at, 1, d, v.root, PieceAt(n, j))
    <2>1. CASE g[j] = "complete"
      BY <1>6, <2>1 DEF PieceIn
    <2>2. CASE g[j] # "complete"
      <3>1. /\ st = "complete"
            /\ IF p = U!Manifest THEN j = n ELSE j = p + 1 /\ j < n
        BY <1>2, <1>7, <2>2
      <3>2. PieceAt(n, j) = p
        <4>1. CASE p = U!Manifest
          BY <3>1, <4>1 DEF PieceAt
        <4>2. CASE p # U!Manifest
          BY <1>3, <3>1, <4>2 DEF PieceAt
        <4>3. QED
          BY <4>1, <4>2
      <3>3. QED
        BY <3>1, <3>2
    <2>3. QED
      BY <2>1, <2>2
  <1>8. QED
    BY <1>6, <1>7

LEMMA PieceDelivers ==
    ASSUME Ready, NEW k \in 1..Len(uploads), NEW ok \in BOOLEAN, U!UploadPiece(k, ok)
    PROVE  DeliveryInv'
  <1>0. TypesInv /\ DeliveryInv /\ SendStep
    BY DEF Ready, SendStep
  <1>1. UNCHANGED <<mode2, committed, dealId, load, stripe, bases, runs>>
    BY <1>0, SendFrame
  <1>2. PICK u, h : u = uploads[k] /\ h = Head(u.todo)
    OBVIOUS
  <1>3. /\ u.todo # <<>>
        /\ stored' = IF ok THEN stored \cup {U!Piece(U!Provider(u.at, h[1]), u.deal, u.slab, h[2])}
                           ELSE stored
    BY <1>2 DEF U!UploadPiece
  <1>4. k = Len(uploads) /\ Sending(u, panel, stored, dealId, bases, stripe)
    BY <1>0, <1>2, <1>3 DEF DeliveryInv, UploadInv
  <1>5. load = "done"
    <2>1. uploads # <<>>
      BY <1>4
    <2>2. QED
      BY <1>0, <2>1 DEF DeliveryInv, LoadInv
  <1>6. PICK q : /\ uploads' = Replaced(uploads, k, q)
                 /\ q.slab = u.slab /\ q.deal = u.deal /\ q.at = u.at /\ q.mode2 = u.mode2
                 /\ q.todo = U!Rest(u, ok) /\ (q.ok <=> u.ok /\ ok)
    BY <1>0, <1>2, PieceSet
  <1>7. ASSUME q.todo # <<>> => Sending(q, panel', stored', dealId', bases', stripe')
        PROVE  UploadInv'
    <2>1. /\ IsList(uploads') /\ Len(uploads') = Len(uploads)
          /\ \A j \in 1..Len(uploads) : uploads'[j] = IF j = k THEN q ELSE uploads[j]
      BY <1>0, <1>6, ListExcept DEF TypesInv, UploadTypes
    <2>2. \A j \in 1..Len(uploads) : uploads[j].todo # <<>> => j = k
      BY <1>0, <1>4 DEF DeliveryInv, UploadInv
    <2>3. \A j \in 1..Len(uploads') :
            uploads'[j].todo # <<>> => j = Len(uploads') /\ uploads'[j] = q
      BY <1>4, <2>1, <2>2
    <2>4. QED
      BY <1>7, <2>3 DEF UploadInv
  <1>8. /\ ~panel.processing /\ panel.root # U!NoSlab /\ panel.mdus # U!NoSlab
        /\ IsList(u.todo) /\ u.slab = panel.root /\ u.deal = dealId /\ u.at = bases
        /\ (u.mode2 <=> stripe)
    BY <1>4 DEF Sending
  <1>9. stored \subseteq stored'
    BY <1>3
  <1>10. PICK t : t = Tail(u.todo)
    OBVIOUS
  <1>11. q.todo = t \/ q.todo = <<>>
    BY <1>6, <1>10, RestIs
  <1>12. CASE stripe
    <2>1. /\ bases = dealId /\ panel.root.mode2 = stripe
          /\ Len(panel.root.users) = panel.root.base + 1 /\ IsSlab(panel.root)
      BY <1>0, <1>5, <1>8, <1>12 DEF DeliveryInv, LoadInv, ViewInv, TypesInv, PanelTypes
    <2>2. /\ u.ok /\ panel.mode2Uploading
          /\ Owed(stored, u.todo, dealId, panel.root)
      BY <1>4, <1>12 DEF Sending
    <2>3. u.mode2 /\ panel.root.mode2
      BY <1>8, <1>12, <2>1
    <2>4. q.todo = IF ok THEN t ELSE <<>>
      BY <1>6, <1>10, <2>2, <2>3, RestIs
    <2>5. ShardAnswered(u, ok)
      BY <1>0, <1>2, <2>3, ShardPanel
    <2>6. PICK x, a, b :
            /\ a \in BOOLEAN /\ b \in BOOLEAN
            /\ q.todo # <<>> => a = panel.mode2Uploading
            /\ b => panel.mode2UploadComplete \/ (ok /\ q.todo = <<>>)
            /\ panel' = PanelOf(panel.root, panel.mdus, panel.shards, panel.processing,
                                panel.progress, panel.isUploading, a, b, x)
      BY <1>6, <2>5, Zenon DEF ShardAnswered
    <2>7. /\ panel'.root = panel.root /\ panel'.mdus = panel.mdus /\ panel'.shards = panel.shards
          /\ panel'.processing = panel.processing
          /\ panel'.mode2Uploading = a /\ panel'.mode2UploadComplete = b
      BY <2>6 DEF PanelOf
    <2>8. RunsInv' /\ ViewInv' /\ CommitInv' /\ ReportInv' /\ LoadInv'
      BY <1>0, <1>5, <1>8, <1>9, <2>7, SendRests, SendLoads
    <2>9. ASSUME ok
          PROVE  /\ IsList(t)
                 /\ Owed(stored', t, dealId, panel.root)
                 /\ t = <<>> => Held(stored', dealId, panel.root)
      <3>1. PICK S, T, d, s, todo : /\ S = stored /\ T = stored' /\ d = dealId /\ s = panel.root
                                    /\ todo = u.todo
        OBVIOUS
      <3>2. T = S \cup {U!Piece(U!Provider(d, Head(todo)[1]), d, s, Head(todo)[2])}
        BY <1>2, <1>3, <1>8, <2>1, <2>9, <3>1
      <3>3. /\ IsSlab(s) /\ s.mode2 /\ Len(s.users) = s.base + 1
            /\ IsList(todo) /\ todo # <<>> /\ t = Tail(todo)
        BY <1>3, <1>8, <1>10, <2>1, <2>3, <3>1
      <3>4. Owed(S, todo, d, s)
        BY <2>2, <3>1
      <3>5. /\ IsList(t)
            /\ Owed(T, t, d, s)
            /\ t = <<>> => Held(T, d, s)
        BY <3>2, <3>3, <3>4, ShardDelivers
      <3>6. QED
        BY <3>1, <3>5
    <2>10. ShownInv'
      <3>1. panel.mode2UploadComplete => Held(stored', dealId, panel.root)
        BY <1>0, <1>9, <1>12, HeldGrows DEF DeliveryInv, ShownInv, Truthful
      <3>2. b => Held(stored', dealId, panel.root)
        BY <2>4, <2>6, <2>9, <3>1
      <3>3. QED
        BY <1>1, <1>8, <1>12, <2>7, <3>2 DEF ShownInv, Truthful
    <2>11. ASSUME q.todo # <<>> PROVE Sending(q, panel', stored', dealId', bases', stripe')
      <3>1. ok /\ q.todo = t
        BY <2>4, <2>11
      <3>2. IsList(q.todo) /\ panel'.mode2Uploading /\ q.ok
        BY <1>6, <2>2, <2>6, <2>7, <2>9, <2>11, <3>1
      <3>3. Owed(stored', q.todo, dealId', panel'.root)
        BY <1>1, <2>7, <2>9, <3>1
      <3>4. /\ q.slab = panel'.root /\ q.deal = dealId' /\ q.at = bases' /\ q.mode2 = stripe'
            /\ ~panel'.processing /\ panel'.root # U!NoSlab /\ panel'.mdus # U!NoSlab
        BY <1>1, <1>4, <1>6, <1>8, <2>7 DEF Sending
      <3>5. QED
        BY <1>1, <1>12, <3>2, <3>3, <3>4, Zenon DEF Sending
    <2>12. QED
      BY <1>7, <2>8, <2>10, <2>11 DEF DeliveryInv
  <1>13. CASE ~stripe
    <2>1. /\ panel.isUploading
          /\ \A j \in 1..Len(u.todo) :
                \E p \in {U!Manifest} \cup 0..Len(panel.root.users) : u.todo[j] = <<1, p>>
      BY <1>4, <1>13 DEF Sending
    <2>2. ~u.mode2
      BY <1>8, <1>13
    <2>3. MduAnswered(u, ok)
      BY <1>0, <1>2, <2>2, MduPanel
    <2>4. PICK x, g, a, st :
            /\ st = "complete" => ok
            /\ g = U!Marked(panel.progress, h[2], st)
            /\ a \in BOOLEAN
            /\ q.todo # <<>> => a = panel.isUploading
            /\ panel' = PanelOf(panel.root, panel.mdus, panel.shards, panel.processing,
                                g, a, panel.mode2Uploading, panel.mode2UploadComplete, x)
      BY <1>2, <1>6, <2>3, Zenon DEF MduAnswered
    <2>5. /\ panel'.root = panel.root /\ panel'.mdus = panel.mdus /\ panel'.shards = panel.shards
          /\ panel'.processing = panel.processing /\ panel'.progress = g
          /\ panel'.isUploading = a
      BY <2>4 DEF PanelOf
    <2>6. RunsInv' /\ ViewInv' /\ CommitInv' /\ ReportInv' /\ LoadInv'
      BY <1>0, <1>5, <1>8, <1>9, <2>5, SendRests, SendLoads
    <2>7. /\ Len(u.todo) \in Nat \ {0} /\ h = u.todo[1]
          /\ IsList(t) /\ Len(t) = Len(u.todo) - 1
          /\ \A j \in 1..Len(t) : j + 1 \in 1..Len(u.todo) /\ t[j] = u.todo[j + 1]
      <3>1. PICK s : s = u.todo
        OBVIOUS
      <3>2. IsList(s) /\ s # <<>> /\ t = Tail(s)
        BY <1>3, <1>8, <1>10, <3>1
      <3>3. /\ Len(s) \in Nat \ {0} /\ Head(s) = s[1]
            /\ IsList(t) /\ Len(t) = Len(s) - 1
            /\ \A j \in 1..Len(t) : j + 1 \in 1..Len(s) /\ t[j] = s[j + 1]
        BY <3>2, ListTail
      <3>4. QED
        BY <1>2, <3>1, <3>3
    <2>8. h[1] = 1 /\ h[2] \in Int
      <3>1. PICK p \in {U!Manifest} \cup 0..Len(panel.root.users) : u.todo[1] = <<1, p>>
        BY <2>1, <2>7
      <3>2. p \in Int
        BY DEF U!Manifest
      <3>3. QED
        BY <2>7, <3>1, <3>2
    <2>9. ShownInv'
      <3>1. PICK S, T, v, w, d, at, p : /\ S = stored /\ T = stored' /\ v = panel /\ w = panel'
                                        /\ d = dealId /\ at = bases /\ p = h[2]
        OBVIOUS
      <3>2. IsList(v.progress) /\ w.root = v.root /\ w.progress = U!Marked(v.progress, p, st)
        BY <1>0, <2>4, <2>5, <3>1 DEF TypesInv, PanelTypes
      <3>3. st = "complete" => PieceIn(T, at, 1, d, v.root, p)
        BY <1>3, <1>8, <2>4, <2>8, <3>1 DEF PieceIn
      <3>4. Truthful(v, S, d, at, FALSE)
        <4>1. Truthful(panel, stored, dealId, bases, stripe)
          BY <1>0 DEF DeliveryInv, ShownInv
        <4>2. QED
          BY <1>13, <3>1, <4>1, Zenon DEF Truthful
      <3>5. Truthful(w, T, d, at, FALSE)
        BY <1>9, <2>8, <3>1, <3>2, <3>3, <3>4, MduDelivers
      <3>6. QED
        BY <1>1, <1>13, <3>1, <3>5, Zenon DEF ShownInv, Truthful
    <2>10. ASSUME q.todo # <<>> PROVE Sending(q, panel', stored', dealId', bases', stripe')
      <3>1. q.todo = t /\ IsList(q.todo) /\ panel'.isUploading
        BY <1>11, <2>1, <2>4, <2>5, <2>7, <2>10
      <3>2. \A j \in 1..Len(t) :
               \E p \in {U!Manifest} \cup 0..Len(panel.root.users) : t[j] = <<1, p>>
        BY <2>1, <2>7
      <3>3. /\ q.slab = panel'.root /\ q.deal = dealId' /\ q.at = bases' /\ q.mode2 = stripe'
            /\ ~panel'.processing /\ panel'.root # U!NoSlab /\ panel'.mdus # U!NoSlab
        BY <1>1, <1>4, <1>6, <1>8, <2>5 DEF Sending
      <3>4. \A j \in 1..Len(q.todo) :
               \E p \in {U!Manifest} \cup 0..Len(panel'.root.users) : q.todo[j] = <<1, p>>
        BY <2>5, <3>1, <3>2, Zenon
      <3>5. ~stripe'
        BY <1>1, <1>13
      <3>6. QED
        BY <3>1, <3>3, <3>4, <3>5 DEF Sending
    <2>11. QED
      BY <1>7, <2>6, <2>9, <2>10 DEF DeliveryInv
  <1>14. QED
    BY <1>12, <1>13

-----------------------------------------------------------------------------
(* Transactions, and what is reported of them. *)

\* All steps of the upload shown are complete.
LEMMA CompleteIsHeld ==
    ASSUME Ready, U!readyToCommit
    PROVE  panel.root # U!NoSlab /\ Held(stored, dealId, panel.root) /\ panel.root.mode2 = stripe
           /\ load = "done"
  <1>0. /\ TypesInv /\ DeliveryInv /\ Truthful(panel, stored, dealId, bases, stripe)
        /\ panel.root # U!NoSlab /\ U!isUploadComplete
    BY DEF Ready, DeliveryInv, ShownInv, U!readyToCommit
  <1>1. panel.root.mode2 = stripe /\ load = "done"
    BY <1>0 DEF DeliveryInv, ViewInv, LoadInv
  <1>2. CASE stripe
    <2>1. panel.mode2UploadComplete
      BY <1>0, <1>2 DEF U!isUploadComplete
    <2>2. QED
      BY <1>0, <1>1, <1>2, <2>1 DEF Truthful
  <1>3. CASE ~stripe
    <2>1. PICK n \in Nat : n = Len(panel.root.users)
      BY <1>0 DEF TypesInv, PanelTypes, IsSlab, IsList
    <2>2. /\ panel.progress # <<>>
          /\ \A j \in 1..Len(panel.progress) : panel.progress[j] = "complete"
      BY <1>0, <1>3 DEF U!isUploadComplete
    <2>3. /\ Len(panel.progress) = n + 2
          /\ \A j \in 1..(n + 2) : PieceIn(stored, bases, 1, dealId, panel.root, PieceAt(n + 2, j))
      BY <1>0, <1>3, <2>1, <2>2 DEF Truthful
    <2>4. bases \in {dealId, NoDeal}
      BY <1>0 DEF Ready, TypesInv, LoadTypes, OneDeal
    <2>5. ASSUME NEW p \in {U!Manifest} \cup 0..n
          PROVE  \E at \in {dealId, NoDeal} : PieceIn(stored, at, 1, dealId, panel.root, p)
      <3>1. PieceIn(stored, bases, 1, dealId, panel.root, p)
        <4>1. CASE p = U!Manifest
          <5>1. n + 2 \in 1..(n + 2) /\ PieceAt(n + 2, n + 2) = p
            BY <4>1 DEF PieceAt
          <5>2. QED
            BY <2>3, <5>1
        <4>2. CASE p \in 0..n
          <5>1. p + 1 \in 1..(n + 2) /\ PieceAt(n + 2, p + 1) = p
            BY <4>2 DEF PieceAt
          <5>2. QED
            BY <2>3, <5>1
        <4>3. QED
          BY <4>1, <4>2
      <3>2. QED
        BY <2>4, <3>1
    <2>6. Held(stored, dealId, panel.root)
      <3>1. ~panel.root.mode2
        BY <1>1, <1>3
      <3>2. QED
        BY <2>1, <2>5, <3>1 DEF Held
    <2>7. QED
      BY <1>0, <1>1, <2>6
  <1>4. QED
    BY <1>2, <1>3

LEMMA ChainGrows ==
    ASSUME TypesInv, CommitStep
    PROVE  /\ \A d \in PanelDeals : \A s : InChain(committed, d, s) => InChain(committed', d, s)
           /\ U!Mine => InChain(committed', commit.deal, commit.slab)
  <1>1. CASE U!Mine
    <2>1. PICK d, s, o, q : d = commit.deal /\ s = commit.slab /\ o = committed[d] /\ q = Append(o, s)
      OBVIOUS
    <2>2. d \in PanelDeals /\ IsList(o) /\ q = Appended(o, s)
      BY <2>1 DEF TypesInv, CommitTypes, ChainTypes, Appended
    <2>3. committed' = [committed EXCEPT ![d] = q]
      BY <1>1, <2>1 DEF U!Mine
    <2>4. \A e \in PanelDeals : committed'[e] = IF e = d THEN q ELSE committed[e]
      BY <2>3 DEF TypesInv, ChainTypes
    <2>5. /\ Len(q) = Len(o) + 1 /\ Len(o) \in Nat
          /\ \A j \in 1..Len(o) : q[j] = o[j]
          /\ q[Len(o) + 1] = s
      BY <2>2, ListAppend DEF IsList
    <2>6. \A j \in 1..Len(o) : j \in 1..Len(q)
      BY <2>5
    <2>7. Len(o) + 1 \in 1..Len(q)
      BY <2>5
    <2>8. InChain(committed', d, s)
      BY <2>2, <2>4, <2>5, <2>7 DEF InChain
    <2>9. ASSUME NEW e \in PanelDeals, NEW x, InChain(committed, e, x) PROVE InChain(committed', e, x)
      <3>1. PICK j \in 1..Len(committed[e]) : committed[e][j] = x
        BY <2>9 DEF InChain
      <3>2. CASE e = d
        BY <2>1, <2>4, <2>5, <2>6, <3>1, <3>2 DEF InChain
      <3>3. CASE e # d
        BY <2>4, <3>1, <3>3 DEF InChain
      <3>4. QED
        BY <3>2, <3>3
    <2>10. QED
      BY <2>1, <2>8, <2>9
  <1>2. CASE ~U!Mine
    <2>1. committed' = committed
      BY <1>2, CommitFrame
    <2>2. QED
      BY <1>2, <2>1
  <1>3. QED
    BY <1>1, <1>2

LEMMA CommitDelivers ==
    ASSUME Ready, CommitStep PROVE DeliveryInv'
  <1>0. TypesInv /\ DeliveryInv /\ CommitInv /\ ReportInv /\ LoadInv
    BY DEF Ready, DeliveryInv
  <1>1. UNCHANGED <<mode2, stored, dealId, load, stripe, bases, panel, runs, builder, uploads,
                    mirrors, last, reported, effectKey, persists, store>>
    BY CommitFrame
  <1>2. RunsInv' /\ ViewInv'
    BY <1>0, <1>1 DEF DeliveryInv, RunsInv, ViewInv
  <1>3. ShownInv'
    BY <1>0, <1>1 DEF DeliveryInv, ShownInv
  <1>4. UploadInv'
    BY <1>0, <1>1 DEF DeliveryInv, UploadInv
  <1>5. commit.deal \in PanelDeals /\ dealId \in PanelDeals /\ commit.tx \in Nat
    BY <1>0, SharderConstants DEF TypesInv, CommitTypes, LoadTypes
  <1>6. /\ last'.root # U!NoSlab => InChain(committed', dealId', last'.root)
        /\ reported'.deal # NoDeal => /\ reported'.deal \in PanelDeals
                                      /\ InChain(committed', reported'.deal, reported'.slab)
    BY <1>0, <1>1, <1>5, ChainGrows DEF ReportInv
  <1>7. CASE U!Commit
    <2>1. commit' = [st |-> "wallet", tx |-> commit.tx + 1, deal |-> dealId, slab |-> panel.root]
      BY <1>7 DEF U!Commit
    <2>2. /\ commit'.st = "wallet" /\ commit'.tx = commit.tx + 1 /\ commit'.deal = dealId
          /\ commit'.slab = panel.root
      BY <2>1
    <2>3. /\ panel.root # U!NoSlab /\ Held(stored, dealId, panel.root) /\ panel.root.mode2 = stripe
          /\ load = "done"
      BY <1>7, CompleteIsHeld DEF U!Commit
    <2>4. LoadInv'
      BY <1>0, <1>1, <2>3 DEF LoadInv
    <2>5. LoadsFail \/ panel.root.mode2 = mode2[dealId]
      BY <1>0, <2>3 DEF LoadInv
    <2>6. last.tx \in Nat /\ last.tx < commit.tx + 1 /\ last.tx <= commit.tx + 1
      BY <1>0, <1>5 DEF ReportInv
    <2>7. CommitInv'
      BY <1>1, <2>2, <2>3, <2>5, <2>6 DEF CommitInv
    <2>8. ReportInv'
      BY <1>1, <1>6, <2>2, <2>6 DEF ReportInv
    <2>9. QED
      BY <1>2, <1>3, <1>4, <2>4, <2>7, <2>8 DEF DeliveryInv
  <1>8. CASE ~U!Commit
    <2>1. PICK st \in {"sent", "mined", "success", "error"} :
            /\ commit' = [st |-> st, tx |-> commit.tx, deal |-> commit.deal, slab |-> commit.slab]
            /\ st = "sent" => commit.st = "wallet"
            /\ st = "error" => commit.st \in {"wallet", "sent"}
            /\ st = "mined" => U!Mine
            /\ st = "success" => U!Receipt
      BY <1>0, <1>8, CommitSet
    <2>2. commit'.st = st /\ commit'.tx = commit.tx /\ commit'.deal = commit.deal
          /\ commit'.slab = commit.slab
      BY <2>1
    <2>3. st = "mined" => commit.st = "sent"
      BY <2>1 DEF U!Mine
    <2>4. st = "success" => commit.st = "mined"
      BY <2>1 DEF U!Receipt
    <2>5. commit.st \in {"wallet", "sent", "mined"}
      BY <2>1, <2>3, <2>4
    <2>6. load = "done"
      BY <1>0, <2>5 DEF LoadInv
    <2>7. LoadInv'
      BY <1>0, <1>1, <2>6 DEF LoadInv
    <2>8. st \in {"mined", "success"} => InChain(committed', commit.deal, commit.slab)
      <3>1. CASE st = "mined"
        BY <1>0, <2>1, <3>1, ChainGrows
      <3>2. CASE st = "success"
        BY <1>0, <1>5, <2>4, <3>2, ChainGrows DEF CommitInv
      <3>3. QED
        BY <3>1, <3>2
    <2>9. CommitInv'
      BY <1>0, <1>1, <2>1, <2>2, <2>5, <2>8 DEF CommitInv
    <2>10. ReportInv'
      BY <1>0, <1>1, <1>6, <2>2 DEF ReportInv
    <2>11. QED
      BY <1>2, <1>3, <1>4, <2>7, <2>9, <2>10 DEF DeliveryInv
  <1>9. QED
    BY <1>7, <1>8

\* The effect that reports a commit finds the slab of its transaction shown.
LEMMA SaveDelivers ==
    ASSUME Ready, SaveStep PROVE DeliveryInv'
  <1>0. TypesInv /\ DeliveryInv /\ CommitInv /\ ReportInv
    BY DEF Ready, DeliveryInv
  <1>1. UNCHANGED <<mode2, committed, stored, dealId, load, stripe, bases, panel, runs,
                    builder, uploads, mirrors, commit>>
    BY SaveFrame
  <1>2. LoadInv' /\ RunsInv' /\ ViewInv'
    BY <1>0, <1>1 DEF DeliveryInv, LoadInv, RunsInv, ViewInv
  <1>3. ShownInv'
    BY <1>0, <1>1 DEF DeliveryInv, ShownInv
  <1>4. UploadInv'
    BY <1>0, <1>1 DEF DeliveryInv, UploadInv
  <1>5. CommitInv' /\ ReportInv'
    <2>1. CASE UNCHANGED <<last, reported>>
      BY <1>0, <1>1, <2>1 DEF CommitInv, ReportInv
    <2>2. CASE ~UNCHANGED <<last, reported>>
      <3>1. /\ U!CommitEffectDue
            /\ last' = [tx |-> commit.tx, root |-> panel.root]
            /\ reported' = [deal |-> dealId, slab |-> panel.root]
        <4>1. U!Effects
          BY <2>2, SaveFrame
        <4>2. QED
          BY <2>2, <4>1 DEF U!Effects
      <3>2. commit.st = "success" /\ last.tx # commit.tx
        BY <3>1 DEF U!CommitEffectDue, U!isCommitSuccess
      <3>3. panel.root = commit.slab /\ InChain(committed, commit.deal, commit.slab)
        BY <1>0, <3>2 DEF CommitInv
      <3>4. commit.deal = dealId /\ dealId \in PanelDeals /\ commit.tx \in Nat
        BY <1>0, SharderConstants DEF Ready, OneDeal, TypesInv, LoadTypes, CommitTypes
      <3>5. /\ last'.tx = commit.tx /\ last'.root = panel.root
            /\ reported'.deal = dealId /\ reported'.slab = panel.root
        BY <3>1
      <3>6. CommitInv'
        BY <1>0, <1>1, <3>2, <3>5 DEF CommitInv
      <3>7. ReportInv'
        BY <1>1, <3>3, <3>4, <3>5 DEF ReportInv
      <3>8. QED
        BY <3>6, <3>7
    <2>3. QED
      BY <2>1, <2>2
  <1>6. QED
    BY <1>2, <1>3, <1>4, <1>5 DEF DeliveryInv

LEMMA StepDelivers ==
    ASSUME Ready, U!PanelStep, TypesInv', BuilderInv' PROVE DeliveryInv'
  <1>1. CASE LoadStep
    BY <1>1, LoadDelivers
  <1>2. ASSUME NEW f, U!PickFile(f) PROVE DeliveryInv'
    BY <1>2, PickDelivers
  <1>3. ASSUME NEW i \in 1..Len(runs), U!RunStep(i) PROVE DeliveryInv'
    BY <1>3, RunDelivers
  <1>4. CASE SendStep
    BY <1>4, UploadDelivers, PieceDelivers, MirrorDelivers DEF SendStep
  <1>5. CASE CommitStep
    BY <1>5, CommitDelivers
  <1>6. CASE SaveStep
    BY <1>6, SaveDelivers
  <1>7. QED
    BY <1>1, <1>2, <1>3, <1>4, <1>5, <1>6, PanelSteps

LEMMA TypesOK == ASSUME TypesInv PROVE U!TypeOK
  <1>1. /\ careful \in BOOLEAN /\ mode2 \in [PanelDeals -> BOOLEAN]
        /\ dealId \in PanelDeals /\ bases \in PanelDeals \cup {NoDeal} /\ stripe \in BOOLEAN
        /\ load \in {"stripe", "bases", "done"}
    BY DEF TypesInv, LoadTypes
  <1>2. /\ \A i \in 1..Len(runs) : runs[i].phase \in Phases
        /\ Len(runs) <= MaxRuns /\ Len(uploads) <= MaxUploads
    BY DEF TypesInv, RunTypes, RunTyped, UploadTypes
  <1>3. /\ commit.st \in {"none", "wallet", "sent", "mined", "success", "error"}
        /\ commit.tx \in 0..MaxCommits
    BY DEF TypesInv, CommitTypes
  <1>4. /\ \A k \in 1..Len(panel.progress) : panel.progress[k] \in {"pending", "complete", "error"}
        /\ panel.mdus # U!NoSlab => panel.mdus = panel.root
        /\ panel.root = U!NoSlab => panel.mdus = U!NoSlab
    BY DEF TypesInv, PanelTypes
  <1>5. \A p \in persists : p.next \in 0..(Len(p.mdus.users) + 1)
    BY DEF TypesInv, SaveTypes, PersistTyped
  <1>6. QED
    BY <1>1, <1>2, <1>3, <1>4, <1>5 DEF U!TypeOK, Phases

LEMMA DeliveryMeans ==
    ASSUME DeliveryInv PROVE U!CommitFollowsUpload /\ U!CommittedMeansOnChain
  <1>1. CommitInv /\ ReportInv
    BY DEF DeliveryInv
  <1>2. \A d, s : Held(stored, d, s) => U!Stored(d, s, s.base + 1)
    BY DEF Held, PieceIn, U!Stored
  <1>3. \A d, s : InChain(committed, d, s) => U!OnChain(d, s)
    BY DEF InChain, U!OnChain
  <1>4. U!CommitFollowsUpload
    BY <1>1, <1>2 DEF CommitInv, U!CommitFollowsUpload
  <1>5. U!CommittedMeansOnChain
    BY <1>1, <1>3 DEF ReportInv, U!CommittedMeansOnChain, U!isAlreadyCommitted
  <1>6. QED
    BY <1>4, <1>5

\* CommitFollowsUpload (FileSharder.tsx: isUploadComplete, readyToCommit and the effect
\* that reports a commit): whatever a patient user of one deal does, and whichever
\* requests, transactions and writes fail, what is committed was accepted by the
\* providers, in stripes when the deal's settings say so, and what is shown and reported
\* as committed is on chain.
THEOREM CommitsWereUploaded == U!Spec => []CommitFollowsUpload
  <1> DEFINE Inv == /\ TypesInv
                    /\ careful => BuilderInv
                    /\ careful /\ OneDeal => DeliveryInv
  <1>1. U!Init => Inv
    BY TypesInit, BuilderInit, DeliveryInit
  <1>2. Inv /\ [U!Next]_(U!vars) => Inv'
    <2>1. ASSUME [U!Next]_(U!vars) PROVE careful' = careful
      BY <2>1 DEF U!Next, U!vars
    <2>2. ASSUME Inv, U!Next PROVE Inv'
      <3>1. U!PanelStep /\ careful' = careful
        BY <2>2 DEF U!Next
      <3>2. TypesInv'
        BY <2>2, <3>1, TypesKept
      <3>3. careful => BuilderInv'
        BY <2>2, BuilderKept
      <3>4. careful /\ OneDeal => DeliveryInv'
        BY <2>2, <3>1, <3>2, <3>3, StepDelivers DEF Ready
      <3>5. OneDeal' = OneDeal
        BY DEF OneDeal
      <3>6. QED
        BY <3>1, <3>2, <3>3, <3>4, <3>5
    <2>3. ASSUME Inv, UNCHANGED U!vars PROVE Inv'
      <3>1. UNCHANGED <<careful, mode2, committed, stored, dealId, load, stripe, bases, panel, runs,
                        builder, uploads, mirrors, commit, last, reported, effectKey, persists,
                        store>>
        BY <2>3 DEF U!vars, U!stepVars, U!chainVars, U!loadVars, U!saveVars
      <3>2. TypesInv'
        BY <2>3, <3>1 DEF TypesInv, LoadTypes, RunTypes, PanelTypes, UploadTypes, CommitTypes,
                          ChainTypes, SaveTypes
      <3>3. BuilderInv => BuilderInv'
        BY <3>1 DEF BuilderInv
      <3>4. DeliveryInv => DeliveryInv'
        BY <3>1 DEF DeliveryInv, LoadInv, RunsInv, ViewInv, ShownInv, UploadInv, CommitInv, ReportInv
      <3>5. OneDeal' = OneDeal
        BY DEF OneDeal
      <3>6. QED
        BY <2>3, <3>1, <3>2, <3>3, <3>4, <3>5
    <2>4. QED
      BY <2>2, <2>3
  <1>3. Inv => CommitFollowsUpload
    BY TypesOK, DeliveryMeans DEF CommitFollowsUpload, OneDeal
  <1>4. QED
    BY <1>1, <1>2, <1>3, PTL DEF U!Spec
=============================================================================
