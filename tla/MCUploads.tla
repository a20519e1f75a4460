------------------------------ MODULE MCUploads -------------------------------
(*****************************************************************************)
(* An upload from end to end, the instance of Uploads and Ingest for TLC.    *)
(* `which' says whether a behaviour is of the workers, the panel or the      *)
(* provider, and the others stay where they start.  The panel has a careful  *)
(* user who stays on one deal, or one who moves between two while their      *)
(* settings may fail to load; the provider has three requests for one slab   *)
(* and may restart, or it has two, pieces of the slab also arrive through    *)
(* /sp/upload_*, and its disk may fail.                                      *)
(*****************************************************************************)
EXTENDS Uploads, Ingest, Sequences

CONSTANTS MovingFiles, MovingDeals,     \* of the user who moves
          Pair                          \* the requests for a shared slab

VARIABLE which

workerVars == <<requests, promise, inbox, outbox, alive, wasm, nilWasm, mdu0Builder,
                waiting, sharding, task, pool, commitWorkers, robin, initOk, byWorker,
                queue, dead>>
panelVars  == <<mode2, committed, stored, dealId, load, stripe, bases, panel, runs, builder,
                uploads, mirrors, commit, last, reported, effectKey, persists, store>>
ingestVars == <<final, lock, staging, pc, held, tries, sent, job, restarts, overrun>>

M == INSTANCE FileSharder WITH
        Files <- MovingFiles, Deals <- MovingDeals, FirstDeal <- PanelDeal, NumSlots <- 1,
        LoadsFail <- TRUE, FilesVanish <- FALSE,
        MaxRuns <- 1, MaxUploads <- 0, MaxCommits <- 1,
        patient <- careful, chain <- committed, deal <- dealId, view <- panel, opfs <- store

A == INSTANCE SlabIngest WITH DiskErrors <- FALSE, MaxCrashes <- MaxRestarts, crashes <- restarts
J == INSTANCE SlabIngest WITH MaxCrashes <- 0, crashes <- restarts

ASSUME M!SharderAssumption

MCInit ==
    /\ which \in {"workers", "panel", "moving panel", "ingest", "shared ingest"}
    /\ W!Init /\ I!Init
    /\ IF which = "moving panel" THEN M!Init ELSE U!Init
    /\ careful = (which # "moving panel")
    /\ shared = (which = "shared ingest")
    /\ which \notin {"panel", "moving panel"} => mode2[PanelDeal]

\* The requests are alike and leave these places once, so the behaviours in which
\* they leave them in the order of their numbers stand for all.
BeforeTheDirectory ==
    {"new", "building", "looking", "locking", "waiting", "breaking", "sleeping"}
InOrder ==
    \A q, r \in Requests :
        q < r /\ pc'[q] \in BeforeTheDirectory => pc'[r] \in BeforeTheDirectory

MCNext ==
    \/ /\ which = "workers" /\ W!Next
       /\ UNCHANGED <<which, careful, panelVars, shared, ingestVars>>
    \/ which = "panel" /\ U!Next /\ UNCHANGED <<which, workerVars, shared, ingestVars>>
    \/ which = "moving panel" /\ M!Next /\ UNCHANGED <<which, workerVars, shared, ingestVars>>
    \/ /\ which = "ingest" /\ A!Next /\ UNCHANGED <<which, workerVars, careful, panelVars>>
       /\ InOrder
    \/ /\ which = "shared ingest" /\ J!Next /\ UNCHANGED <<which, workerVars, careful, panelVars>>
       /\ \A r \in Requests \ Pair : pc'[r] = "new"

\* The fairness of WorkerPool, FileSharder and SlabIngest, each of the
\* behaviours that are of it.
MCFairness ==
    /\ WF_workerVars(which = "workers" /\ W!OnMessage)
    /\ WF_workerVars(which = "workers" /\ W!GatewayStep)
    /\ \A w \in W!Workers : WF_workerVars(which = "workers" /\ W!PoolStep(w))
    /\ WF_panelVars(which = "moving panel" /\ M!Effects)
    /\ SF_panelVars(which = "moving panel" /\ Len(runs) = 1 /\ M!RunStep(1))
    /\ \A r \in Pair : WF_ingestVars(which = "shared ingest" /\ J!Handle(r))

MCSpec ==
    /\ MCInit /\ [][MCNext]_<<which, careful, workerVars, panelVars, shared, ingestVars>>
    /\ MCFairness
-----------------------------------------------------------------------------
\* What was begun comes to an end: a request sent to a gateway worker that runs
\* is answered or rejected, also when workers fail under it; every run of the
\* panel on a file that can be read ends, in a slab or in an error, and frees
\* the panel; and without a restart a request to the provider ends in a way the
\* poller of its job can see.
UploadsSettle ==
    /\ which = "workers" => W!RequestsSettle
    /\ which = "moving panel" => M!ProcessingEnds
    /\ which = "shared ingest" => J!JobSettles
=============================================================================
