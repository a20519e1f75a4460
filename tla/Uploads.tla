------------------------------- MODULE Uploads --------------------------------
(*****************************************************************************)
(* An upload in the browser: the workers that encode it, and the panel that  *)
(* uploads and commits it.  The two share no state.  What is said of them    *)
(* here is checked by MCUploads and proved in UploadProofs.                  *)
(*****************************************************************************)
EXTENDS Naturals

CONSTANTS
    MaxRequests, Batches, PoolSize, ErrorsInInit,                       \* WorkerPool
    Uploaded, PanelDeals, PanelDeal, NoDeal, NumSlots,                  \* FileSharder
    GatewayEnabled, LoadsFail, FilesVanish, MaxRuns, MaxUploads, MaxCommits

VARIABLES
    requests, promise, inbox, outbox, alive, wasm, nilWasm, mdu0Builder,    \* WorkerPool
    waiting, sharding, task, pool, commitWorkers, robin, initOk, byWorker, queue, dead,
    careful, mode2, committed, stored, dealId, load, stripe, bases, panel,  \* FileSharder
    runs, builder, uploads, mirrors, commit, last, reported, effectKey, persists, store

W == INSTANCE WorkerPool WITH builder <- mdu0Builder
U == INSTANCE FileSharder WITH
        Files <- Uploaded, Deals <- PanelDeals, FirstDeal <- PanelDeal,
        patient <- careful, chain <- committed, deal <- dealId, view <- panel, opfs <- store

ASSUME UploadsAssumption == W!PoolAssumption /\ U!SharderAssumption
-----------------------------------------------------------------------------
\* The gateway worker answers in full and once: the witness of an MDU that the
\* page receives holds the commitments of all its blobs, whichever workers
\* computed them, failed or were lost meanwhile; and when a request's promise
\* is settled no second answer is on its way.
AnswersAreWhole ==
    /\ W!TypeOK
    /\ W!WitnessIsWhole
    /\ W!AnsweredOnce

\* For a user who waits and stays on one deal: a root is committed only when the
\* providers of the deal have accepted the slab (metadata, manifest and what is
\* new in it), and the button that says "Committed!", and the report to the
\* dashboard, are about a root that is on chain in that deal.
CommitFollowsUpload ==
    careful =>
        /\ U!TypeOK
        /\ PanelDeals = {PanelDeal} => U!CommitFollowsUpload /\ U!CommittedMeansOnChain

\* For a user who waits: the MDU #0 of a slab has the records and roots of its
\* own run, and those it was appended to, though all runs share the worker's
\* builder.
OwnBuilder == careful => U!OwnBuilder
=============================================================================
