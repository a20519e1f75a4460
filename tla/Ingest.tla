-------------------------------- MODULE Ingest --------------------------------
(*****************************************************************************)
(* The slabs a provider takes in.  What is said of them here is checked by   *)
(* MCUploads and proved in ProviderProofs.                                   *)
(*****************************************************************************)
EXTENDS Naturals

CONSTANTS Requests, Shards, MaxTries, MaxRestarts, DiskErrors

VARIABLES shared, final, lock, staging, pc, held, tries, sent, job, restarts, overrun

I == INSTANCE SlabIngest WITH MaxCrashes <- MaxRestarts, crashes <- restarts

ASSUME IngestAssumption == I!SlabIngestAssumption
-----------------------------------------------------------------------------
\* The lock admits one request at a time to the directory of a slab: through
\* restarts that leave the lock file behind, and through the breaking of such a
\* file, as long as no request holds the lock for longer than the two minutes
\* after which it is broken, and no two go to break the same one.
LockExcludes == I!TypeOK /\ I!LockExcludes

\* When every piece comes through a request: a slab that looks complete is -
\* mode2FinalizeStagingDir throws the staged artifacts away on the strength of
\* it - and once a request has put its slab in place, no other request or
\* restart takes an artifact of it away again.
SlabStaysWhole == ~shared => I!SlabStaysWhole
=============================================================================
