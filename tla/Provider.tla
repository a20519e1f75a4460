------------------------------- MODULE Provider -------------------------------
(*****************************************************************************)
(* The sessions of a provider: the proofs it stores for those that are on    *)
(* chain, and those it keeps itself.  The two share nothing but its          *)
(* restarts.  What is said of them here is checked by MCProvider and proved  *)
(* in ProviderProofs.                                                        *)
(*****************************************************************************)
EXTENDS Naturals

CONSTANTS
    MaxCrashes,
    BlobCount, MaxFetches,                      \* SessionProofs
    MaxRequests, Nonces, Chunks                 \* DownloadSessions

VARIABLES
    crashes,
    status, proofs, fetches, submit, chunk, waiting, phase, lost, dropped,  \* SessionProofs
    past, replays, bucket, cache, single, expired, requests, got, opened,
    claims                                                                  \* DownloadSessions

S == INSTANCE SessionProofs
D == INSTANCE DownloadSessions

ASSUME ProviderAssumption ==
    /\ S!SessionProofsAssumption
    /\ D!DownloadSessionsAssumption
-----------------------------------------------------------------------------
\* Whatever fails, restarts included: a chunk the page was given has its proof
\* in the database until the chain has accepted the session's proofs
\* (storeOnChainSessionProof comes before the answer, and the record is deleted
\* only after the transaction was seen).  As long as no answer was lost: when
\* the page has every chunk, what is recorded is what the chain accepts, one
\* proof per blob in order, and a finished download leaves nothing behind.
AckedIsStored ==
    /\ S!TypeOK
    /\ S!AckedIsStored
    /\ ~lost => S!ProvableSession /\ S!DoneIsCleaned

\* No chunk given is forgotten: a chunk the client was given stays in the
\* database, through restarts, until the session's receipt is submitted or the
\* session expires; and until the first restart whoever loads a session sees
\* the chunks that were given before, and a session whose record is gone is not
\* in the cache once no request is under way.
GivenIsRecorded ==
    /\ D!TypeOK
    /\ D!GivenIsRecorded
    /\ crashes = 0 => D!LoadSeesGiven /\ D!TakenIsGone

\* Signed nonces and sessions are used once, whatever is sent twice, at once or
\* after a restart: a nonce opens one session at most until it expires, at most
\* one of the download sessions it ever opens gives a chunk, and a fetch session
\* is claimed once at most (takeFetchSession `atomically consumes a session so
\* it can only be used once').
UsedOnce == D!UsedOnce
=============================================================================
