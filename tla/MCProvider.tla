------------------------------ MODULE MCProvider ------------------------------
(*****************************************************************************)
(* The instance of Provider for TLC.  `which' says whether a behaviour is of *)
(* the proofs or of the provider's own sessions, and the other stays where   *)
(* it starts.  The sessions are taken with requests under one nonce for two  *)
(* chunks, and with two nonces, one chunk and a restart.                     *)
(*****************************************************************************)
EXTENDS Provider, Sequences

CONSTANTS
    FirstNonce, FirstChunk      \* the ones used when there is only one

VARIABLE which

proofVars   == <<status, proofs, fetches, submit, chunk, waiting, phase, lost, dropped>>
sessionVars == <<past, replays, bucket, cache, single, expired, requests, got, opened, claims>>

N == INSTANCE DownloadSessions WITH Nonces <- {FirstNonce}, MaxCrashes <- 0
R == INSTANCE DownloadSessions WITH Chunks <- {FirstChunk}, MaxCrashes <- 1

MCInit ==
    /\ which \in {"proofs", "sessions", "restarted sessions"}
    /\ S!Init /\ D!Init

\* Nonces and chunks are alike: of each the first that is used is the first one.
\* A nonce expires when a request has brought it; what is done with a request on
\* arrival does not depend on the time.
InOrder ==
    /\ \A r \in DOMAIN requests' :
         /\ requests'[r].arg \in Nonces \ {FirstNonce} =>
              \E q \in 1 .. r - 1 : requests'[q].arg = FirstNonce
         /\ requests'[r].arg \in Chunks \ {FirstChunk} =>
              \E q \in 1 .. r - 1 : requests'[q].arg = FirstChunk
    /\ past' \subseteq {requests'[r].arg : r \in DOMAIN requests'}

MCNext ==
    \/ which = "proofs" /\ S!Next /\ UNCHANGED <<which, sessionVars>>
    \/ which = "sessions" /\ N!Next /\ InOrder /\ UNCHANGED <<which, proofVars>>
    \/ which = "restarted sessions" /\ R!Next /\ InOrder /\ UNCHANGED <<which, proofVars>>

\* The fairness of SessionProofs, of the behaviours that are of it.
MCFairness ==
    /\ WF_proofVars(which = "proofs" /\ S!Page)
    /\ WF_proofVars(which = "proofs" /\ S!Submitting)
    /\ \A f \in S!Attempts : WF_proofVars(which = "proofs" /\ S!Fetching(f))

MCSpec ==
    /\ MCInit /\ [][MCNext]_<<which, crashes, proofVars, sessionVars>>
    /\ MCFairness
-----------------------------------------------------------------------------
\* If no answer is ever lost, a session the page has confirmed is proved in the
\* end, so that the provider is paid; where its proofs did not get on chain, the
\* page was told and they are all still recorded, for another request to submit.
ConfirmedIsProved ==
    []~lost => ([]~dropped => S!ConfirmedIsProved) /\ S!ConfirmedIsProvable
=============================================================================
