------------------------------ MODULE MCPolling -------------------------------
(*****************************************************************************)
(* The instance of Polling for TLC.  `which' says whether a behaviour is of  *)
(* a view or of the faucet, and the other stays where it starts.  The faucet *)
(* has a patient visitor of the network, or an impatient one of a local      *)
(* chain.                                                                    *)
(*****************************************************************************)
EXTENDS Polling

VARIABLE which

viewVars   == <<view, version, key, timer, leaked, reqs, shown, listed, loading, error>>
faucetVars == <<local, patient, handler, conn, attempt, answer, requesting, lastTx, txStatus,
                polls, timers, message, cooling, sent, txs>>

MCInit ==
    /\ which \in {"view", "faucet"}
    /\ P!Init /\ F!Init /\ patient = ~local
    /\ which = "faucet" => view = "chain"
    /\ which = "view" => patient /\ \A r, q \in DOMAIN conn : conn[r] = conn[q]

MCNext ==
    \/ which = "view" /\ P!Next /\ UNCHANGED <<which, faucetVars>>
    \/ which = "faucet" /\ F!Next /\ UNCHANGED <<which, viewVars>>

MCSpec ==
    /\ MCInit /\ [][MCNext]_<<which, viewVars, faucetVars>>
    /\ P!Fairness /\ F!Fairness
-----------------------------------------------------------------------------
\* Waiting ends: a view that stays open for an account comes to show the
\* remote's state once that has stopped changing, whatever was lost before, and
\* every request to the faucet releases the button, whatever the service
\* answers.
WaitingEnds ==
    /\ P!CatchesUp
    /\ F!RequestSettles
=============================================================================
