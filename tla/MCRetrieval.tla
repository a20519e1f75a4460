----------------------------- MODULE MCRetrieval ------------------------------
(*****************************************************************************)
(* The router and a download, from two data slots and a parity slot with two *)
(* rows, two MDUs of four blobs.  `which' says which of the two a behaviour  *)
(* is of; the other stays where it starts.                                   *)
(*****************************************************************************)
EXTENDS Retrieval

VARIABLE which

MCInit ==
    /\ which \in {"router", "download"}
    /\ Init /\ F!Init
    /\ which = "download" => stored = "auto" /\ config.p2pEnabled /\ config.gatewayDisabled

MCNext ==
    \/ which = "router" /\ Next /\ UNCHANGED <<which, downloadVars>>
    \/ which = "download" /\ F!Next /\ UNCHANGED <<which, vars>>

MCSpec ==
    /\ MCInit /\ [][MCNext]_<<which, vars, downloadVars>>
    /\ Fairness /\ F!Fairness
=============================================================================
