----------------------------- MODULE Retrieval ------------------------------
(***************************************************************************)
(* A download in the browser, and the router its calls go through.  The    *)
(* two share no state.                                                     *)
(***************************************************************************)
EXTENDS Transport

CONSTANTS
    K, M, Rows, Blobs, Striped, GatewayPresent, ReqSigRequired    \* Fetch

VARIABLES
    phase, reason, range, planned, parts, asked, auth,            \* Fetch
    file, opens, chain, txs

downloadVars == <<phase, reason, range, planned, parts, asked, auth, file, opens, chain, txs>>

F == INSTANCE Fetch

ASSUME RetrievalAssumption == StatusesAssumption /\ F!StripeAssumption
-----------------------------------------------------------------------------
\* Fees are paid out for what the user holds and nothing else: bytes are
\* fetched only under a session on chain, of the provider that holds them,
\* whose blob range contains them; the owner confirms only when the page has
\* every chunk of the range, each fetched once; and no session completes for a
\* download the user does not hold or has not confirmed.
OnlyDeliveredIsPaid ==
    /\ F!TypeOK
    /\ F!FetchedUnderSession
    /\ F!ConfirmedIsComplete
    /\ F!PaidIsDelivered

\* Every provider of a finished download is asked for its proof, so that each
\* of its sessions completes and its fee is paid.
DeliveredIsPaid == F!DeliveredIsPaid
=============================================================================
