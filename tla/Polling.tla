------------------------------- MODULE Polling --------------------------------
(*****************************************************************************)
(* Views that follow a remote: the pollers of the website, and the faucet's  *)
(* button with the service behind it.  The two share no state.  What is said *)
(* of them here is checked by MCPolling and proved in BrowserProofs.         *)
(*****************************************************************************)
EXTENDS Naturals

CONSTANTS
    Accounts, MaxInFlight, MaxVersion,              \* Pollers
    MaxClicks, MaxAttempts, MaxPolls, Conns         \* Faucet

VARIABLES
    view, version, key, timer, leaked, reqs, shown, listed, loading, error,     \* Pollers
    local, patient, handler, conn, attempt, answer, requesting,         \* Faucet
    lastTx, txStatus, polls, timers, message, cooling, sent, txs

P == INSTANCE Pollers
F == INSTANCE Faucet WITH loading <- requesting

ASSUME PollingAssumption == P!PollersAssumption /\ F!FaucetAssumption
-----------------------------------------------------------------------------
\* A view is of the account it shows: its state takes answers for that account
\* only, never those of an earlier effect still under way; and while it says it
\* is loading, a query of its running effect is under way, so that the flag
\* can always be lowered.
ViewsAreCurrent == P!ViewsAreCurrent

\* The transaction is followed after the request is over: for a patient visitor
\* of the network, a status of `confirmed' or `failed' beside a transaction is
\* that transaction's fate.
StatusIsTrue ==
    /\ F!TypeOK
    /\ patient /\ ~local => F!StatusIsTrue

\* However often a request is tried again, and however often the button is
\* pressed, the service sends the tokens at most once for a click: the hook
\* tries again only after an answer that precedes the command.
PaidOnce == F!PaidOnce
=============================================================================
