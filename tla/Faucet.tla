----------------------------- MODULE Faucet -----------------------------
(***************************************************************************)
(* Asking for test tokens: the faucet service (nil_faucet), the useFaucet  *)
(* hook and the Dashboard's handler around it.                             *)
(* The service limits each remote address to one request per cooldown and  *)
(* runs `nilchaind tx bank send' for the others; the hook tries again      *)
(* while it is limited, and then follows the transaction in the            *)
(* background, after the button has been released; the handler waits for   *)
(* a balance and writes a message that an effect on the transaction's      *)
(* status writes too.  A transaction is named after the click it is for.   *)
(***************************************************************************)
EXTENDS Naturals, FiniteSets

CONSTANTS MaxClicks,    \* bound: clicks on the faucet button
          MaxAttempts,  \* maxAttempts of requestFunds (5 in the code)
          MaxPolls,     \* tries of pollTx (30 in the code)
          Conns         \* remote addresses (ip:port) of one visitor

\* What the constants are taken to be.
FaucetAssumption ==
    /\ MaxClicks \in Nat \ {0}
    /\ MaxAttempts \in Nat \ {0}
    /\ MaxPolls \in Nat \ {0}

Clicks == 1 .. MaxClicks
NoTx == 0

VARIABLES local,     \* whether the LCD is on localhost
          patient,   \* whether the visitor waits for one request to be over
          handler,   \* where each click's handleRequestFunds is
          conn,      \* connection each click's POST came over
          attempt,   \* attempt of each click's requestFunds
          answer,    \* tx_hash each click was answered with
          loading,   \* hook: a request is under way
          lastTx,    \* hook: hash of the last transaction
          txStatus,  \* hook: status of the last transaction
          polls,     \* tries left to each running pollTx
          timers,    \* transactions whose 1.5 s timer is set (localhost)
          message,   \* the Dashboard's status message
          cooling,   \* service: addresses with a request in the cooldown
          sent,      \* service: commands run for each click
          txs        \* chain: fate of each transaction

hookVars == <<loading, lastTx, txStatus, polls, timers>>
stepVars == <<handler, conn, attempt, answer, hookVars, message, cooling, sent, txs>>
vars == <<local, patient, stepVars>>

Phases == {"none", "posted", "running", "ran", "backoff", "balance", "done"}
Statuses == {"idle", "pending", "confirmed", "failed"}
Fates == {"none", "broadcast", "executed", "failed", "dropped"}
Messages == {"none", "waiting", "awaiting", "pending", "confirmed", "failed", "request failed"}
Msg(kind, tx) == [kind |-> kind, tx |-> tx]

Init ==
    /\ local \in BOOLEAN
    /\ patient \in BOOLEAN
    /\ handler = [r \in Clicks |-> "none"]
    /\ conn \in [Clicks -> Conns]
    /\ attempt = [r \in Clicks |-> 0]
    /\ answer = [r \in Clicks |-> NoTx]
    /\ loading = FALSE
    /\ lastTx = NoTx
    /\ txStatus = "idle"
    /\ polls = [r \in Clicks |-> 0]
    /\ timers = {}
    /\ message = Msg("none", NoTx)
    /\ cooling = {}
    /\ sent = [r \in Clicks |-> 0]
    /\ txs = [r \in Clicks |-> "none"]

\* The status of the hook changes, and with it the message: the Dashboard's
\* effect on [faucetTxStatus, faucetTx].
SetStatus(status) ==
    /\ txStatus' = status
    /\ message' = IF status # txStatus /\ lastTx # NoTx /\ status \in {"confirmed", "failed"}
                  THEN Msg(status, lastTx) ELSE message

----------------------------------------------------------------------------
(* The request                                                             *)

\* The button is clicked; it is disabled while a request is under way.
Click(r) ==
    /\ handler[r] = "none"
    /\ \A q \in Clicks : q < r => handler[q] # "none"
    /\ ~loading
    /\ patient => /\ \A q \in Clicks : handler[q] \in {"none", "done"} /\ polls[q] = 0
                  /\ timers = {}
    /\ handler' = [handler EXCEPT ![r] = "posted"]
    /\ attempt' = [attempt EXCEPT ![r] = 1]
    /\ loading' = TRUE
    /\ lastTx' = NoTx
    /\ txStatus' = "idle"
    /\ UNCHANGED <<conn, answer, polls, timers, message, cooling, sent, txs>>

\* The service answers 429 within the cooldown, and the hook waits.
RateLimited(r) ==
    /\ handler[r] = "posted"
    /\ conn[r] \in cooling
    /\ handler' = [handler EXCEPT ![r] = "backoff"]
    /\ UNCHANGED <<conn, attempt, answer, hookVars, message, cooling, sent, txs>>

\* Leaves the button disabled.
FailRequestBusy(r) ==
    /\ handler' = [handler EXCEPT ![r] = "done"]
    /\ txStatus' = "failed"
    /\ message' = Msg("request failed", NoTx)
    /\ UNCHANGED loading

\* requestFunds throws: status, button and message say so.
FailRequest(r) ==
    /\ handler' = [handler EXCEPT ![r] = "done"]
    /\ txStatus' = "failed"
    /\ message' = Msg("request failed", NoTx)
    /\ loading' = FALSE

\* The wait is over: the next attempt, over the same or another connection, or
\* the error of the last one.
TryAgain(r) ==
    /\ handler[r] = "backoff"
    /\ \/ /\ attempt[r] < MaxAttempts
          /\ attempt' = [attempt EXCEPT ![r] = @ + 1]
          /\ conn' \in {[conn EXCEPT ![r] = c] : c \in Conns}
          /\ handler' = [handler EXCEPT ![r] = "posted"]
          /\ UNCHANGED <<loading, txStatus, message>>
       \/ /\ attempt[r] = MaxAttempts
          /\ FailRequest(r)
          /\ UNCHANGED <<attempt, conn>>
    /\ UNCHANGED <<answer, lastTx, polls, timers, cooling, sent, txs>>

\* The service lets the request through and notes its time.
Admit(r) ==
    /\ handler[r] = "posted"
    /\ conn[r] \notin cooling
    /\ cooling' = cooling \cup {conn[r]}
    /\ handler' = [handler EXCEPT ![r] = "running"]
    /\ UNCHANGED <<conn, attempt, answer, hookVars, message, sent, txs>>

\* The command broadcasts the transfer.
Broadcast(r) ==
    /\ handler[r] = "running"
    /\ handler' = [handler EXCEPT ![r] = "ran"]
    /\ sent' = [sent EXCEPT ![r] = @ + 1]
    /\ txs' = [txs EXCEPT ![r] = "broadcast"]
    /\ UNCHANGED <<conn, attempt, answer, hookVars, message, cooling>>

\* The command ends and the hash is found in its output, or is not: the hook
\* notes the transaction and begins to follow it, the handler to wait.
Reply(r, hash) ==
    /\ handler[r] = "ran"
    /\ answer' = [answer EXCEPT ![r] = hash]
    /\ handler' = [handler EXCEPT ![r] = "balance"]
    /\ loading' = FALSE
    /\ IF hash = NoTx
       THEN UNCHANGED <<lastTx, txStatus, polls, timers>>
       ELSE /\ lastTx' = hash
            /\ txStatus' = "pending"
            /\ polls' = IF local THEN polls ELSE [polls EXCEPT ![r] = MaxPolls]
            /\ timers' = IF local THEN timers \cup {r} ELSE timers
    /\ message' = Msg("waiting", NoTx)
    /\ UNCHANGED <<conn, attempt, cooling, sent, txs>>

\* Tries again after an error of the command.
CommandFailsRetry(r) ==
    /\ handler[r] \in {"posted", "running", "ran"}
    /\ handler' = [handler EXCEPT ![r] = "backoff"]
    /\ UNCHANGED <<conn, attempt, answer, hookVars, message, cooling, sent, txs>>

\* The service is not there, its command fails or is stopped by its timeout
\* after it has broadcast the transaction, or the connection breaks: every
\* answer but 200 and 429 throws.
CommandFails(r) ==
    /\ handler[r] \in {"posted", "running", "ran"}
    /\ FailRequest(r)
    /\ UNCHANGED <<conn, attempt, answer, lastTx, polls, timers, cooling, sent, txs>>

\* waitForStakeBalance sees a balance or gives up, and the handler writes its
\* last message.
BalanceOver(r) ==
    /\ handler[r] = "balance"
    /\ handler' = [handler EXCEPT ![r] = "done"]
    /\ message' = IF answer[r] = NoTx THEN Msg("awaiting", NoTx) ELSE Msg("pending", answer[r])
    /\ UNCHANGED <<conn, attempt, answer, hookVars, cooling, sent, txs>>

----------------------------------------------------------------------------
(* Following the transaction                                               *)

\* Takes any included transaction for a success.
PollTxAnyCode(r) ==
    /\ polls[r] > 0
    /\ \/ /\ txs[r] \in {"executed", "failed"}
          /\ SetStatus("confirmed")
          /\ polls' = [polls EXCEPT ![r] = 0]
       \/ /\ polls' = [polls EXCEPT ![r] = @ - 1]
          /\ IF polls[r] = 1 THEN SetStatus("pending") ELSE UNCHANGED <<txStatus, message>>
    /\ UNCHANGED <<handler, conn, attempt, answer, loading, lastTx, timers, cooling, sent, txs>>

\* One try of pollTx: the transaction is found with its code, or is not found
\* or the query fails; the last try leaves the status pending.
PollTx(r) ==
    /\ polls[r] > 0
    /\ \/ /\ txs[r] = "executed"
          /\ SetStatus("confirmed")
          /\ polls' = [polls EXCEPT ![r] = 0]
       \/ /\ txs[r] = "failed"
          /\ SetStatus("failed")
          /\ polls' = [polls EXCEPT ![r] = 0]
       \/ /\ polls' = [polls EXCEPT ![r] = @ - 1]
          /\ IF polls[r] = 1 THEN SetStatus("pending") ELSE UNCHANGED <<txStatus, message>>
    /\ UNCHANGED <<handler, conn, attempt, answer, loading, lastTx, timers, cooling, sent, txs>>

\* On localhost the transaction is taken for confirmed after 1.5 seconds.
TimerFires(r) ==
    /\ r \in timers
    /\ timers' = timers \ {r}
    /\ SetStatus("confirmed")
    /\ UNCHANGED <<handler, conn, attempt, answer, loading, lastTx, polls, cooling, sent, txs>>

----------------------------------------------------------------------------
(* Service and chain                                                       *)

CooldownOver(c) ==
    /\ c \in cooling
    /\ cooling' = cooling \ {c}
    /\ UNCHANGED <<handler, conn, attempt, answer, hookVars, message, sent, txs>>

\* The chain executes the transfer, rejects it, or never includes it.
Settle(r) ==
    /\ txs[r] = "broadcast"
    /\ txs' \in {[txs EXCEPT ![r] = f] : f \in {"executed", "failed", "dropped"}}
    /\ UNCHANGED <<handler, conn, attempt, answer, hookVars, message, cooling, sent>>

\* A step of the website, the service or the chain.
Step ==
    \/ \E r \in Clicks :
        \/ Click(r)
        \/ RateLimited(r)
        \/ TryAgain(r)
        \/ Admit(r)
        \/ Broadcast(r)
        \/ \E hash \in {r, NoTx} : Reply(r, hash)
        \/ CommandFails(r)
        \/ BalanceOver(r)
        \/ PollTx(r)
        \/ TimerFires(r)
        \/ Settle(r)
    \/ \E c \in Conns : CooldownOver(c)

\* Neither the site nor the visitor changes.
Next == Step /\ UNCHANGED <<local, patient>>

Spec == Init /\ [][Next]_vars

\* The service answers: it has no queue, and its command has a timeout.  The
\* hook's waits and polls are timers.
Fairness ==
    \A r \in Clicks :
        /\ WF_stepVars(RateLimited(r) \/ Admit(r))
        /\ WF_stepVars(TryAgain(r))
        /\ WF_stepVars(CommandFails(r) \/ \E hash \in {r, NoTx} : Reply(r, hash))
        /\ WF_stepVars(PollTx(r))
        /\ WF_stepVars(BalanceOver(r))

FairSpec == Spec /\ Fairness

----------------------------------------------------------------------------
(* Properties                                                              *)

\* The variables have their types, and no request makes more attempts than
\* the loop of requestFunds allows.
TypeOK ==
    /\ local \in BOOLEAN
    /\ patient \in BOOLEAN
    /\ handler \in [Clicks -> Phases]
    /\ conn \in [Clicks -> Conns]
    /\ attempt \in [Clicks -> 0 .. MaxAttempts]
    /\ answer \in [Clicks -> Clicks \cup {NoTx}]
    /\ loading \in BOOLEAN
    /\ lastTx \in Clicks \cup {NoTx}
    /\ txStatus \in Statuses
    /\ polls \in [Clicks -> 0 .. MaxPolls]
    /\ timers \subseteq Clicks
    /\ message \in [kind : Messages, tx : Clicks \cup {NoTx}]
    /\ cooling \subseteq Conns
    /\ sent \in [Clicks -> 0 .. MaxAttempts]
    /\ txs \in [Clicks -> Fates]

\* Hazard: a retry of what was already done.  However often a request is tried
\* again, the service sends the tokens at most once for a click: the hook tries
\* again only after an answer that precedes the command.
PaidOnce == \A r \in Clicks : sent[r] <= 1

\* Hazard: the transaction is followed after the request is over.  A status of
\* `confirmed' or `failed' beside a transaction is that transaction's fate.
StatusIsTrue ==
    /\ txStatus = "confirmed" /\ lastTx # NoTx => txs[lastTx] = "executed"
    /\ txStatus = "failed" /\ lastTx # NoTx => txs[lastTx] = "failed"

\* Every request releases the button, whatever the service answers.
RequestSettles == loading ~> ~loading
-----------------------------------------------------------------------------
(* What a document, a comment or a test says and the code does not keep; the *)
(* README tells how. *)

\* The message does not call a transaction pending that the hook has reported
\* confirmed.
MessageIsCurrent ==
    ~(message.kind = "pending" /\ lastTx = message.tx /\ txStatus = "confirmed")

\* `Rate Limit (Simple IP based)': one visitor has one request per cooldown.
OneRequestPerIp == \A c, d \in cooling : c = d
=============================================================================
