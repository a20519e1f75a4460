--------------------------- MODULE BrowserProofs ---------------------------
(***************************************************************************)
(* Proofs about the parts of the website that keep state between awaits:   *)
(* the faucet's button with the service behind it, the views that poll a   *)
(* remote, the deal explorer and the dashboard.  Each is an instance of    *)
(* its own and shares nothing with the others.                             *)
(***************************************************************************)
EXTENDS Polling, Pages, Integers, FiniteSets, Sequences, SequenceTheorems,
        WellFoundedInduction, TLAPS

-----------------------------------------------------------------------------
(***************************************************************************)
(* The faucet.  The service is asked again only after an answer that comes *)
(* before its command has run: a click whose command has run is past the   *)
(* loop of requestFunds.                                                   *)
(***************************************************************************)
PaidInv ==
    /\ F!TypeOK
    /\ \A r \in F!Clicks :
         /\ handler[r] \in {"none", "posted", "running", "backoff"} => sent[r] = 0
         /\ sent[r] <= 1

LEMMA FaucetInit == ASSUME F!FaucetAssumption, F!Init PROVE PaidInv
  <1>1. 0 \in 0..MaxAttempts /\ 0 \in 0..MaxPolls
    BY DEF F!FaucetAssumption
  <1>2. message \in [kind : F!Messages, tx : F!Clicks \cup {F!NoTx}]
    BY DEF F!Init, F!Msg, F!Messages
  <1>3. F!TypeOK
    BY <1>1, <1>2 DEF F!Init, F!TypeOK, F!Phases, F!Statuses, F!Fates
  <1>4. \A r \in F!Clicks : sent[r] = 0
    BY DEF F!Init
  <1>5. QED
    BY <1>3, <1>4 DEF PaidInv

LEMMA MessageType ==
    ASSUME NEW kind \in F!Messages, NEW tx \in F!Clicks \cup {F!NoTx}
    PROVE  F!Msg(kind, tx) \in [kind : F!Messages, tx : F!Clicks \cup {F!NoTx}]
  BY DEF F!Msg

LEMMA StatusType ==
    ASSUME F!TypeOK, NEW status \in F!Statuses, F!SetStatus(status)
    PROVE  /\ txStatus' \in F!Statuses
           /\ message' \in [kind : F!Messages, tx : F!Clicks \cup {F!NoTx}]
  <1>1. status \in {"confirmed", "failed"} => status \in F!Messages
    BY DEF F!Messages
  <1>2. status \in {"confirmed", "failed"}
        => F!Msg(status, lastTx) \in [kind : F!Messages, tx : F!Clicks \cup {F!NoTx}]
    BY <1>1, MessageType DEF F!TypeOK
  <1>3. message \in [kind : F!Messages, tx : F!Clicks \cup {F!NoTx}]
    BY DEF F!TypeOK
  <1>4. QED
    BY <1>2, <1>3 DEF F!SetStatus

LEMMA FaucetType ==
    ASSUME F!FaucetAssumption, PaidInv, [F!Next]_F!vars PROVE PaidInv'
  <1>0. /\ MaxAttempts \in Nat \ {0} /\ MaxPolls \in Nat \ {0}
        /\ F!TypeOK /\ local' \in BOOLEAN /\ patient' \in BOOLEAN
        /\ \A r \in F!Clicks : /\ handler[r] \in {"none", "posted", "running", "backoff"} => sent[r] = 0
                               /\ sent[r] <= 1
    BY DEF F!FaucetAssumption, PaidInv, F!TypeOK, F!Next, F!vars
  <1>1. ASSUME NEW r \in F!Clicks, F!Click(r) PROVE PaidInv'
    <2>1. 1 \in 0..MaxAttempts
      BY <1>0
    <2>2. QED
      BY <1>0, <1>1, <2>1 DEF F!Click, PaidInv, F!TypeOK, F!Phases, F!Statuses
  <1>2. ASSUME NEW r \in F!Clicks, F!RateLimited(r) \/ F!Admit(r) PROVE PaidInv'
    <2>1. conn[r] \in Conns
      BY <1>0 DEF F!TypeOK
    <2>2. QED
      BY <1>0, <1>2, <2>1 DEF F!RateLimited, F!Admit, F!hookVars, PaidInv, F!TypeOK, F!Phases
  <1>3. ASSUME NEW r \in F!Clicks, F!FailRequest(r),
               UNCHANGED <<conn, attempt, answer, lastTx, polls, timers, cooling, sent, txs>>
        PROVE  PaidInv'
    <2>1. message' \in [kind : F!Messages, tx : F!Clicks \cup {F!NoTx}]
      BY <1>3, MessageType DEF F!FailRequest, F!Messages
    <2>2. QED
      BY <1>0, <1>3, <2>1 DEF F!FailRequest, PaidInv, F!TypeOK, F!Phases, F!Statuses
  <1>4. ASSUME NEW r \in F!Clicks, F!TryAgain(r) PROVE PaidInv'
    <2>1. CASE attempt[r] = MaxAttempts /\ F!FailRequest(r) /\ UNCHANGED <<attempt, conn>>
      BY <1>3, <1>4, <2>1 DEF F!TryAgain
    <2>2. CASE /\ attempt[r] < MaxAttempts
               /\ attempt' = [attempt EXCEPT ![r] = @ + 1]
               /\ conn' \in {[conn EXCEPT ![r] = c] : c \in Conns}
               /\ handler' = [handler EXCEPT ![r] = "posted"]
               /\ UNCHANGED <<requesting, txStatus, message>>
      <3>1. attempt[r] + 1 \in 0..MaxAttempts
        BY <1>0, <2>2 DEF F!TypeOK
      <3>2. conn' \in [F!Clicks -> Conns]
        BY <1>0, <2>2 DEF F!TypeOK
      <3>3. sent[r] = 0 /\ UNCHANGED <<answer, lastTx, polls, timers, cooling, sent, txs>>
        BY <1>0, <1>4 DEF F!TryAgain
      <3>4. QED
        BY <1>0, <2>2, <3>1, <3>2, <3>3 DEF PaidInv, F!TypeOK, F!Phases
    <2>3. QED
      BY <1>4, <2>1, <2>2 DEF F!TryAgain
  <1>5. ASSUME NEW r \in F!Clicks, F!Broadcast(r) PROVE PaidInv'
    <2>1. sent[r] = 0 /\ sent' = [sent EXCEPT ![r] = sent[r] + 1]
      BY <1>0, <1>5 DEF F!Broadcast
    <2>2. sent' = [sent EXCEPT ![r] = 1] /\ 1 \in 0..MaxAttempts
      BY <1>0, <2>1
    <2>3. QED
      BY <1>0, <1>5, <2>2 DEF F!Broadcast, F!hookVars, PaidInv, F!TypeOK, F!Phases, F!Fates
  <1>6. ASSUME NEW r \in F!Clicks, NEW hash \in {r, F!NoTx}, F!Reply(r, hash) PROVE PaidInv'
    <2>1. message' \in [kind : F!Messages, tx : F!Clicks \cup {F!NoTx}]
      BY <1>6, MessageType DEF F!Reply, F!Messages
    <2>2. MaxPolls \in 0..MaxPolls
      BY <1>0
    <2>3. /\ polls' \in [F!Clicks -> 0..MaxPolls] /\ timers' \subseteq F!Clicks
          /\ lastTx' \in F!Clicks \cup {F!NoTx} /\ txStatus' \in F!Statuses
      BY <1>0, <1>6, <2>2 DEF F!Reply, F!TypeOK, F!Statuses
    <2>4. QED
      BY <1>0, <1>6, <2>1, <2>3 DEF F!Reply, PaidInv, F!TypeOK, F!Phases
  <1>7. ASSUME NEW r \in F!Clicks, F!CommandFails(r) PROVE PaidInv'
    BY <1>3, <1>7 DEF F!CommandFails
  <1>8. ASSUME NEW r \in F!Clicks, F!BalanceOver(r) PROVE PaidInv'
    <2>1. "awaiting" \in F!Messages /\ "pending" \in F!Messages /\ F!NoTx \in F!Clicks \cup {F!NoTx}
      BY DEF F!Messages
    <2>2. answer[r] \in F!Clicks \cup {F!NoTx}
      BY <1>0 DEF F!TypeOK
    <2>3. message' \in [kind : F!Messages, tx : F!Clicks \cup {F!NoTx}]
      BY <1>8, <2>1, <2>2, MessageType DEF F!BalanceOver
    <2>4. QED
      BY <1>0, <1>8, <2>3 DEF F!BalanceOver, F!hookVars, PaidInv, F!TypeOK, F!Phases
  <1>9. ASSUME NEW r \in F!Clicks, F!PollTx(r) PROVE PaidInv'
    <2>1. polls[r] \in 0..MaxPolls /\ polls[r] > 0
      BY <1>0, <1>9 DEF F!PollTx, F!TypeOK
    <2>2. polls' \in {[polls EXCEPT ![r] = 0], [polls EXCEPT ![r] = polls[r] - 1]}
      BY <1>9 DEF F!PollTx
    <2>3. polls' \in [F!Clicks -> 0..MaxPolls]
      BY <1>0, <2>1, <2>2 DEF F!TypeOK
    <2>4. \/ \E status \in {"confirmed", "failed", "pending"} : F!SetStatus(status)
          \/ UNCHANGED <<txStatus, message>>
      BY <1>9 DEF F!PollTx
    <2>5. /\ txStatus' \in F!Statuses
          /\ message' \in [kind : F!Messages, tx : F!Clicks \cup {F!NoTx}]
      <3>1. \A status \in {"confirmed", "failed", "pending"} : status \in F!Statuses
        BY DEF F!Statuses
      <3>2. QED
        BY <1>0, <2>4, <3>1, StatusType DEF F!TypeOK
    <2>6. UNCHANGED <<handler, conn, attempt, answer, requesting, lastTx, timers, cooling, sent, txs>>
      BY <1>9 DEF F!PollTx
    <2>7. QED
      BY <1>0, <2>3, <2>5, <2>6 DEF PaidInv, F!TypeOK
  <1>10. ASSUME NEW r \in F!Clicks, F!TimerFires(r) PROVE PaidInv'
    <2>1. /\ txStatus' \in F!Statuses
          /\ message' \in [kind : F!Messages, tx : F!Clicks \cup {F!NoTx}]
      BY <1>0, <1>10, StatusType DEF F!TimerFires, F!Statuses
    <2>2. QED
      BY <1>0, <1>10, <2>1 DEF F!TimerFires, PaidInv, F!TypeOK
  <1>11. ASSUME NEW r \in F!Clicks, F!Settle(r) PROVE PaidInv'
    <2>1. txs' \in [F!Clicks -> F!Fates]
      BY <1>0, <1>11 DEF F!Settle, F!TypeOK, F!Fates
    <2>2. QED
      BY <1>0, <1>11, <2>1 DEF F!Settle, F!hookVars, PaidInv, F!TypeOK
  <1>12. ASSUME NEW c \in Conns, F!CooldownOver(c) PROVE PaidInv'
    BY <1>0, <1>12 DEF F!CooldownOver, F!hookVars, PaidInv, F!TypeOK
  <1>13. CASE UNCHANGED F!vars
    BY <1>0, <1>13 DEF F!vars, F!stepVars, F!hookVars, PaidInv, F!TypeOK
  <1>14. QED
    BY <1>1, <1>2, <1>4, <1>5, <1>6, <1>7, <1>8, <1>9, <1>10, <1>11, <1>12, <1>13
       DEF F!Next, F!Step

\* However often a request is tried again and the button pressed, for any number of
\* clicks, attempts and connections, the service sends the tokens at most once for a
\* click: requestFunds tries again only after a 429, which precedes the command.
THEOREM TokensSentOnce == F!Spec => []PaidOnce
  <1>1. F!Init => PaidInv
    BY FaucetInit, PollingAssumption
  <1>2. PaidInv /\ [F!Next]_F!vars => PaidInv'
    BY FaucetType, PollingAssumption
  <1>3. PaidInv => PaidOnce
    BY DEF PaidInv, PaidOnce, F!PaidOnce
  <1>4. QED
    BY <1>1, <1>2, <1>3, PTL DEF F!Spec

(***************************************************************************)
(* The status.  A patient visitor of the network has one request at a      *)
(* time, and pollTx of a transaction runs only while that transaction is   *)
(* the one the status is beside.                                           *)
(***************************************************************************)
Asking == {"posted", "running", "ran", "backoff"}

FollowInv ==
    /\ timers = {}
    /\ \A r \in F!Clicks :
         /\ handler[r] \in Asking =>
              /\ lastTx = F!NoTx
              /\ \A q \in F!Clicks : polls[q] = 0 /\ (q # r => handler[q] \notin Asking)
         /\ polls[r] # 0 => lastTx = r
    /\ F!StatusIsTrue

LEMMA FollowStep ==
    ASSUME F!FaucetAssumption, patient, ~local, PaidInv, FollowInv, [F!Next]_F!vars
    PROVE  FollowInv'
  <1>0. /\ handler \in [F!Clicks -> F!Phases] /\ polls \in [F!Clicks -> 0..MaxPolls]
        /\ txs \in [F!Clicks -> F!Fates] /\ MaxPolls \in Nat \ {0}
        /\ lastTx \in F!Clicks \cup {F!NoTx}
    BY DEF PaidInv, F!TypeOK, F!FaucetAssumption
  <1>1. \A r \in F!Clicks : r # F!NoTx
    BY DEF F!Clicks, F!NoTx, F!FaucetAssumption
  <1>2. ASSUME NEW r \in F!Clicks, F!Click(r) PROVE FollowInv'
    <2>1. /\ handler' = [handler EXCEPT ![r] = "posted"] /\ lastTx' = F!NoTx
          /\ UNCHANGED <<polls, timers, txs>>
          /\ \A q \in F!Clicks : handler[q] \in {"none", "done"} /\ polls[q] = 0
      BY <1>2 DEF F!Click
    <2>2. \A q \in F!Clicks : q # r => handler'[q] \notin Asking
      BY <1>0, <2>1 DEF Asking
    <2>3. F!StatusIsTrue'
      BY <2>1 DEF F!StatusIsTrue
    <2>4. QED
      BY <2>1, <2>2, <2>3 DEF FollowInv
  \* A handler goes on; nothing else the status depends on changes.
  <1>3. ASSUME NEW r \in F!Clicks, NEW to \in F!Phases, handler' = [handler EXCEPT ![r] = to],
               to \in Asking => handler[r] \in Asking,
               UNCHANGED <<polls, timers, lastTx>>, F!StatusIsTrue'
        PROVE  FollowInv'
    <2>1. \A q \in F!Clicks : handler'[q] \in Asking => handler[q] \in Asking
      BY <1>0, <1>3
    <2>2. QED
      BY <1>3, <2>1 DEF FollowInv
  <1>4. ASSUME NEW r \in F!Clicks, F!RateLimited(r) \/ F!Admit(r) \/ F!BalanceOver(r)
        PROVE  FollowInv'
    <2>1. PICK to \in F!Phases : /\ handler' = [handler EXCEPT ![r] = to]
                                 /\ to \in Asking => handler[r] \in Asking
      BY <1>4 DEF F!RateLimited, F!Admit, F!BalanceOver, F!Phases, Asking
    <2>2. UNCHANGED <<polls, timers, lastTx, txStatus, txs>>
      BY <1>4 DEF F!RateLimited, F!Admit, F!BalanceOver, F!hookVars
    <2>3. F!StatusIsTrue'
      BY <2>2 DEF FollowInv, F!StatusIsTrue
    <2>4. QED
      BY <1>3, <2>1, <2>2, <2>3
  <1>5. ASSUME NEW r \in F!Clicks, F!FailRequest(r), handler[r] \in Asking,
               UNCHANGED <<polls, timers, lastTx, txs>>
        PROVE  FollowInv'
    <2>1. lastTx' = F!NoTx
      BY <1>5 DEF FollowInv
    <2>2. F!StatusIsTrue'
      BY <2>1 DEF F!StatusIsTrue
    <2>3. handler' = [handler EXCEPT ![r] = "done"] /\ "done" \in F!Phases /\ "done" \notin Asking
      BY <1>5 DEF F!FailRequest, F!Phases, Asking
    <2>4. QED
      BY <1>3, <1>5, <2>2, <2>3
  <1>6. ASSUME NEW r \in F!Clicks, F!TryAgain(r) PROVE FollowInv'
    <2>1. handler[r] \in Asking /\ UNCHANGED <<polls, timers, lastTx, txs>>
      BY <1>6 DEF F!TryAgain, Asking
    <2>2. CASE F!FailRequest(r)
      BY <1>5, <2>1, <2>2
    <2>3. CASE handler' = [handler EXCEPT ![r] = "posted"] /\ UNCHANGED txStatus
      <3>1. F!StatusIsTrue'
        BY <2>1, <2>3 DEF FollowInv, F!StatusIsTrue
      <3>2. "posted" \in F!Phases
        BY DEF F!Phases
      <3>3. QED
        BY <1>3, <2>1, <2>3, <3>1, <3>2
    <2>4. QED
      BY <1>6, <2>2, <2>3 DEF F!TryAgain
  <1>7. ASSUME NEW r \in F!Clicks, F!CommandFails(r) PROVE FollowInv'
    BY <1>5, <1>7 DEF F!CommandFails, Asking
  <1>8. ASSUME NEW r \in F!Clicks, F!Broadcast(r) PROVE FollowInv'
    <2>1. /\ handler[r] \in Asking /\ handler' = [handler EXCEPT ![r] = "ran"]
          /\ UNCHANGED <<polls, timers, lastTx>>
      BY <1>8 DEF F!Broadcast, F!hookVars, Asking
    <2>2. lastTx' = F!NoTx
      BY <2>1 DEF FollowInv
    <2>3. F!StatusIsTrue' /\ "ran" \in F!Phases
      BY <2>2 DEF F!StatusIsTrue, F!Phases
    <2>4. QED
      BY <1>3, <2>1, <2>3
  <1>9. ASSUME NEW r \in F!Clicks, NEW hash \in {r, F!NoTx}, F!Reply(r, hash) PROVE FollowInv'
    <2>1. /\ handler[r] \in Asking /\ handler' = [handler EXCEPT ![r] = "balance"]
          /\ txs' = txs /\ timers' = timers
      BY <1>9 DEF F!Reply, Asking
    <2>2. /\ lastTx = F!NoTx
          /\ \A q \in F!Clicks : polls[q] = 0 /\ (q # r => handler[q] \notin Asking)
      BY <2>1 DEF FollowInv
    <2>3. \A q \in F!Clicks : handler'[q] \notin Asking
      BY <1>0, <2>1, <2>2 DEF Asking
    <2>4. CASE hash = F!NoTx
      <3>1. UNCHANGED <<lastTx, polls>>
        BY <1>9, <2>4 DEF F!Reply
      <3>2. F!StatusIsTrue'
        BY <2>2, <3>1 DEF F!StatusIsTrue
      <3>3. QED
        BY <2>1, <2>2, <2>3, <3>1, <3>2 DEF FollowInv
    <2>5. CASE hash # F!NoTx
      <3>1. lastTx' = r /\ txStatus' = "pending" /\ polls' = [polls EXCEPT ![r] = MaxPolls]
        BY <1>9, <2>5 DEF F!Reply
      <3>2. F!StatusIsTrue'
        BY <3>1 DEF F!StatusIsTrue
      <3>3. \A q \in F!Clicks : polls'[q] # 0 => q = r
        BY <1>0, <2>2, <3>1
      <3>4. QED
        BY <2>1, <2>3, <3>1, <3>2, <3>3 DEF FollowInv
    <2>6. QED
      BY <2>4, <2>5
  <1>10. ASSUME NEW r \in F!Clicks, F!PollTx(r) PROVE FollowInv'
    <2>1. polls[r] # 0 /\ UNCHANGED <<handler, lastTx, timers, txs>>
      BY <1>0, <1>10 DEF F!PollTx
    <2>2. lastTx = r
      BY <2>1 DEF FollowInv
    <2>3. polls' \in {[polls EXCEPT ![r] = 0], [polls EXCEPT ![r] = polls[r] - 1]}
      BY <1>10 DEF F!PollTx
    <2>4. \A q \in F!Clicks : polls'[q] # 0 => q = r \/ polls[q] # 0
      BY <1>0, <2>3
    <2>5. \A q \in F!Clicks : handler[q] \notin Asking
      BY <2>1 DEF FollowInv
    <2>6. F!StatusIsTrue'
      <3>1. \/ txStatus' = "confirmed" /\ txs[r] = "executed"
            \/ txStatus' = "failed" /\ txs[r] = "failed"
            \/ txStatus' = "pending"
            \/ txStatus' = txStatus
        BY <1>10 DEF F!PollTx, F!SetStatus
      <3>2. QED
        BY <2>1, <2>2, <3>1 DEF F!StatusIsTrue, FollowInv
    <2>7. QED
      BY <2>1, <2>2, <2>4, <2>5, <2>6 DEF FollowInv
  <1>11. ASSUME NEW r \in F!Clicks, F!TimerFires(r) PROVE FollowInv'
    BY <1>11 DEF F!TimerFires, FollowInv
  <1>12. ASSUME NEW r \in F!Clicks, F!Settle(r) PROVE FollowInv'
    <2>1. /\ UNCHANGED <<handler, lastTx, txStatus, polls, timers>> /\ txs[r] = "broadcast"
          /\ \A q \in F!Clicks : q # r => txs'[q] = txs[q]
      BY <1>0, <1>12 DEF F!Settle, F!hookVars
    <2>2. \A q \in F!Clicks : txs[q] \in {"executed", "failed"} => txs'[q] = txs[q]
      BY <2>1
    <2>3. F!StatusIsTrue'
      BY <1>0, <2>1, <2>2 DEF F!StatusIsTrue, FollowInv
    <2>4. QED
      BY <2>1, <2>3 DEF FollowInv
  <1>13. ASSUME NEW c \in Conns, F!CooldownOver(c) PROVE FollowInv'
    BY <1>13 DEF F!CooldownOver, F!hookVars, FollowInv, F!StatusIsTrue
  <1>14. CASE UNCHANGED F!vars
    BY <1>14 DEF F!vars, F!stepVars, F!hookVars, FollowInv, F!StatusIsTrue
  <1>15. QED
    BY <1>2, <1>4, <1>6, <1>7, <1>8, <1>9, <1>10, <1>11, <1>12, <1>13, <1>14
       DEF F!Next, F!Step

\* For a visitor of the network who waits for one request to be over before the
\* next: a status of `confirmed' or `failed' beside a transaction is what the chain
\* has done with that transaction, though pollTx goes on after the button has been
\* released.
THEOREM StatusIsOfTransaction == F!Spec => []StatusIsTrue
  <1> DEFINE Inv == PaidInv /\ (patient /\ ~local => FollowInv)
  <1>1. F!Init => Inv
    <2>1. ASSUME F!Init PROVE FollowInv
      <3>1. /\ timers = {} /\ lastTx = F!NoTx
            /\ \A r \in F!Clicks : handler[r] = "none" /\ polls[r] = 0
        BY <2>1 DEF F!Init
      <3>2. QED
        BY <3>1 DEF FollowInv, F!StatusIsTrue, Asking
    <2>2. QED
      BY <2>1, FaucetInit, PollingAssumption
  <1>2. Inv /\ [F!Next]_F!vars => Inv'
    <2>1. ASSUME [F!Next]_F!vars, Inv PROVE patient' = patient /\ local' = local
      BY <2>1 DEF F!Next, F!vars
    <2>2. QED
      BY <2>1, FaucetType, FollowStep, PollingAssumption
  <1>3. Inv => StatusIsTrue
    BY DEF PaidInv, FollowInv, StatusIsTrue
  <1>4. QED
    BY <1>1, <1>2, <1>3, PTL DEF F!Spec

-----------------------------------------------------------------------------
(***************************************************************************)
(* The polling views.  A query whose answer will be applied belongs to the *)
(* effect that runs: every cleanup cancels those of the effect it ends.    *)
(***************************************************************************)
ViewInv == P!TypeOK /\ P!LiveIsCurrent /\ P!LoadingIsTrue

Names == Accounts \cup {P!Off, "page"}
Pictures == [key : Names, at : 0..MaxVersion]

\* One query of those under way, as TypeOK has it.
Fits(q) == q \in P!Requests /\ (q.stage = 0 => ~q.live /\ q.at = 0)

LEMMA ViewFacts ==
    ASSUME P!PollersAssumption, ViewInv
    PROVE  /\ MaxVersion \in Nat \ {0} /\ version \in 1..MaxVersion /\ 0 \in 0..MaxVersion
           /\ reqs \in [P!Slots -> P!Requests] /\ \A i \in P!Slots : Fits(reqs[i])
           /\ P!Keys \subseteq Names /\ P!Off \notin P!Keys /\ key \in Names
           /\ P!Nothing \in Pictures /\ shown \in Pictures
  <1>1. MaxVersion \in Nat \ {0} /\ 0 \in 0..MaxVersion
    BY DEF P!PollersAssumption
  <1>2. P!Keys \subseteq Names /\ P!Off \notin P!Keys
    BY DEF P!PollersAssumption, P!Keys, P!Off, Names
  <1>3. P!Nothing \in Pictures
    BY <1>1 DEF P!Nothing, Pictures, Names
  <1>4. shown \in Pictures
    BY DEF ViewInv, P!TypeOK, Pictures, Names
  <1>5. key \in Names
    BY <1>2 DEF ViewInv, P!TypeOK, Names
  <1>6. QED
    BY <1>1, <1>2, <1>3, <1>4, <1>5 DEF ViewInv, P!TypeOK, Fits, P!Free

\* What ViewInv asks of the next state.
LEMMA ViewIntro ==
    ASSUME P!PollersAssumption, ViewInv,
           view' = view, version' \in 1..MaxVersion, key' \in P!Keys \cup {P!Off},
           timer' \in BOOLEAN, loading' \in BOOLEAN, error' \in BOOLEAN,
           shown' \in Pictures, listed' \in 0..MaxVersion,
           reqs' \in [P!Slots -> P!Requests], \A i \in P!Slots : Fits(reqs'[i]),
           timer' => key' # P!Off,
           leaked' \in BOOLEAN, leaked' => view = "proofs",
           \A i \in P!Slots : reqs'[i].live => key' # P!Off /\ reqs'[i].key = key',
           loading' => \E i \in P!Slots : reqs'[i].live /\ reqs'[i].stage # 0
    PROVE  ViewInv'
  <1>1. view' \in P!Views /\ P!Keys' = P!Keys
    BY DEF ViewInv, P!TypeOK, P!Keys
  <1>2. P!TypeOK'
    BY <1>1 DEF P!TypeOK, Fits, P!Free, Pictures, Names
  <1>3. QED
    BY <1>2 DEF ViewInv, P!LiveIsCurrent, P!LoadingIsTrue

LEMMA NoReqFits == ASSUME P!PollersAssumption PROVE Fits(P!NoReq) /\ ~P!NoReq.live
  <1>1. 0 \in 0..MaxVersion
    BY DEF P!PollersAssumption
  <1>2. QED
    BY <1>1 DEF Fits, P!NoReq, P!Requests

LEMMA NewReqFits ==
    ASSUME P!PollersAssumption, NEW k \in Names, NEW first \in BOOLEAN
    PROVE  /\ Fits(P!NewReq(k, first)) /\ P!NewReq(k, first).key = k
           /\ P!NewReq(k, first).live /\ P!NewReq(k, first).stage # 0
  <1>1. 0 \in 0..MaxVersion
    BY DEF P!PollersAssumption
  <1>2. QED
    BY <1>1 DEF Fits, P!NewReq, P!Requests, Names

\* The queries of an effect that is over.
LEMMA CancelledFits ==
    ASSUME P!PollersAssumption, ViewInv
    PROVE  /\ P!Cancelled \in [P!Slots -> P!Requests]
           /\ \A i \in P!Slots : Fits(P!Cancelled[i]) /\ ~P!Cancelled[i].live
  <1>1. ASSUME NEW i \in P!Slots PROVE Fits(P!Cancelled[i]) /\ ~P!Cancelled[i].live
    <2>1. P!Cancelled[i] = [reqs[i] EXCEPT !.live = FALSE]
      BY DEF P!Cancelled
    <2>2. Fits(reqs[i])
      BY ViewFacts
    <2>3. QED
      BY <2>1, <2>2 DEF Fits, P!Requests
  <1>2. P!Cancelled = [i \in P!Slots |-> P!Cancelled[i]]
    BY DEF P!Cancelled
  <1>3. QED
    BY <1>1, <1>2 DEF Fits

LEMMA ViewInit == ASSUME P!PollersAssumption, P!Init PROVE ViewInv
  <1>1. Fits(P!NoReq) /\ ~P!NoReq.live
    BY NoReqFits
  <1>2. /\ reqs \in [P!Slots -> P!Requests]
        /\ \A i \in P!Slots : Fits(reqs[i]) /\ ~reqs[i].live
    BY <1>1 DEF P!Init, Fits
  <1>3. /\ 1 \in 1..MaxVersion /\ 0 \in 0..MaxVersion
    BY DEF P!PollersAssumption
  <1>4. shown \in [key : Accounts \cup {P!Off, "page"}, at : 0..MaxVersion]
    BY <1>3 DEF P!Init, P!Nothing
  <1>5. P!TypeOK
    BY <1>2, <1>3, <1>4 DEF P!Init, P!TypeOK, Fits, P!Free
  <1>6. QED
    BY <1>2, <1>5 DEF ViewInv, P!LiveIsCurrent, P!LoadingIsTrue, P!Init

\* What the view shows stays, is cleared, or is an answer for the key it has then.
Written == shown' # shown => shown' = P!Nothing \/ shown'.key = key'

\* A query is over: Over, with what becomes of the state.
LEMMA OverStep ==
    ASSUME P!PollersAssumption, ViewInv, NEW i \in P!Slots, reqs[i].stage # 0, P!Over(i),
           error' \in BOOLEAN,
           \/ shown' \in {shown, P!Nothing}
           \/ reqs[i].live /\ shown' = [key |-> reqs[i].key, at |-> reqs[i].at]
    PROVE  ViewInv' /\ Written
  <1> USE ViewFacts
  <1>1. reqs[i] \in P!Requests /\ reqs[i].key \in Names /\ reqs[i].at \in 0..MaxVersion
    BY DEF P!Requests, Names
  <1>2. [key |-> reqs[i].key, at |-> reqs[i].at] \in Pictures
    BY <1>1 DEF Pictures
  <1>3. shown' \in Pictures
    BY <1>2
  <1>4. /\ reqs' = [reqs EXCEPT ![i] = P!NoReq]
        /\ loading' = (loading /\ ~reqs[i].live)
        /\ timer' = (timer \/ (reqs[i].live /\ reqs[i].first /\ view = "proofs"))
        /\ leaked' = (leaked \/ (~reqs[i].live /\ reqs[i].first /\ view = "proofs"))
        /\ UNCHANGED <<view, version, key, listed>>
    BY DEF P!Over, P!Applies
  <1>5. Fits(P!NoReq) /\ ~P!NoReq.live
    BY NoReqFits
  <1>6. \A j \in P!Slots : reqs'[j] = IF j = i THEN P!NoReq ELSE reqs[j]
    BY <1>4
  <1>7. reqs' \in [P!Slots -> P!Requests] /\ \A j \in P!Slots : Fits(reqs'[j])
    BY <1>4, <1>5, <1>6 DEF Fits
  <1>8. \A j \in P!Slots : reqs'[j].live => key' # P!Off /\ reqs'[j].key = key'
    BY <1>4, <1>5, <1>6 DEF ViewInv, P!LiveIsCurrent
  <1>9. loading' => \E j \in P!Slots : reqs'[j].live /\ reqs'[j].stage # 0
    <2> SUFFICES ASSUME loading' PROVE \E j \in P!Slots : reqs'[j].live /\ reqs'[j].stage # 0
      OBVIOUS
    <2>1. loading /\ ~reqs[i].live
      BY <1>4
    <2>2. PICK j \in P!Slots : reqs[j].live /\ reqs[j].stage # 0
      BY <2>1 DEF ViewInv, P!LoadingIsTrue
    <2>3. reqs'[j] = reqs[j]
      BY <1>6, <2>1, <2>2
    <2>4. QED
      BY <2>2, <2>3
  <1>10. timer' => key' # P!Off
    BY <1>4 DEF ViewInv, P!TypeOK, P!LiveIsCurrent
  <1>11. ViewInv'
    <2>1. /\ key' \in P!Keys \cup {P!Off} /\ listed' \in 0..MaxVersion
          /\ timer' \in BOOLEAN /\ loading' \in BOOLEAN
      BY <1>4 DEF ViewInv, P!TypeOK
    <2>2. leaked' \in BOOLEAN /\ (leaked' => view = "proofs")
      BY <1>4 DEF ViewInv, P!TypeOK
    <2>3. QED
      BY <1>3, <1>4, <1>7, <1>8, <1>9, <1>10, <2>1, <2>2, ViewIntro
  <1>12. Written
    BY <1>4 DEF Written, ViewInv, P!LiveIsCurrent
  <1>13. QED
    BY <1>11, <1>12

LEMMA ViewStep ==
    ASSUME P!PollersAssumption, ViewInv, [P!Next]_P!vars PROVE ViewInv' /\ Written
  <1> USE ViewFacts
  <1>0. /\ key \in P!Keys \cup {P!Off} /\ listed \in 0..MaxVersion
        /\ timer \in BOOLEAN /\ loading \in BOOLEAN /\ error \in BOOLEAN
        /\ timer => key # P!Off
        /\ leaked \in BOOLEAN /\ (leaked => view = "proofs")
        /\ \A i \in P!Slots : reqs[i].live => key # P!Off /\ reqs[i].key = key
        /\ loading => \E i \in P!Slots : reqs[i].live /\ reqs[i].stage # 0
    BY DEF ViewInv, P!TypeOK, P!LiveIsCurrent, P!LoadingIsTrue
  <1>1. ASSUME NEW k \in P!Keys, P!Start(k) PROVE ViewInv' /\ Written
    <2>1. PICK i \in P!Slots : reqs' = [P!Cancelled EXCEPT ![i] = P!NewReq(k, TRUE)]
      BY <1>1 DEF P!Start
    <2>2. /\ key' = k /\ timer' \in BOOLEAN /\ loading' \in BOOLEAN /\ error' \in BOOLEAN
          /\ UNCHANGED <<view, version, leaked, shown, listed>>
      BY <1>1 DEF P!Start, P!Loading
    <2>3. /\ Fits(P!NewReq(k, TRUE)) /\ P!NewReq(k, TRUE).key = k
          /\ P!NewReq(k, TRUE).live /\ P!NewReq(k, TRUE).stage # 0
      BY NewReqFits
    <2>4. /\ P!Cancelled \in [P!Slots -> P!Requests]
          /\ \A j \in P!Slots : Fits(P!Cancelled[j]) /\ ~P!Cancelled[j].live
      BY CancelledFits
    <2>5. \A j \in P!Slots : reqs'[j] = IF j = i THEN P!NewReq(k, TRUE) ELSE P!Cancelled[j]
      BY <2>1, <2>4
    <2>6. reqs' \in [P!Slots -> P!Requests] /\ \A j \in P!Slots : Fits(reqs'[j])
      BY <2>1, <2>3, <2>4, <2>5 DEF Fits
    <2>7. k # P!Off
      OBVIOUS
    <2>8. \A j \in P!Slots : reqs'[j].live => key' # P!Off /\ reqs'[j].key = key'
      BY <2>2, <2>3, <2>4, <2>5, <2>7
    <2>9. \E j \in P!Slots : reqs'[j].live /\ reqs'[j].stage # 0
      BY <2>3, <2>5
    <2>10. ViewInv'
      BY <1>0, <2>2, <2>6, <2>7, <2>8, <2>9, ViewIntro
    <2>11. QED
      BY <2>2, <2>10 DEF Written
  <1>2. CASE P!Disconnect \/ P!Leave
    <2>1. /\ key' = P!Off /\ timer' = FALSE /\ loading' = FALSE /\ error' = FALSE
          /\ reqs' = P!Cancelled /\ shown' \in {shown, P!Nothing} /\ listed' \in {listed, 0}
          /\ UNCHANGED <<view, version, leaked>>
      BY <1>2 DEF P!Disconnect, P!Leave
    <2>2. /\ P!Cancelled \in [P!Slots -> P!Requests]
          /\ \A j \in P!Slots : Fits(P!Cancelled[j]) /\ ~P!Cancelled[j].live
      BY CancelledFits
    <2>3. ViewInv'
      BY <1>0, <2>1, <2>2, ViewIntro
    <2>4. QED
      BY <2>1, <2>3 DEF Written
  <1>3. CASE P!Query
    <2>1. PICK i \in P!Slots : reqs[i].stage = 0 /\ reqs' = [reqs EXCEPT ![i] = P!NewReq(key, FALSE)]
      BY <1>3 DEF P!Query, P!Free
    <2>2. /\ key # P!Off /\ loading' \in BOOLEAN /\ error' \in BOOLEAN
          /\ UNCHANGED <<view, version, key, timer, leaked, shown, listed>>
      BY <1>3 DEF P!Query, P!Loading
    <2>3. /\ Fits(P!NewReq(key, FALSE)) /\ P!NewReq(key, FALSE).key = key
          /\ P!NewReq(key, FALSE).live /\ P!NewReq(key, FALSE).stage # 0
      BY NewReqFits
    <2>4. \A j \in P!Slots : reqs'[j] = IF j = i THEN P!NewReq(key, FALSE) ELSE reqs[j]
      BY <2>1
    <2>5. reqs' \in [P!Slots -> P!Requests] /\ \A j \in P!Slots : Fits(reqs'[j])
      BY <2>1, <2>3, <2>4 DEF Fits
    <2>6. \A j \in P!Slots : reqs'[j].live => key' # P!Off /\ reqs'[j].key = key'
      BY <1>0, <2>2, <2>3, <2>4
    <2>7. \E j \in P!Slots : reqs'[j].live /\ reqs'[j].stage # 0
      BY <2>3, <2>4
    <2>8. ViewInv'
      BY <1>0, <2>2, <2>5, <2>6, <2>7, ViewIntro
    <2>9. QED
      BY <2>2, <2>8 DEF Written
  <1>4. CASE P!Change \/ P!Push
    <2>1. /\ UNCHANGED <<view, key, timer, leaked, reqs, listed, loading, error>>
          /\ version < MaxVersion /\ version' = version + 1
          /\ shown' = shown \/ (key # P!Off /\ shown' = [key |-> key, at |-> version + 1])
      BY <1>4 DEF P!Change, P!Push
    <2>2. version' \in 1..MaxVersion /\ version + 1 \in 0..MaxVersion
      BY <2>1
    <2>3. shown' \in Pictures
      BY <2>1, <2>2 DEF Pictures
    <2>4. ViewInv'
      BY <1>0, <2>1, <2>2, <2>3, ViewIntro
    <2>5. Written
      BY <2>1 DEF Written
    <2>6. QED
      BY <2>4, <2>5
  <1>5. ASSUME NEW i \in P!Slots, NEW q, Fits(q), reqs[i].stage # 0, q.stage # 0,
               q.live = reqs[i].live, q.key = reqs[i].key,
               reqs' = [reqs EXCEPT ![i] = q], listed' \in 0..MaxVersion,
               UNCHANGED <<view, version, key, timer, leaked, shown, loading, error>>
        PROVE  ViewInv' /\ Written
    <2>1. \A j \in P!Slots : reqs'[j] = IF j = i THEN q ELSE reqs[j]
      BY <1>5
    <2>2. reqs' \in [P!Slots -> P!Requests] /\ \A j \in P!Slots : Fits(reqs'[j])
      BY <1>5, <2>1 DEF Fits
    <2>3. \A j \in P!Slots : reqs'[j].live => key' # P!Off /\ reqs'[j].key = key'
      BY <1>0, <1>5, <2>1
    <2>4. loading' => \E j \in P!Slots : reqs'[j].live /\ reqs'[j].stage # 0
      BY <1>0, <1>5, <2>1
    <2>5. ViewInv'
      BY <1>0, <1>5, <2>2, <2>3, <2>4, ViewIntro
    <2>6. QED
      BY <1>5, <2>5 DEF Written
  <1>6. ASSUME NEW i \in P!Slots, P!Serve(i) PROVE ViewInv' /\ Written
    <2>1. PICK q : q = [reqs[i] EXCEPT !.at = version]
      OBVIOUS
    <2>2. /\ reqs[i].stage # 0 /\ reqs' = [reqs EXCEPT ![i] = q]
          /\ UNCHANGED <<view, version, key, timer, leaked, shown, listed, loading, error>>
      BY <1>6, <2>1 DEF P!Serve, P!Free
    <2>3. version \in 0..MaxVersion
      OBVIOUS
    <2>4. /\ q \in P!Requests /\ q.stage = reqs[i].stage /\ q.live = reqs[i].live
          /\ q.key = reqs[i].key
      BY <2>1, <2>3 DEF P!Requests
    <2>5. Fits(q)
      BY <2>2, <2>4 DEF Fits
    <2>6. QED
      BY <1>0, <1>5, <2>2, <2>4, <2>5
  <1>7. ASSUME NEW i \in P!Slots, P!SecondStage(i) PROVE ViewInv' /\ Written
    <2>1. /\ reqs[i].stage = 1 /\ listed' \in {listed, reqs[i].at}
          /\ UNCHANGED <<view, version, key, timer, leaked, shown, loading, error>>
      BY <1>7 DEF P!SecondStage
    <2>2. reqs[i] \in P!Requests
      OBVIOUS
    <2>3. listed' \in 0..MaxVersion
      BY <1>0, <2>1, <2>2 DEF P!Requests
    <2>4. CASE reqs[i].live
      <3>1. PICK q : q = [reqs[i] EXCEPT !.at = 0, !.stage = 2]
        OBVIOUS
      <3>2. reqs' = [reqs EXCEPT ![i] = q]
        BY <1>7, <2>4, <3>1 DEF P!SecondStage
      <3>3. /\ q \in P!Requests /\ q.stage = 2 /\ q.live = reqs[i].live
            /\ q.key = reqs[i].key
        <4> DEFINE q1 == [reqs[i] EXCEPT !.at = 0]
        <4>1. q1 \in P!Requests
          BY <2>2 DEF P!Requests
        <4>2. q = [q1 EXCEPT !.stage = 2]
          BY <3>1, <2>2
        <4>3. q \in P!Requests
          <5> HIDE DEF q1
          <5> QED  BY <4>1, <4>2 DEF P!Requests
        <4>4. q.stage = 2 /\ q.live = reqs[i].live /\ q.key = reqs[i].key
          BY <2>2, <3>1 DEF P!Requests
        <4>5. QED
          BY <4>3, <4>4
      <3>4. Fits(q)
        BY <3>3 DEF Fits
      <3>5. QED
        <4>1. reqs[i].stage # 0 /\ q.stage # 0
          BY <2>1, <3>3
        <4>2. QED
          BY <1>5, <2>1, <2>3, <3>2, <3>3, <3>4, <4>1
    <2>5. CASE ~reqs[i].live
      <3>1. reqs' = [reqs EXCEPT ![i] = P!NoReq]
        BY <1>7, <2>5 DEF P!SecondStage
      <3>2. Fits(P!NoReq) /\ ~P!NoReq.live
        BY NoReqFits
      <3>3. \A j \in P!Slots : reqs'[j] = IF j = i THEN P!NoReq ELSE reqs[j]
        BY <3>1
      <3>4. reqs' \in [P!Slots -> P!Requests] /\ \A j \in P!Slots : Fits(reqs'[j])
        BY <3>1, <3>2, <3>3 DEF Fits
      <3>5. \A j \in P!Slots : reqs'[j].live => key' # P!Off /\ reqs'[j].key = key'
        BY <1>0, <2>1, <3>2, <3>3
      <3>6. loading' => \E j \in P!Slots : reqs'[j].live /\ reqs'[j].stage # 0
        BY <1>0, <2>1, <2>5, <3>3
      <3>7. ViewInv'
        BY <1>0, <2>1, <2>3, <3>4, <3>5, <3>6, ViewIntro
      <3>8. QED
        BY <2>1, <3>7 DEF Written
    <2>6. QED
      BY <1>0, <2>4, <2>5
  <1>8. ASSUME NEW i \in P!Slots,
               \/ \E partial \in BOOLEAN : P!Answer(i, partial)
               \/ P!Garbled(i) \/ P!Fail(i)
        PROVE  ViewInv' /\ Written
    <2>1. P!Over(i) /\ reqs[i].stage # 0
      BY <1>8 DEF P!Answer, P!Garbled, P!Fail, P!Free, Fits
    <2>2. error' \in BOOLEAN
      BY <1>0, <1>8 DEF P!Answer, P!Garbled, P!Fail
    <2>3. \/ shown' \in {shown, P!Nothing}
          \/ reqs[i].live /\ shown' = [key |-> reqs[i].key, at |-> reqs[i].at]
      BY <1>8 DEF P!Answer, P!Garbled, P!Fail, P!Applies
    <2>4. QED
      BY <2>1, <2>2, <2>3, OverStep
  <1>9. CASE UNCHANGED P!vars
    BY <1>0, <1>9, ViewIntro DEF P!vars, Written
  <1>10. QED
    BY <1>1, <1>2, <1>3, <1>4, <1>6, <1>7, <1>8, <1>9 DEF P!Next

\* For every one of the twelve views, any number of accounts, of queries under way
\* at once and of changes of the remote: what a view writes into its state is for the
\* account it shows, never an answer to an earlier effect; and while it says that it
\* is loading, a query of its running effect is under way.  An interval that useProofs
\* leaves behind when it is left during its first query sends none.
THEOREM ViewsStayCurrent == P!Spec => ViewsAreCurrent
  <1>1. P!Init => ViewInv
    BY ViewInit, PollingAssumption
  <1>2. ViewInv /\ [P!Next]_P!vars => ViewInv'
    BY ViewStep, PollingAssumption
  <1>3. ViewInv /\ [P!Next]_P!vars
        => [shown' # shown => shown' = P!Nothing \/ shown'.key = key']_P!vars
    BY ViewStep, PollingAssumption DEF Written
  <1>4. ViewInv => P!TypeOK /\ P!LoadingIsTrue
    BY DEF ViewInv
  <1>5. QED
    BY <1>1, <1>2, <1>3, <1>4, PTL
       DEF P!Spec, ViewsAreCurrent, P!ViewsAreCurrent, P!WritesAreOfKey

-----------------------------------------------------------------------------
(***************************************************************************)
(* The deal explorer.  What is remembered of slabs names contents that     *)
(* exist, and a call is about one of them.                                 *)
(***************************************************************************)
Made == 1..Len(made)

ExplorerInv ==
    /\ E!TypeOK
    /\ made \in Seq(Paths)
    /\ opfs \in [Deals -> [root : {0} \cup Made, mdus : {0} \cup Made]]
    /\ \A c \in calls : c.deal \in Deals /\ c.root \in Made
    /\ E!LoadingIsTrue

LEMMA ExplorerInit == ASSUME E!DetailAssumption, E!Init PROVE ExplorerInv
  <1>1. made = <<>> /\ Len(made) = 0 /\ made \in Seq(Paths)
    BY DEF E!Init
  <1>2. opfs \in [Deals -> [root : {0} \cup Made, mdus : {0} \cup Made]]
    BY DEF E!Init, E!None
  <1>3. flags \in E!Flags
    BY DEF E!Init, E!Quiet, E!Flags
  <1>4. E!TypeOK
    BY <1>1, <1>3 DEF E!Init, E!TypeOK, E!DetailAssumption, E!None
  <1>5. E!LoadingIsTrue
    BY DEF E!Init, E!Quiet, E!LoadingIsTrue
  <1>6. QED
    BY <1>1, <1>2, <1>4, <1>5 DEF E!Init, ExplorerInv

\* A step that leaves the contents, the calls and the panels alone.
LEMMA ExplorerFrame ==
    ASSUME ExplorerInv, serial' \in BOOLEAN, UNCHANGED <<made, onChain, calls, deal, cid, flags, files, slab, slabSource>>,
           opfs' \in [Deals -> [root : {0} \cup Made, mdus : {0} \cup Made]],
           busy' \in Paths \cup {NoPath}, busy' # NoPath => dls' # {}, started' \in 0..MaxDownloads,
           \A x \in dls' : x.step \in {"cache", "check", "read", "fetch"}
    PROVE  ExplorerInv'
  BY DEF ExplorerInv, E!TypeOK, E!LoadingIsTrue, Made

LEMMA ExplorerChain ==
    ASSUME E!DetailAssumption, ExplorerInv, serial' \in BOOLEAN,
           \/ \E d \in Deals, p \in Paths : E!Commit(d, p)
           \/ E!ChainReset
           \/ \E d \in Deals : E!SaveSlab(d)
    PROVE  ExplorerInv'
  <1>1. ASSUME NEW d \in Deals, NEW p \in Paths, E!Commit(d, p) PROVE ExplorerInv'
    <2>1. made' = Append(made, p) /\ made' \in Seq(Paths) /\ Len(made') = Len(made) + 1
      BY <1>1 DEF E!Commit, ExplorerInv
    <2>2. Len(made) \in Nat
      BY DEF ExplorerInv
    <2>3. 0..Len(made) \subseteq 0..Len(made') /\ Made \subseteq Made' /\ Len(made) + 1 \in 0..Len(made')
      BY <2>1, <2>2 DEF Made
    <2>4. onChain' \in [Deals -> 0..Len(made')]
      BY <1>1, <2>3 DEF E!Commit, ExplorerInv, E!TypeOK
    <2>5. opfs' \in [Deals -> [root : {0} \cup Made', mdus : {0} \cup Made']]
      BY <1>1, <2>3 DEF E!Commit, E!localVars, ExplorerInv
    <2>6. UNCHANGED <<calls, deal, cid, flags, files, slab, slabSource, busy, dls, started>>
      BY <1>1 DEF E!Commit, E!shown, E!dlVars
    <2>7. E!TypeOK'
      BY <2>3, <2>4, <2>6 DEF ExplorerInv, E!TypeOK
    <2>8. QED
      BY <2>1, <2>3, <2>5, <2>6, <2>7 DEF ExplorerInv, E!LoadingIsTrue
  <1>2. ASSUME E!ChainReset PROVE ExplorerInv'
    <2>1. onChain' \in [Deals -> 0..Len(made)]
      BY <1>2 DEF E!ChainReset, E!None, ExplorerInv
    <2>2. QED
      BY <1>2, <2>1 DEF E!ChainReset, E!localVars, E!shown, E!dlVars, ExplorerInv, E!TypeOK,
                        E!LoadingIsTrue, Made
  <1>3. ASSUME NEW d \in Deals, E!SaveSlab(d) PROVE ExplorerInv'
    <2>1. PICK m \in {onChain[d]} \cup (IF RootOnly THEN {opfs[d].mdus} ELSE {}) :
             opfs' = [opfs EXCEPT ![d] = [root |-> onChain[d], mdus |-> m]]
      BY <1>3 DEF E!SaveSlab
    <2>2. onChain[d] \in {0} \cup Made /\ opfs[d].mdus \in {0} \cup Made
      BY DEF ExplorerInv, E!TypeOK, Made
    <2>3. m \in {0} \cup Made
      BY <2>1, <2>2
    <2>4. opfs' \in [Deals -> [root : {0} \cup Made, mdus : {0} \cup Made]]
      BY <2>1, <2>2, <2>3 DEF ExplorerInv
    <2>5. QED
      BY <1>3, <2>4, ExplorerFrame DEF E!SaveSlab, E!chainVars, E!shown, E!dlVars, ExplorerInv, E!TypeOK
  <1>4. QED
    BY <1>1, <1>2, <1>3

\* Panels and calls after a step that leaves contents, OPFS and downloads alone.
LEMMA ExplorerPanels ==
    ASSUME ExplorerInv, serial' \in BOOLEAN, UNCHANGED <<made, onChain, opfs, busy, dls, started>>,
           deal' \in Deals, cid' \in 0..Len(made), files' \in 0..Len(made), slab' \in 0..Len(made),
           slabSource' \in {"none", "gateway", "opfs"}, flags' \in E!Flags,
           \A c \in calls' : c.deal \in Deals /\ c.root \in Made,
           E!LoadingIsTrue'
    PROVE  ExplorerInv'
  BY DEF ExplorerInv, E!TypeOK, Made

LEMMA FlagDown ==
    ASSUME NEW r \in E!Flags
    PROVE  /\ [r EXCEPT !.slab = FALSE] \in E!Flags
           /\ [r EXCEPT !.files = FALSE] \in E!Flags
           /\ [r EXCEPT !.manifest = FALSE] \in E!Flags
           /\ [r EXCEPT !.kzg = FALSE] \in E!Flags
           /\ [r EXCEPT !.kzg = TRUE] \in E!Flags
           /\ [r EXCEPT !.slab = FALSE, !.files = FALSE] \in E!Flags
           /\ [r EXCEPT !.slab = TRUE, !.files = TRUE, !.manifest = TRUE] \in E!Flags
  BY DEF E!Flags

LEMMA ExplorerShows ==
    ASSUME E!DetailAssumption, ExplorerInv, serial' \in BOOLEAN, NEW d \in Deals, E!ShowDeal(d)
    PROVE  ExplorerInv'
  <1>1. /\ deal' \in Deals /\ cid' = onChain[d] /\ cid' \in 0..Len(made)
        /\ flags \in E!Flags /\ Len(made) \in Nat
        /\ UNCHANGED <<made, onChain, opfs, busy, dls, started>>
    BY DEF E!ShowDeal, ExplorerInv, E!TypeOK, E!chainVars, E!localVars, E!dlVars
  <1>2. CASE cid' # E!None
    <2>1. /\ calls' = calls \cup {E!Call(k, d, cid') : k \in {"slab", "files", "manifest"}}
          /\ flags' = [flags EXCEPT !.slab = TRUE, !.files = TRUE, !.manifest = TRUE]
          /\ UNCHANGED <<files, slab>> /\ slabSource' = "none"
      BY <1>2 DEF E!ShowDeal
    <2>2. cid' \in Made
      BY <1>1, <1>2 DEF Made, E!None
    <2>3. \A c \in calls' : c.deal \in Deals /\ c.root \in Made
      BY <2>1, <2>2 DEF ExplorerInv, E!Call
    <2>4. \A k \in {"slab", "files", "manifest"} : \E c \in calls' : c.kind = k
      <3>1. ASSUME NEW k \in {"slab", "files", "manifest"} PROVE \E c \in calls' : c.kind = k
        <4>1. E!Call(k, d, cid') \in calls' /\ E!Call(k, d, cid').kind = k
          BY <2>1 DEF E!Call
        <4>2. QED
          BY <4>1
      <3>2. QED
        BY <3>1
    <2>5. E!LoadingIsTrue'
      BY <2>4 DEF E!LoadingIsTrue
    <2>6. flags' \in E!Flags
      BY <1>1, <2>1, FlagDown
    <2>7. QED
      BY <1>1, <2>1, <2>3, <2>5, <2>6, ExplorerPanels DEF ExplorerInv, E!TypeOK
  <1>3. CASE cid' = E!None
    <2>1. /\ files' = 0 /\ slab' = 0 /\ slabSource' = "none"
          /\ flags' = [flags EXCEPT !.slab = FALSE, !.files = FALSE]
          /\ UNCHANGED calls
      BY <1>3 DEF E!ShowDeal, E!None
    <2>2. flags' \in E!Flags
      BY <1>1, <2>1, FlagDown
    <2>3. ~flags'.slab /\ ~flags'.files /\ flags'.manifest = flags.manifest
      BY <1>1, <2>1 DEF E!Flags
    <2>4. E!LoadingIsTrue'
      BY <2>1, <2>3 DEF E!LoadingIsTrue, ExplorerInv
    <2>5. \A c \in calls' : c.deal \in Deals /\ c.root \in Made
      BY <2>1 DEF ExplorerInv
    <2>6. 0 \in 0..Len(made)
      BY <1>1
    <2>7. QED
      BY <1>1, <2>1, <2>2, <2>4, <2>5, <2>6, ExplorerPanels
  <1>4. QED
    BY <1>2, <1>3

\* What an answer does to the calls: those of the other kinds stay.
LEMMA OtherCallsStay ==
    ASSUME ExplorerInv, serial' \in BOOLEAN, NEW c \in calls, E!Answered(c)
    PROVE  /\ \A x \in calls' : x.deal \in Deals /\ x.root \in Made
           /\ \A k : (\E x \in calls : x.kind = k) /\ c.kind # k => \E x \in calls' : x.kind = k
  BY DEF ExplorerInv, E!Answered

LEMMA ExplorerAnswers ==
    ASSUME E!DetailAssumption, ExplorerInv, serial' \in BOOLEAN, NEW c \in calls, NEW ok \in BOOLEAN,
           E!SlabAnswer(c, ok) \/ E!ManifestAnswer(c, ok) \/ E!KzgAnswer(c, ok)
    PROVE  ExplorerInv'
  <1>0. /\ flags \in E!Flags /\ Len(made) \in Nat /\ E!LoadingIsTrue
        /\ deal \in Deals /\ cid \in 0..Len(made) /\ files \in 0..Len(made)
        /\ slab \in 0..Len(made) /\ slabSource \in {"none", "gateway", "opfs"}
        /\ c.deal \in Deals /\ c.root \in 0..Len(made)
    BY DEF ExplorerInv, E!TypeOK, Made
  <1>1. CASE E!SlabAnswer(c, ok)
    <2>1. /\ c.kind = "slab" /\ E!Answered(c) /\ flags' = [flags EXCEPT !.slab = FALSE]
          /\ UNCHANGED <<made, onChain, opfs, busy, dls, started, deal, cid, files>>
          /\ slab' \in {slab, c.root} /\ slabSource' \in {slabSource, "gateway", "opfs"}
      BY <1>1 DEF E!SlabAnswer, E!chainVars, E!localVars, E!dlVars
    <2>2. ~flags'.slab /\ flags'.files = flags.files /\ flags'.manifest = flags.manifest
      BY <1>0, <2>1 DEF E!Flags
    <2>3. E!LoadingIsTrue'
      BY <1>0, <2>1, <2>2, OtherCallsStay DEF E!LoadingIsTrue
    <2>4. QED
      BY <1>0, <2>1, <2>3, FlagDown, OtherCallsStay, ExplorerPanels
  <1>2. CASE E!ManifestAnswer(c, ok)
    <2>1. /\ c.kind = "manifest" /\ E!Answered(c) /\ flags' = [flags EXCEPT !.manifest = FALSE]
          /\ UNCHANGED <<made, onChain, opfs, busy, dls, started, deal, cid, files, slab, slabSource>>
      BY <1>2 DEF E!ManifestAnswer, E!chainVars, E!localVars, E!dlVars
    <2>2. ~flags'.manifest /\ flags'.files = flags.files /\ flags'.slab = flags.slab
      BY <1>0, <2>1 DEF E!Flags
    <2>3. E!LoadingIsTrue'
      BY <1>0, <2>1, <2>2, OtherCallsStay DEF E!LoadingIsTrue
    <2>4. QED
      BY <1>0, <2>1, <2>3, FlagDown, OtherCallsStay, ExplorerPanels
  <1>3. CASE E!KzgAnswer(c, ok)
    <2>1. /\ c.kind = "kzg" /\ E!Answered(c) /\ flags' = [flags EXCEPT !.kzg = FALSE]
          /\ UNCHANGED <<made, onChain, opfs, busy, dls, started, deal, cid, files, slab, slabSource>>
      BY <1>3 DEF E!KzgAnswer, E!chainVars, E!localVars, E!dlVars
    <2>2. flags'.manifest = flags.manifest /\ flags'.files = flags.files /\ flags'.slab = flags.slab
      BY <1>0, <2>1 DEF E!Flags
    <2>3. E!LoadingIsTrue'
      BY <1>0, <2>1, <2>2, OtherCallsStay DEF E!LoadingIsTrue
    <2>4. QED
      BY <1>0, <2>1, <2>3, FlagDown, OtherCallsStay, ExplorerPanels
  <1>4. QED
    BY <1>1, <1>2, <1>3

LEMMA ExplorerFiles ==
    ASSUME E!DetailAssumption, ExplorerInv, serial' \in BOOLEAN, NEW c \in calls,
           NEW a \in {"list", "empty", "error"}, E!FilesAnswer(c, a)
    PROVE  ExplorerInv'
  <1>0. /\ flags \in E!Flags /\ Len(made) \in Nat /\ E!LoadingIsTrue
        /\ deal \in Deals /\ cid \in 0..Len(made)
        /\ slab \in 0..Len(made) /\ slabSource \in {"none", "gateway", "opfs"}
        /\ c.deal \in Deals /\ c.root \in 0..Len(made) /\ opfs[c.deal].mdus \in 0..Len(made)
    BY DEF ExplorerInv, E!TypeOK, Made
  <1>1. /\ c.kind = "files" /\ E!Answered(c) /\ flags' = [flags EXCEPT !.files = FALSE]
        /\ UNCHANGED <<made, onChain, opfs, busy, dls, started, deal, cid, slab, slabSource>>
        /\ files' = E!ListedFiles(c, a)
    BY DEF E!FilesAnswer, E!chainVars, E!localVars, E!dlVars
  <1>2. files' \in 0..Len(made)
    BY <1>0, <1>1 DEF E!ListedFiles, E!None
  <1>3. ~flags'.files /\ flags'.slab = flags.slab /\ flags'.manifest = flags.manifest
    BY <1>0, <1>1 DEF E!Flags
  <1>4. E!LoadingIsTrue'
    BY <1>0, <1>1, <1>3, OtherCallsStay DEF E!LoadingIsTrue
  <1>5. QED
    BY <1>0, <1>1, <1>2, <1>4, FlagDown, OtherCallsStay, ExplorerPanels

LEMMA ExplorerInspects ==
    ASSUME E!DetailAssumption, ExplorerInv, serial' \in BOOLEAN, E!fetchMduKzg PROVE ExplorerInv'
  <1>0. /\ flags \in E!Flags /\ Len(made) \in Nat /\ E!LoadingIsTrue
        /\ deal \in Deals /\ cid \in 0..Len(made) /\ files \in 0..Len(made)
        /\ slab \in 0..Len(made) /\ slabSource \in {"none", "gateway", "opfs"}
    BY DEF ExplorerInv, E!TypeOK, Made
  <1>1. /\ slab # 0 /\ calls' = calls \cup {E!Call("kzg", deal, slab)}
        /\ flags' = [flags EXCEPT !.kzg = TRUE]
        /\ UNCHANGED <<made, onChain, opfs, busy, dls, started, deal, cid, files, slab, slabSource>>
    BY DEF E!fetchMduKzg, E!chainVars, E!localVars, E!dlVars, E!None
  <1>2. \A c \in calls' : c.deal \in Deals /\ c.root \in Made
    BY <1>0, <1>1 DEF ExplorerInv, E!Call, Made
  <1>3. flags'.files = flags.files /\ flags'.slab = flags.slab /\ flags'.manifest = flags.manifest
    BY <1>0, <1>1 DEF E!Flags
  <1>4. E!LoadingIsTrue'
    BY <1>0, <1>1, <1>3 DEF E!LoadingIsTrue
  <1>5. QED
    BY <1>0, <1>1, <1>2, <1>4, FlagDown, ExplorerPanels

\* The steps of a download.
LEMMA ExplorerDownloads ==
    ASSUME E!DetailAssumption, ExplorerInv, serial' \in BOOLEAN,
           \/ \E p \in BOOLEAN : E!SetRange(p)
           \/ E!PressCached \/ E!PressSlab \/ E!PressDownload \/ E!PressGateway \/ E!PressVerify
           \/ \E x \in dls : \/ E!ReadCache(x) \/ E!CheckSlab(x) \/ E!ReadSlab(x)
                            \/ E!Fetched(x) \/ E!FetchFails(x)
           \/ E!Clear
    PROVE  /\ ExplorerInv'
           /\ UNCHANGED <<calls, cid, flags, files, slab, slabSource, manifest, manifestError>>
  <1>0. /\ opfs \in [Deals -> [root : {0} \cup Made, mdus : {0} \cup Made]]
        /\ busy \in Paths \cup {NoPath} /\ (busy # NoPath => dls # {}) /\ started \in 0..MaxDownloads
        /\ \A x \in dls : x.step \in {"cache", "check", "read", "fetch"}
        /\ files \in 0..Len(made) /\ made \in Seq(Paths) /\ MaxDownloads \in Nat
    BY DEF ExplorerInv, E!TypeOK, E!DetailAssumption
  <1> DEFINE Same == UNCHANGED <<made, onChain, calls, deal, cid, flags, files, slab, slabSource,
                                 manifest, manifestError, opfs>>
             Loads == /\ busy' \in Paths \cup {NoPath} /\ (busy' # NoPath => dls' # {})
                      /\ started' \in 0..MaxDownloads
                      /\ \A x \in dls' : x.step \in {"cache", "check", "read", "fetch"}
  <1>1. ASSUME NEW kind, NEW step \in {"cache", "check", "fetch"}, E!Pressed(kind, step)
        PROVE  Same /\ Loads
    <2>1. E!Path(files) \in Paths
      BY <1>0, <1>1 DEF E!Pressed, E!Path, E!None
    <2>2. Same
      BY <1>1 DEF E!Pressed, E!chainVars, E!localVars, E!shown
    <2> DEFINE x == [kind |-> kind, deal |-> deal, cid |-> cid, path |-> E!Path(files),
                     part |-> part, step |-> step]
    <2>3. dls' = dls \cup {x} /\ x.step = step
      BY <1>1 DEF E!Pressed
    <2> HIDE DEF x
    <2>4. started' \in 0..MaxDownloads
      BY <1>0, <1>1 DEF E!Pressed
    <2>5. busy' = E!Path(files)
      BY <1>1 DEF E!Pressed
    <2>6. QED
      BY <1>0, <2>1, <2>2, <2>3, <2>4, <2>5
  <1>2. ASSUME NEW x \in dls, NEW bytes, NEW keep, E!Hand(x, bytes, keep) PROVE Same /\ Loads
    BY <1>0, <1>2 DEF E!Hand, E!chainVars, E!shown
  <1>3. ASSUME NEW x \in dls, E!GiveUp(x) PROVE Same /\ Loads
    BY <1>0, <1>3 DEF E!GiveUp, E!chainVars, E!localVars, E!shown
  <1>4. ASSUME NEW x \in dls, NEW s \in {"read", "fetch"}, E!ToStep(x, s) PROVE Same /\ Loads
    <2>1. PICK y : dls' = (dls \ {x}) \cup {y} /\ y = [x EXCEPT !.step = s]
      BY <1>4 DEF E!ToStep
    <2>2. y.step \in {"read", "fetch"} \/ y.step = x.step
      BY <2>1
    <2>3. y.step \in {"cache", "check", "read", "fetch"}
      BY <1>0, <2>2
    <2>4. Same /\ UNCHANGED <<busy, started>>
      BY <1>4 DEF E!ToStep, E!chainVars, E!localVars, E!shown
    <2>5. QED
      BY <1>0, <2>1, <2>3, <2>4
  <1>5. Same /\ Loads
    <2>1. CASE \E p \in BOOLEAN : E!SetRange(p)
      BY <1>0, <2>1 DEF E!SetRange, E!chainVars, E!localVars, E!shown
    <2>2. CASE E!PressCached \/ E!PressSlab \/ E!PressDownload \/ E!PressGateway \/ E!PressVerify
      BY <1>1, <2>2 DEF E!PressCached, E!PressSlab, E!PressDownload, E!PressGateway, E!PressVerify
    <2>3. ASSUME NEW x \in dls, E!ReadCache(x) PROVE Same /\ Loads
      BY <1>2, <1>3, <1>4, <2>3 DEF E!ReadCache
    <2>4. ASSUME NEW x \in dls, E!CheckSlab(x) PROVE Same /\ Loads
      BY <1>3, <1>4, <2>4 DEF E!CheckSlab
    <2>5. ASSUME NEW x \in dls, E!ReadSlab(x) PROVE Same /\ Loads
      BY <1>2, <1>3, <2>5 DEF E!ReadSlab
    <2>6. ASSUME NEW x \in dls, E!Fetched(x) \/ E!FetchFails(x) PROVE Same /\ Loads
      BY <1>2, <1>3, <2>6 DEF E!Fetched, E!FetchFails
    <2>7. CASE E!Clear
      BY <1>0, <2>7 DEF E!Clear, E!chainVars, E!shown, E!dlVars
    <2>8. QED
      BY <2>1, <2>2, <2>3, <2>4, <2>5, <2>6, <2>7
  <1>6. ExplorerInv'
    BY <1>0, <1>5, ExplorerFrame
  <1>7. QED
    BY <1>5, <1>6

LEMMA ExplorerStep ==
    ASSUME E!DetailAssumption, ExplorerInv, [E!Next]_E!vars PROVE ExplorerInv'
  <1>1. CASE UNCHANGED E!vars
    BY <1>1 DEF E!vars, E!chainVars, E!localVars, E!shown, E!dlVars, ExplorerInv, E!TypeOK,
                E!LoadingIsTrue, Made
  <1>2. serial' \in BOOLEAN
    BY DEF ExplorerInv, E!TypeOK, E!Next, E!vars
  <1>3. QED
    BY <1>1, <1>2, ExplorerChain, ExplorerShows, ExplorerAnswers, ExplorerFiles, ExplorerInspects,
       ExplorerDownloads DEF E!Next, E!Step

\* For any number of deals, contents, resets and calls under way: a panel of the deal
\* explorer that says it is loading has a call under way that will take the sign down,
\* though the calls of earlier deals are neither cancelled nor told apart.
THEOREM LoadingPanelsLoad == E!Spec => []LoadingIsTrue
  <1>1. E!Init => ExplorerInv
    BY ExplorerInit, PagesAssumption
  <1>2. ExplorerInv /\ [E!Next]_E!vars => ExplorerInv'
    BY ExplorerStep, PagesAssumption
  <1>3. ExplorerInv => LoadingIsTrue
    BY DEF ExplorerInv, LoadingIsTrue
  <1>4. QED
    BY <1>1, <1>2, <1>3, PTL DEF E!Spec

\* While the deal changes only between calls, a call that is not of the inspector is
\* about the root on display.
ShowsInv ==
    /\ \A c \in calls : c.kind # "kzg" => c.root = cid
    /\ E!SourceIsTrue
    /\ E!ManifestIsVerified
    /\ E!EmptyShowsNothing

LEMMA ShowsStep ==
    ASSUME E!DetailAssumption, serial, ExplorerInv, ShowsInv, [E!Next]_E!vars PROVE ShowsInv'
  <1>0. flags \in E!Flags /\ \A c \in calls : c.root # 0
    BY DEF ExplorerInv, E!TypeOK, Made
  <1>1. ASSUME UNCHANGED <<calls, cid, flags, files, slab, slabSource, manifest, manifestError>>
        PROVE  ShowsInv'
    BY <1>1 DEF ShowsInv, E!SourceIsTrue, E!ManifestIsVerified, E!EmptyShowsNothing
  <1>2. ASSUME NEW d \in Deals, E!ShowDeal(d) PROVE ShowsInv'
    <2>1. calls = {}
      BY <1>2 DEF E!ShowDeal
    <2>2. CASE cid' # E!None
      <3>1. /\ calls' = calls \cup {E!Call(k, d, cid') : k \in {"slab", "files", "manifest"}}
            /\ flags' = [flags EXCEPT !.slab = TRUE, !.files = TRUE, !.manifest = TRUE]
            /\ slabSource' = "none"
        BY <1>2, <2>2 DEF E!ShowDeal
      <3>2. flags'.manifest
        BY <1>0, <3>1 DEF E!Flags
      <3>3. \A c \in calls' : c.root = cid'
        BY <2>1, <3>1 DEF E!Call
      <3>4. QED
        BY <2>2, <3>1, <3>2, <3>3 DEF ShowsInv, E!SourceIsTrue, E!ManifestIsVerified,
                                      E!EmptyShowsNothing
    <2>3. CASE cid' = E!None
      BY <1>2, <2>1, <2>3 DEF E!ShowDeal, ShowsInv, E!SourceIsTrue, E!ManifestIsVerified,
                              E!EmptyShowsNothing
    <2>4. QED
      BY <2>2, <2>3
  <1>3. ASSUME NEW c \in calls, NEW ok \in BOOLEAN, E!SlabAnswer(c, ok) PROVE ShowsInv'
    <2>1. c.kind = "slab" /\ c.root = cid /\ cid # 0 /\ calls' \subseteq calls
      BY <1>0, <1>3 DEF E!SlabAnswer, E!Answered, ShowsInv
    <2>2. flags'.manifest = flags.manifest
      BY <1>0, <1>3 DEF E!SlabAnswer, E!Flags
    <2>3. UNCHANGED <<cid, files, manifest, manifestError>>
      BY <1>3 DEF E!SlabAnswer
    <2>4. slab' = cid \/ UNCHANGED <<slab, slabSource>>
      BY <1>3, <2>1 DEF E!SlabAnswer
    <2>5. QED
      BY <2>1, <2>2, <2>3, <2>4 DEF ShowsInv, E!SourceIsTrue, E!ManifestIsVerified,
                                    E!EmptyShowsNothing, E!None
  <1>4. ASSUME NEW c \in calls, NEW ok \in BOOLEAN, E!ManifestAnswer(c, ok) PROVE ShowsInv'
    <2>1. c.kind = "manifest" /\ c.root = cid /\ cid # 0 /\ calls' \subseteq calls
      BY <1>0, <1>4 DEF E!ManifestAnswer, E!Answered, ShowsInv
    <2>2. UNCHANGED <<cid, files, slab, slabSource>>
      BY <1>4 DEF E!ManifestAnswer
    <2>3. manifest' # E!NoManifest /\ ~manifestError' => manifest'.of = cid
      BY <1>4, <2>1 DEF E!ManifestAnswer
    <2>4. QED
      BY <2>1, <2>2, <2>3 DEF ShowsInv, E!SourceIsTrue, E!ManifestIsVerified, E!EmptyShowsNothing
  <1>5. ASSUME NEW c \in calls, NEW ok \in BOOLEAN, E!KzgAnswer(c, ok) PROVE ShowsInv'
    <2>1. calls' \subseteq calls /\ flags'.manifest = flags.manifest
      BY <1>0, <1>5 DEF E!KzgAnswer, E!Answered, E!Flags
    <2>2. UNCHANGED <<cid, files, slab, slabSource, manifest, manifestError>>
      BY <1>5 DEF E!KzgAnswer
    <2>3. QED
      BY <2>1, <2>2 DEF ShowsInv, E!SourceIsTrue, E!ManifestIsVerified, E!EmptyShowsNothing
  <1>6. ASSUME NEW c \in calls, NEW a \in {"list", "empty", "error"}, E!FilesAnswer(c, a)
        PROVE  ShowsInv'
    <2>1. c.kind = "files" /\ c.root = cid /\ cid # 0 /\ calls' \subseteq calls
      BY <1>0, <1>6 DEF E!FilesAnswer, E!Answered, ShowsInv
    <2>2. UNCHANGED <<cid, slab, slabSource, manifest, manifestError>>
      BY <1>6 DEF E!FilesAnswer
    <2>3. flags'.manifest = flags.manifest
      BY <1>0, <1>6 DEF E!FilesAnswer, E!Flags
    <2>4. QED
      BY <2>1, <2>2, <2>3 DEF ShowsInv, E!SourceIsTrue, E!ManifestIsVerified, E!EmptyShowsNothing,
                              E!None
  <1>7. ASSUME E!fetchMduKzg PROVE ShowsInv'
    <2>1. calls' = calls \cup {E!Call("kzg", deal, slab)} /\ flags'.manifest = flags.manifest
      BY <1>0, <1>7 DEF E!fetchMduKzg, E!Flags
    <2>2. UNCHANGED <<cid, files, slab, slabSource, manifest, manifestError>>
      BY <1>7 DEF E!fetchMduKzg
    <2>3. QED
      BY <2>1, <2>2 DEF ShowsInv, E!SourceIsTrue, E!ManifestIsVerified, E!EmptyShowsNothing, E!Call
  <1>8. ASSUME NEW d \in Deals, NEW p \in Paths, E!Commit(d, p) PROVE ShowsInv'
    BY <1>1, <1>8 DEF E!Commit, E!shown
  <1>9. CASE E!ChainReset
    BY <1>1, <1>9 DEF E!ChainReset, E!shown
  <1>10. ASSUME NEW d \in Deals, E!SaveSlab(d) PROVE ShowsInv'
    BY <1>1, <1>10 DEF E!SaveSlab, E!shown
  <1>11. CASE UNCHANGED E!vars
    BY <1>1, <1>11 DEF E!vars, E!shown
  <1>12. serial' \in BOOLEAN
    BY DEF ExplorerInv, E!TypeOK, E!Next, E!vars
  <1>13. QED
    BY <1>1, <1>2, <1>3, <1>4, <1>5, <1>6, <1>7, <1>8, <1>9, <1>10, <1>11, <1>12,
       ExplorerDownloads DEF E!Next, E!Step

\* What the deal explorer shows is of the deal's root, while deal and OPFS change only
\* between calls: a slab with a named source, a manifest without an error (also one
\* computed from MDUs that were saved under another root), and nothing of a deal without
\* content.
THEOREM ExplorerIsOfDeal == E!Spec => []ExplorerShowsTheDeal
  <1> DEFINE Inv == ExplorerInv /\ (serial => ShowsInv)
  <1>1. E!Init => Inv
    <2>1. E!Init => ShowsInv
      BY DEF E!Init, ShowsInv, E!SourceIsTrue, E!ManifestIsVerified, E!EmptyShowsNothing
    <2>2. QED
      BY <2>1, ExplorerInit, PagesAssumption
  <1>2. Inv /\ [E!Next]_E!vars => Inv'
    <2>1. ASSUME [E!Next]_E!vars, Inv PROVE serial' = serial
      BY <2>1 DEF E!Next, E!vars
    <2>2. QED
      BY <2>1, ExplorerStep, ShowsStep, PagesAssumption
  <1>3. Inv => ExplorerShowsTheDeal
    BY DEF ExplorerInv, ShowsInv, ExplorerShowsTheDeal, E!ExplorerShowsTheDeal
  <1>4. QED
    BY <1>1, <1>2, <1>3, PTL DEF E!Spec

-----------------------------------------------------------------------------
(***************************************************************************)
(* The dashboard.  A load that is not cancelled is of the selected deal    *)
(* and the root the list gives it, so whichever answer comes last is too.  *)
(***************************************************************************)
LoadOf(l) == [deal |-> l.deal, root |-> l.root, live |-> l.live]
OverrideOf(o) == [cid |-> o.cid, expired |-> o.expired]

LoadsInv ==
    \A l \in loads :
        /\ l = LoadOf(l)
        /\ l.live => target \in DOMAIN deals /\ l.deal = target /\ l.root = deals[target]

OverridesInv ==
    /\ \A d \in DOMAIN overrides : overrides[d] = OverrideOf(overrides[d])
    /\ B!OptimisticRootShown

BoardInv == LoadsInv /\ B!ContentIsOfTarget /\ OverridesInv

LEMMA CancelledLoads ==
    ASSUME LoadsInv, NEW l \in B!Cancelled PROVE l = LoadOf(l) /\ ~l.live
  <1>1. PICK x \in loads : l = [x EXCEPT !.live = FALSE]
    BY DEF B!Cancelled
  <1>2. x = LoadOf(x)
    BY DEF LoadsInv
  <1>3. l = [deal |-> x.deal, root |-> x.root, live |-> FALSE]
    BY <1>1, <1>2 DEF LoadOf
  <1>4. QED
    BY <1>3 DEF LoadOf

\* Whatever list, selection and account are set, and whether or not the content is
\* loaded anew.
LEMMA ShowKeepsContent ==
    ASSUME LoadsInv, B!ContentIsOfTarget, NEW ds, NEW t, NEW nil, NEW reload,
           B!Show(ds, t, nil, reload)
    PROVE  LoadsInv' /\ B!ContentIsOfTarget' /\ deals' = ds
  <1> DEFINE t2 == B!Selected(ds, t, nil)
             root == IF t2 \in DOMAIN ds THEN ds[t2] ELSE B!NoRoot
             before == IF target \in DOMAIN deals THEN deals[target] ELSE B!NoRoot
             new == [deal |-> t2, root |-> root, live |-> TRUE]
  <1>1. deals' = ds /\ target' = t2
    BY DEF B!Show
  <1>2. CASE root = B!NoRoot
    <2>1. content' = B!NoContent /\ loads' = B!Cancelled
      BY <1>2 DEF B!Show
    <2>2. LoadsInv'
      BY <2>1, CancelledLoads DEF LoadsInv
    <2>3. QED
      BY <1>1, <2>1, <2>2 DEF B!ContentIsOfTarget
  <1>3. CASE root # B!NoRoot /\ (t2 # target \/ reload \/ nil # nilAddress \/ root # before)
    <2>1. loads' = B!Cancelled \cup {new}
      BY <1>3 DEF B!Show
    <2>2. t2 \in DOMAIN ds /\ root = ds[t2]
      BY <1>3
    <2>3. new = LoadOf(new) /\ new.live /\ new.deal = t2 /\ new.root = root
      BY DEF LoadOf
    <2> HIDE DEF new
    <2>4. LoadsInv'
      BY <1>1, <2>1, <2>2, <2>3, CancelledLoads DEF LoadsInv
    <2>5. \E l \in loads' : l.live
      BY <2>1, <2>3
    <2>6. QED
      BY <1>1, <2>4, <2>5 DEF B!ContentIsOfTarget
  <1>4. CASE root # B!NoRoot /\ t2 = target /\ ~reload /\ nil = nilAddress /\ root = before
    <2>1. content' = content /\ loads' = loads
      BY <1>4 DEF B!Show
    <2>2. /\ target' = target /\ target \in DOMAIN deals /\ target \in DOMAIN deals'
          /\ deals'[target] = deals[target]
      BY <1>1, <1>4
    <2>3. LoadsInv'
      BY <2>1, <2>2 DEF LoadsInv
    <2>4. QED
      BY <1>1, <2>1, <2>2, <2>3 DEF B!ContentIsOfTarget
  <1>5. QED
    BY <1>2, <1>3, <1>4

LEMMA ContentKept ==
    ASSUME LoadsInv, B!ContentIsOfTarget, UNCHANGED <<loads, content, target, deals>>
    PROVE  LoadsInv' /\ B!ContentIsOfTarget'
  BY DEF LoadsInv, B!ContentIsOfTarget

LEMMA OverridesKept ==
    ASSUME OverridesInv, UNCHANGED <<deals, overrides>> PROVE OverridesInv'
  BY DEF OverridesInv, B!OptimisticRootShown, B!Fresh

LEMMA OverridesGone == ASSUME overrides' = B!Nothing PROVE OverridesInv'
  BY DEF OverridesInv, B!OptimisticRootShown, B!Fresh, B!Nothing

LEMMA BoardKept ==
    ASSUME BoardInv, UNCHANGED <<loads, content, target, deals, overrides>> PROVE BoardInv'
  BY ContentKept, OverridesKept DEF BoardInv

LEMMA BoardUser == ASSUME BoardInv, B!User PROVE BoardInv'
  <1> USE DEF B!listVars, B!shownVars
  <1>1. ASSUME NEW a \in Owners, B!Connect(a) PROVE BoardInv'
    BY <1>1, ShowKeepsContent, OverridesGone DEF B!Connect, BoardInv
  <1>2. ASSUME B!Disconnect PROVE BoardInv'
    BY <1>2, ShowKeepsContent, OverridesGone DEF B!Disconnect, BoardInv
  <1>3. ASSUME NEW d \in B!DealIds, B!SelectDeal(d) PROVE BoardInv'
    BY <1>3, ShowKeepsContent, OverridesKept DEF B!SelectDeal, BoardInv
  <1>4. ASSUME B!handleRefreshSummary PROVE BoardInv'
    BY <1>4, BoardKept DEF B!handleRefreshSummary
  <1>5. ASSUME NEW f \in Files, B!StartUpload(f) \/ B!StartMduCommit(f) PROVE BoardInv'
    BY <1>5, BoardKept DEF B!StartUpload, B!StartMduCommit
  <1>6. ASSUME B!StartCommit \/ B!StartCreate \/ B!DownloadContent PROVE BoardInv'
    BY <1>6, BoardKept DEF B!StartCommit, B!StartCreate, B!DownloadContent
  <1>7. ASSUME NEW i \in 1..Len(recent), B!DownloadRecent(i) PROVE BoardInv'
    BY <1>7, BoardKept DEF B!DownloadRecent
  <1>8. ASSUME B!Reload PROVE BoardInv'
    <2>1. loads' = {} /\ content' = B!NoContent /\ overrides' = B!Nothing
      BY <1>8 DEF B!Reload
    <2>2. QED
      BY <2>1, OverridesGone DEF BoardInv, LoadsInv, B!ContentIsOfTarget
  <1>9. QED
    BY <1>1, <1>2, <1>3, <1>4, <1>5, <1>6, <1>7, <1>8 DEF B!User

\* The list that an answer of the LCD makes: roots just committed stay in it.
LEMMA BoardAnswer == ASSUME BoardInv, NEW k, B!DealsAnswer(k) PROVE BoardInv'
  <1> DEFINE o == ops[k]
             merged == B!Merge(o.snap)
             own == {d \in DOMAIN merged : o.owners[d] = o.nil}
             list == IF own = {} THEN merged ELSE [d \in own |-> merged[d]]
  <1>1. /\ overrides' = [d \in B!Kept(o.snap) |-> overrides[d]]
        /\ B!After(o, list, B!Finishes(o, list))
    BY DEF B!DealsAnswer
  <1>2. \A d \in DOMAIN list : d \in DOMAIN merged /\ list[d] = merged[d]
    OBVIOUS
  <1>3. \A d \in DOMAIN merged : d \in B!Fresh => merged[d] = overrides[d].cid
    BY DEF B!Merge
  <1>4. B!Kept(o.snap) \subseteq B!Fresh /\ B!Fresh \subseteq DOMAIN overrides
    BY DEF B!Kept, B!Fresh
  <1> HIDE DEF merged, own, list, o
  <1>5. LoadsInv' /\ B!ContentIsOfTarget' /\ deals' = list
    BY <1>1, ShowKeepsContent DEF B!After, BoardInv
  <1>6. /\ DOMAIN overrides' = B!Kept(o.snap)
        /\ \A d \in DOMAIN overrides' : overrides'[d] = overrides[d]
    BY <1>1
  <1>7. OverridesInv'
    <2>1. \A d \in DOMAIN overrides' : overrides'[d] = OverrideOf(overrides'[d])
      BY <1>4, <1>6 DEF BoardInv, OverridesInv
    <2>2. ASSUME NEW d \in DOMAIN overrides', d \in DOMAIN deals'
          PROVE  deals'[d] = overrides'[d].cid
      BY <1>2, <1>3, <1>4, <1>5, <1>6, <2>2
    <2>3. QED
      BY <2>1, <2>2 DEF OverridesInv, B!OptimisticRootShown, B!Fresh
  <1>8. QED
    BY <1>5, <1>7 DEF BoardInv

LEMMA BoardCommitted == ASSUME BoardInv, NEW k, B!Committed(k) PROVE BoardInv'
  <1> DEFINE o == ops[k]
  <1>1. /\ overrides' = [d \in DOMAIN overrides \cup {o.deal} |->
                          IF d = o.deal THEN [cid |-> o.root, expired |-> FALSE] ELSE overrides[d]]
        /\ B!Show(B!With(deals, o.deal, o.root), target, nilAddress, FALSE)
    BY DEF B!Committed
  <1> HIDE DEF o
  <1>2. LoadsInv' /\ B!ContentIsOfTarget' /\ deals' = B!With(deals, o.deal, o.root)
    BY <1>1, ShowKeepsContent DEF BoardInv
  <1>3. \A d \in DOMAIN overrides' : overrides'[d] = OverrideOf(overrides'[d])
    BY <1>1 DEF BoardInv, OverridesInv, OverrideOf
  <1>4. ASSUME NEW d \in DOMAIN overrides', d \in DOMAIN deals', ~overrides'[d].expired
        PROVE  deals'[d] = overrides'[d].cid
    <2>1. d \in DOMAIN deals
      BY <1>2, <1>4 DEF B!With
    <2>2. CASE d = o.deal
      BY <1>1, <1>2, <1>4, <2>1, <2>2 DEF B!With
    <2>3. CASE d # o.deal
      <3>1. d \in DOMAIN overrides /\ overrides'[d] = overrides[d]
        BY <1>1, <1>4, <2>3
      <3>2. deals[d] = overrides[d].cid
        BY <1>4, <2>1, <3>1 DEF BoardInv, OverridesInv, B!OptimisticRootShown, B!Fresh
      <3>3. deals'[d] = deals[d]
        BY <1>2, <2>1, <2>3 DEF B!With
      <3>4. QED
        BY <3>1, <3>2, <3>3
    <2>4. QED
      BY <2>2, <2>3
  <1>5. QED
    BY <1>2, <1>3, <1>4 DEF BoardInv, OverridesInv, B!OptimisticRootShown, B!Fresh

LEMMA BoardOps ==
    ASSUME BoardInv, NEW k, B!OpStep(k) \/ B!Mine(k) PROVE BoardInv'
  <1> USE DEF B!listVars, B!shownVars
  <1>1. CASE B!DealsFail(k)
    BY <1>1, ShowKeepsContent, OverridesKept DEF B!DealsFail, B!After, BoardInv
  <1>2. CASE B!Serve(k) \/ B!AskAgain(k) \/ B!Sign(k) \/ B!TxFails(k) \/ B!DealCreated(k)
    BY <1>2, BoardKept DEF B!Serve, B!AskAgain, B!Sign, B!TxFails, B!DealCreated
  <1>3. CASE B!Uploaded(k) \/ B!UploadFails(k) \/ B!Listed(k) \/ B!Mine(k)
    BY <1>3, BoardKept DEF B!Uploaded, B!UploadFails, B!Listed, B!Mine
  <1>4. CASE B!Downloaded(k, TRUE) \/ B!Downloaded(k, FALSE)
    BY <1>4, BoardKept DEF B!Downloaded
  <1>5. QED
    BY <1>1, <1>2, <1>3, <1>4, BoardAnswer, BoardCommitted DEF B!OpStep

LEMMA BoardStep == ASSUME BoardInv, [B!Next]_B!vars PROVE BoardInv'
  <1>1. ASSUME NEW l \in loads, NEW ok \in BOOLEAN, B!ContentLoaded(l, ok) PROVE BoardInv'
    <2>1. /\ loads' = loads \ {l} /\ UNCHANGED <<deals, overrides, target>>
          /\ content' = IF ~l.live THEN content
                        ELSE IF ok THEN [deal |-> l.deal, root |-> l.root] ELSE B!NoContent
      BY <1>1 DEF B!ContentLoaded, B!listVars
    <2>2. LoadsInv'
      BY <2>1 DEF BoardInv, LoadsInv
    <2>3. B!ContentIsOfTarget'
      <3>1. CASE l.live
        <4>1. target \in DOMAIN deals /\ l.deal = target /\ l.root = deals[target]
          BY <3>1 DEF BoardInv, LoadsInv
        <4>2. content' = B!NoContent \/ (content'.deal = target /\ content'.root = deals[target])
          BY <2>1, <3>1, <4>1
        <4>3. QED
          BY <2>1, <4>1, <4>2 DEF B!ContentIsOfTarget
      <3>2. CASE ~l.live
        BY <2>1, <3>2 DEF BoardInv, B!ContentIsOfTarget
      <3>3. QED
        BY <3>1, <3>2
    <2>4. QED
      BY <2>1, <2>2, <2>3, OverridesKept DEF BoardInv
  <1>2. CASE B!LcdCatchesUp
    BY <1>2, BoardKept DEF B!LcdCatchesUp, B!listVars, B!shownVars
  <1>3. ASSUME NEW d \in DOMAIN overrides, B!Expire(d) PROVE BoardInv'
    <2>1. /\ overrides' = [overrides EXCEPT ![d].expired = TRUE]
          /\ UNCHANGED <<deals, loads, content, target>>
      BY <1>3 DEF B!Expire, B!shownVars
    <2>2. /\ overrides[d] = OverrideOf(overrides[d])
          /\ DOMAIN overrides' = DOMAIN overrides
          /\ \A x \in DOMAIN overrides \ {d} : overrides'[x] = overrides[x]
          /\ overrides'[d] = [overrides[d] EXCEPT !.expired = TRUE]
      BY <2>1 DEF BoardInv, OverridesInv
    <2>3. overrides'[d] = [cid |-> overrides[d].cid, expired |-> TRUE]
      BY <2>2 DEF OverrideOf
    <2>4. \A x \in DOMAIN overrides' : overrides'[x] = OverrideOf(overrides'[x])
      BY <2>2, <2>3 DEF BoardInv, OverridesInv, OverrideOf
    <2>5. OverridesInv'
      BY <2>1, <2>2, <2>3, <2>4 DEF BoardInv, OverridesInv, B!OptimisticRootShown, B!Fresh
    <2>6. QED
      BY <2>1, <2>5, ContentKept DEF BoardInv
  <1>4. CASE UNCHANGED B!vars
    BY <1>4, BoardKept DEF B!vars, B!listVars, B!shownVars
  <1>5. QED
    BY <1>1, <1>2, <1>3, <1>4, BoardUser, BoardOps DEF B!Next

\* For any number of deals, accounts and operations, reloads and overrides that expire
\* included: when nothing is loading the files shown are those of the selected deal
\* under the root the list gives it, and a root just committed stays in the list until
\* the LCD has it or the override expires, in whatever order answers come.
THEOREM BoardShowsTarget == B!Spec => []ContentIsOfTarget
  <1>1. B!Init => BoardInv
    BY DEF B!Init, BoardInv, LoadsInv, OverridesInv, B!ContentIsOfTarget, B!OptimisticRootShown,
           B!Fresh, B!Nothing
  <1>2. BoardInv /\ [B!Next]_B!vars => BoardInv'
    BY BoardStep
  <1>3. BoardInv => ContentIsOfTarget
    BY DEF BoardInv, OverridesInv, ContentIsOfTarget
  <1>4. QED
    BY <1>1, <1>2, <1>3, PTL DEF B!Spec
-----------------------------------------------------------------------------
(***************************************************************************)
(* The dashboard's types and its list of recent files.  The list is built    *)
(* by a recursion over itself, so first: what that computes.                 *)
(***************************************************************************)
\* A sequence, of whatever.
IsSeq(s) == \E S : s \in Seq(S)

LEMMA IsSeqFacts ==
    ASSUME NEW s, IsSeq(s) PROVE Len(s) \in Nat /\ DOMAIN s = 1..Len(s)
  BY DEF IsSeq

LEMMA IsSeqEmpty == IsSeq(<<>>) /\ Len(<<>>) = 0
  <1>1. <<>> \in Seq({})
    OBVIOUS
  <1>2. QED
    BY <1>1 DEF IsSeq

LEMMA IsSeqAppend ==
    ASSUME NEW s, IsSeq(s), NEW e
    PROVE  /\ IsSeq(Append(s, e)) /\ Len(Append(s, e)) = Len(s) + 1
           /\ \A i \in 1..Len(s) : Append(s, e)[i] = s[i]
           /\ Append(s, e)[Len(s) + 1] = e
  <1>1. PICK S : s \in Seq(S)
    BY DEF IsSeq
  <1>2. PICK T : T = S \cup {e}
    OBVIOUS
  <1>3. s \in Seq(T) /\ e \in T
    BY <1>1, <1>2
  <1>4. Append(s, e) \in Seq(T)
    BY <1>3
  <1>5. QED
    BY <1>3, <1>4 DEF IsSeq

LEMMA IsSeqMade ==
    ASSUME NEW n \in Nat, NEW s, DOMAIN s = 1..n, s = [i \in 1..n |-> s[i]]
    PROVE  IsSeq(s) /\ Len(s) = n
  <1>1. PICK S : S = {s[i] : i \in 1..n}
    OBVIOUS
  <1>2. s \in [1..n -> S]
    BY <1>1
  <1>3. s \in Seq(S)
    BY <1>2
  <1>4. QED
    BY <1>2, <1>3 DEF IsSeq

-----------------------------------------------------------------------------
(* The list without an id *)

\* f follows the definition of Without up to m.
Filtered(f, id, m) ==
    f = [n \in 0..m |->
            IF n = 0 THEN <<>>
            ELSE IF B!Id(recent[n]) = id THEN f[n - 1]
            ELSE Append(f[n - 1], recent[n])]

LEMMA FilterStarts == ASSUME NEW id PROVE \E f : Filtered(f, id, 0)
  <1>1. PICK f : f = [n \in 0..0 |-> <<>>]
    OBVIOUS
  <1>2. Filtered(f, id, 0)
    BY <1>1 DEF Filtered
  <1>3. QED
    BY <1>2

LEMMA FilterGoesOn ==
    ASSUME NEW id, NEW m \in Nat, NEW f, Filtered(f, id, m)
    PROVE  \E g : Filtered(g, id, m + 1)
  <1>1. PICK last : last = IF B!Id(recent[m + 1]) = id THEN f[m]
                           ELSE Append(f[m], recent[m + 1])
    OBVIOUS
  <1>2. PICK g : g = [n \in 0..m + 1 |-> IF n = m + 1 THEN last ELSE f[n]]
    OBVIOUS
  <1>3. \A n \in 0..m : g[n] = f[n]
    BY <1>2
  <1>4. DOMAIN g = 0..m + 1 /\ g = [n \in 0..m + 1 |-> g[n]]
    BY <1>2
  <1>5. ASSUME NEW n \in 0..m + 1
        PROVE  g[n] = IF n = 0 THEN <<>>
                      ELSE IF B!Id(recent[n]) = id THEN g[n - 1]
                      ELSE Append(g[n - 1], recent[n])
    <2>1. CASE n = m + 1
      BY <1>1, <1>2, <1>3, <2>1
    <2>2. CASE n # m + 1
      <3>1. n \in 0..m /\ (n # 0 => n - 1 \in 0..m)
        BY <2>2
      <3>2. f[n] = IF n = 0 THEN <<>>
                   ELSE IF B!Id(recent[n]) = id THEN f[n - 1]
                   ELSE Append(f[n - 1], recent[n])
        BY <3>1 DEF Filtered
      <3>3. QED
        BY <1>3, <3>1, <3>2
    <2>3. QED
      BY <2>1, <2>2
  <1>6. Filtered(g, id, m + 1)
    BY <1>4, <1>5 DEF Filtered
  <1>7. QED
    BY <1>6

\* The recursion has a solution: there is no least m without.
LEMMA FilterExists ==
    ASSUME NEW id, NEW m \in Nat PROVE \E f : Filtered(f, id, m)
  <1>1. SUFFICES ASSUME ~ \E f : Filtered(f, id, m) PROVE FALSE
    OBVIOUS
  <1>2. PICK S : S = {n \in Nat : ~ \E f : Filtered(f, id, n)}
    OBVIOUS
  <1>3. S \subseteq Nat /\ m \in S
    BY <1>1, <1>2
  <1>4. PICK n \in S : \A x \in Nat : <<x, n>> \in OpToRel(<, Nat) => x \notin S
    BY <1>3, NatLessThanWellFounded, WFMin
  <1>5. n # 0
    BY <1>2, FilterStarts
  <1>6. n - 1 \in Nat /\ <<n - 1, n>> \in OpToRel(<, Nat)
    BY <1>3, <1>5 DEF OpToRel
  <1>7. n - 1 \notin S
    BY <1>4, <1>6
  <1>8. PICK f : Filtered(f, id, n - 1)
    BY <1>2, <1>6, <1>7
  <1>9. \E g : Filtered(g, id, (n - 1) + 1)
    BY <1>6, <1>8, FilterGoesOn
  <1>10. (n - 1) + 1 = n
    BY <1>3
  <1>11. QED
    BY <1>2, <1>4, <1>9, <1>10

\* Without is the last value of such a solution.
LEMMA WithoutIs ==
    ASSUME NEW id, IsSeq(recent)
    PROVE  \E f : Filtered(f, id, Len(recent)) /\ B!Without(id) = f[Len(recent)]
  <1>1. \E f : Filtered(f, id, Len(recent))
    BY FilterExists, IsSeqFacts
  <1>2. Filtered(CHOOSE f : Filtered(f, id, Len(recent)), id, Len(recent))
    BY <1>1
  <1>3. B!Without(id) = (CHOOSE f : Filtered(f, id, Len(recent)))[Len(recent)]
    BY DEF B!Without, Filtered
  <1>4. QED
    BY <1>2, <1>3

\* No file is in the list twice.
NoneTwice(s) == \A i, j \in 1..Len(s) : B!Id(s[i]) = B!Id(s[j]) => i = j

\* s has some of the first n recent files, none of them with this id.
OfRecent(s, id, n) ==
    /\ IsSeq(s) /\ NoneTwice(s)
    /\ \A i \in 1..Len(s) : \E j \in 1..n : s[i] = recent[j] /\ B!Id(recent[j]) # id

LEMMA OfRecentStep ==
    ASSUME IsSeq(recent), NoneTwice(recent), NEW id, NEW n \in 1..Len(recent),
           NEW s, OfRecent(s, id, n - 1)
    PROVE  /\ OfRecent(s, id, n)
           /\ B!Id(recent[n]) # id => OfRecent(Append(s, recent[n]), id, n)
  <1>1. Len(recent) \in Nat /\ n \in Nat /\ n - 1 \in Nat /\ \A j \in 1..n - 1 : j \in 1..n /\ j # n
    BY IsSeqFacts
  <1>2. OfRecent(s, id, n)
    BY <1>1 DEF OfRecent
  <1>3. ASSUME B!Id(recent[n]) # id PROVE OfRecent(Append(s, recent[n]), id, n)
    <2>1. PICK t : t = Append(s, recent[n])
      OBVIOUS
    <2>2. PICK l \in Nat : l = Len(s)
      BY IsSeqFacts DEF OfRecent
    <2>3. /\ IsSeq(t) /\ Len(t) = l + 1
          /\ \A i \in 1..l : t[i] = s[i]
          /\ t[l + 1] = recent[n]
      BY <2>1, <2>2, IsSeqAppend DEF OfRecent
    <2>4. \A i \in 1..l + 1 : i = l + 1 \/ i \in 1..l
      OBVIOUS
    <2>5. n \in 1..n
      BY <1>1
    <2>6. \A i \in 1..l : \E j \in 1..n : s[i] = recent[j] /\ B!Id(recent[j]) # id
      BY <1>2, <2>2 DEF OfRecent
    <2>7. \A i \in 1..l + 1 : \E j \in 1..n : t[i] = recent[j] /\ B!Id(recent[j]) # id
      BY <1>3, <2>3, <2>4, <2>5, <2>6
    <2>8. \A i \in 1..l : B!Id(s[i]) # B!Id(recent[n])
      <3>1. SUFFICES ASSUME NEW i \in 1..l PROVE B!Id(s[i]) # B!Id(recent[n])
        OBVIOUS
      <3>2. PICK j \in 1..n - 1 : s[i] = recent[j]
        BY <2>2 DEF OfRecent
      <3>3. j \in 1..Len(recent) /\ j # n
        BY <1>1
      <3>4. QED
        BY <3>2, <3>3 DEF NoneTwice
    <2>9. \A i, j \in 1..l : B!Id(s[i]) = B!Id(s[j]) => i = j
      BY <2>2 DEF OfRecent, NoneTwice
    <2>10. ASSUME NEW i \in 1..l + 1, NEW j \in 1..l + 1, B!Id(t[i]) = B!Id(t[j])
           PROVE  i = j
      <3>1. CASE i \in 1..l /\ j \in 1..l
        BY <2>3, <2>9, <2>10, <3>1
      <3>2. CASE i = l + 1 /\ j \in 1..l
        BY <2>3, <2>8, <2>10, <3>2
      <3>3. CASE j = l + 1 /\ i \in 1..l
        BY <2>3, <2>8, <2>10, <3>3
      <3>4. QED
        BY <2>4, <3>1, <3>2, <3>3
    <2>11. NoneTwice(t)
      BY <2>3, <2>10 DEF NoneTwice
    <2>12. QED
      BY <2>1, <2>3, <2>7, <2>11 DEF OfRecent
  <1>4. QED
    BY <1>2, <1>3

\* By a least counterexample again.
LEMMA FilteredOfRecent ==
    ASSUME IsSeq(recent), NoneTwice(recent), NEW id, NEW f,
           Filtered(f, id, Len(recent)), NEW m \in 0..Len(recent)
    PROVE  OfRecent(f[m], id, m)
  <1>1. SUFFICES ASSUME ~ OfRecent(f[m], id, m) PROVE FALSE
    OBVIOUS
  <1>2. PICK S : S = {n \in 0..Len(recent) : ~ OfRecent(f[n], id, n)}
    OBVIOUS
  <1>3. S \subseteq Nat /\ m \in S
    BY <1>1, <1>2, IsSeqFacts
  <1>4. PICK n \in S : \A x \in Nat : <<x, n>> \in OpToRel(<, Nat) => x \notin S
    BY <1>3, NatLessThanWellFounded, WFMin
  <1>5. Len(recent) \in Nat /\ n \in 0..Len(recent)
    BY <1>2, IsSeqFacts
  <1>6. f[n] = IF n = 0 THEN <<>>
               ELSE IF B!Id(recent[n]) = id THEN f[n - 1]
               ELSE Append(f[n - 1], recent[n])
    BY <1>5 DEF Filtered
  <1>7. n # 0
    <2>1. OfRecent(<<>>, id, 0)
      BY IsSeqEmpty DEF OfRecent, NoneTwice
    <2>2. QED
      BY <1>2, <1>6, <2>1
  <1>8. n - 1 \in Nat /\ <<n - 1, n>> \in OpToRel(<, Nat)
    BY <1>3, <1>7 DEF OpToRel
  <1>9. n - 1 \notin S
    BY <1>4, <1>8
  <1>10. OfRecent(f[n - 1], id, n - 1) /\ n \in 1..Len(recent)
    BY <1>2, <1>5, <1>7, <1>9
  <1>11. OfRecent(f[n], id, n)
    BY <1>6, <1>7, <1>10, OfRecentStep
  <1>12. QED
    BY <1>2, <1>11

LEMMA WithoutOfRecent ==
    ASSUME IsSeq(recent), NoneTwice(recent), NEW id
    PROVE  OfRecent(B!Without(id), id, Len(recent))
  BY WithoutIs, FilteredOfRecent, IsSeqFacts

-----------------------------------------------------------------------------
(* upsertRecentFile *)

EntryOf(e) == B!Entry(e.deal, e.file, e.root, e.action, e.status)

\* What the list of recent files always is.
GoodRecent(r) ==
    /\ IsSeq(r) /\ Len(r) <= MaxRecent /\ NoneTwice(r)
    /\ \A i \in 1..Len(r) : r[i] = EntryOf(r[i])

LEMMA MinOfTwo ==
    ASSUME NEW a \in Nat, NEW b \in Nat
    PROVE  B!Min({a, b}) \in Nat /\ B!Min({a, b}) <= a /\ B!Min({a, b}) <= b
  <1>1. PICK x \in {a, b} : x <= a /\ x <= b
    OBVIOUS
  <1>2. x \in {a, b} /\ \A y \in {a, b} : x <= y
    BY <1>1
  <1>3. B!Min({a, b}) \in {a, b} /\ \A y \in {a, b} : B!Min({a, b}) <= y
    BY <1>2 DEF B!Min
  <1>4. QED
    BY <1>3

\* upsertRecentFile puts an entry first and keeps others of other ids.
LEMMA Upserted ==
    ASSUME B!DashboardAssumption, GoodRecent(recent), NEW e, e = EntryOf(e)
    PROVE  LET r == B!upsertRecentFile(e) IN
           /\ GoodRecent(r)
           /\ \A i \in 1..Len(r) :
                  r[i] = e \/ \E j \in 1..Len(recent) : r[i] = recent[j] /\ B!Id(recent[j]) # B!Id(e)
  <1>1. PICK w : w = B!Without(B!Id(e))
    OBVIOUS
  <1>2. OfRecent(w, B!Id(e), Len(recent))
    BY <1>1, WithoutOfRecent DEF GoodRecent
  <1>3. PICK S : w \in Seq(S)
    BY <1>2 DEF OfRecent, IsSeq
  <1>4. PICK T : T = S \cup {e}
    OBVIOUS
  <1>5. w \in Seq(T) /\ <<e>> \in Seq(T)
    BY <1>3, <1>4
  <1>6. PICK l \in Nat : l = Len(w)
    BY <1>5
  <1>7. PICK s : s = <<e>> \o w
    OBVIOUS
  <1>8. s \in Seq(T) /\ Len(s) = l + 1 /\ s[1] = e /\ \A i \in 1..l : s[i + 1] = w[i]
    BY <1>5, <1>6, <1>7
  <1>9. PICK n \in Nat : n = B!Min({l + 1, MaxRecent}) /\ n <= l + 1 /\ n <= MaxRecent
    <2>1. l + 1 \in Nat /\ MaxRecent \in Nat
      BY DEF B!DashboardAssumption
    <2>2. QED
      BY <2>1, MinOfTwo
  <1>10. PICK r : r = SubSeq(s, 1, n)
    OBVIOUS
  <1>11. r = B!upsertRecentFile(e)
    BY <1>1, <1>7, <1>8, <1>9, <1>10 DEF B!upsertRecentFile
  <1>12. r \in Seq(T) /\ Len(r) = n /\ \A i \in 1..n : r[i] = s[i]
    <2>1. SubSeq(s, 1, n) \in Seq(T) /\ Len(SubSeq(s, 1, n)) = n
      <3>1. \A i \in 1..n : s[i] \in T
        BY <1>8, <1>9
      <3>2. /\ SubSeq(s, 1, n) \in Seq(T)
            /\ Len(SubSeq(s, 1, n)) = IF 1 <= n THEN n - 1 + 1 ELSE 0
        BY <3>1, SubSeqProperties
      <3>3. QED
        BY <3>2
    <2>2. \A i \in 1..n : SubSeq(s, 1, n)[i] = s[i]
      BY <1>8, <1>9
    <2>3. QED
      BY <1>10, <2>1, <2>2
  <1>13. \A i \in 1..n : i = 1 \/ (i - 1 \in 1..l /\ r[i] = w[i - 1])
    <2>1. SUFFICES ASSUME NEW i \in 1..n, i # 1 PROVE i - 1 \in 1..l /\ r[i] = w[i - 1]
      OBVIOUS
    <2>2. i - 1 \in 1..l /\ (i - 1) + 1 = i
      BY <1>9, <2>1
    <2>3. s[(i - 1) + 1] = w[i - 1]
      BY <1>8, <2>2
    <2>4. QED
      BY <1>12, <2>2, <2>3
  <1>14. \A i \in 1..l : \E j \in 1..Len(recent) : w[i] = recent[j] /\ B!Id(recent[j]) # B!Id(e)
    BY <1>2, <1>6 DEF OfRecent
  <1>15. \A i \in 1..n : i = 1 => r[i] = e
    BY <1>8, <1>12
  <1>16. \A i \in 1..n :
             r[i] = e \/ \E j \in 1..Len(recent) : r[i] = recent[j] /\ B!Id(recent[j]) # B!Id(e)
    BY <1>13, <1>14, <1>15
  <1>17. \A i \in 1..n : r[i] = EntryOf(r[i])
    BY <1>16 DEF GoodRecent
  <1>18. ASSUME NEW i \in 1..n, NEW j \in 1..n, B!Id(r[i]) = B!Id(r[j]) PROVE i = j
    <2>1. CASE i = 1 /\ j = 1
      BY <2>1
    <2>2. CASE i = 1 /\ j # 1
      BY <1>13, <1>14, <1>15, <1>18, <2>2
    <2>3. CASE i # 1 /\ j = 1
      BY <1>13, <1>14, <1>15, <1>18, <2>3
    <2>4. CASE i # 1 /\ j # 1
      <3>1. i - 1 \in 1..l /\ j - 1 \in 1..l /\ B!Id(w[i - 1]) = B!Id(w[j - 1])
        BY <1>13, <1>18, <2>4
      <3>2. i - 1 = j - 1
        BY <1>2, <1>6, <3>1 DEF OfRecent, NoneTwice
      <3>3. QED
        BY <3>2
    <2>5. QED
      BY <2>1, <2>2, <2>3, <2>4
  <1>19. NoneTwice(r)
    BY <1>12, <1>18 DEF NoneTwice
  <1>20. GoodRecent(r)
    BY <1>9, <1>12, <1>17, <1>19 DEF GoodRecent, IsSeq
  <1>21. QED
    BY <1>11, <1>12, <1>16, <1>20

\* updateRecentFile changes the status of the entry with the id, and no id.
LEMMA Updated ==
    ASSUME GoodRecent(recent), NEW id, NEW action, NEW st
    PROVE  LET r == B!updateRecentFile(id, action, st) IN
           /\ GoodRecent(r) /\ Len(r) = Len(recent)
           /\ \A i \in 1..Len(r) :
                  /\ B!Id(r[i]) = B!Id(recent[i])
                  /\ r[i].status = IF B!Id(recent[i]) = id THEN st ELSE recent[i].status
  <1>1. PICK r : r = B!updateRecentFile(id, action, st)
    OBVIOUS
  <1>2. PICK n \in Nat : n = Len(recent)
    BY IsSeqFacts DEF GoodRecent
  <1>3. r = [i \in 1..n |->
                IF B!Id(recent[i]) = id
                THEN [recent[i] EXCEPT !.action = action, !.status = st] ELSE recent[i]]
    BY <1>1, <1>2 DEF B!updateRecentFile
  <1>4. DOMAIN r = 1..n /\ r = [i \in 1..n |-> r[i]]
    BY <1>3
  <1>5. IsSeq(r) /\ Len(r) = n
    BY <1>4, IsSeqMade
  <1>6. ASSUME NEW i \in 1..n
        PROVE  /\ r[i] = EntryOf(r[i])
               /\ B!Id(r[i]) = B!Id(recent[i])
               /\ r[i].status = IF B!Id(recent[i]) = id THEN st ELSE recent[i].status
    <2>1. recent[i] = EntryOf(recent[i])
      BY <1>2 DEF GoodRecent
    <2>2. CASE B!Id(recent[i]) # id
      BY <1>3, <2>1, <2>2
    <2>3. CASE B!Id(recent[i]) = id
      <3>1. r[i] = [recent[i] EXCEPT !.action = action, !.status = st]
        BY <1>3, <2>3
      <3>2. PICK d, f, ro, a, t : recent[i] = [deal |-> d, file |-> f, root |-> ro,
                                               action |-> a, status |-> t]
        BY <2>1 DEF EntryOf, B!Entry
      <3>3. r[i] = [deal |-> d, file |-> f, root |-> ro, action |-> action, status |-> st]
        <4>1. PICK x : x = recent[i]
          OBVIOUS
        <4>2. [x EXCEPT !.action = action, !.status = st]
                = [deal |-> d, file |-> f, root |-> ro, action |-> action, status |-> st]
          <5>1. PICK y : y = [x EXCEPT !.action = action]
            OBVIOUS
          <5>2. y = [deal |-> d, file |-> f, root |-> ro, action |-> action, status |-> t]
            BY <3>2, <4>1, <5>1
          <5>3. [y EXCEPT !.status = st]
                  = [deal |-> d, file |-> f, root |-> ro, action |-> action, status |-> st]
            BY <5>2
          <5>4. [x EXCEPT !.action = action, !.status = st] = [y EXCEPT !.status = st]
            BY <5>1
          <5>5. QED
            BY <5>3, <5>4
        <4>3. QED
          BY <3>1, <4>1, <4>2
      <3>4. QED
        BY <2>3, <3>2, <3>3 DEF EntryOf, B!Entry, B!Id
    <2>4. QED
      BY <2>2, <2>3
  <1>7. NoneTwice(r)
    BY <1>2, <1>5, <1>6 DEF GoodRecent, NoneTwice
  <1>8. GoodRecent(r)
    BY <1>2, <1>5, <1>6, <1>7 DEF GoodRecent
  <1>9. QED
    BY <1>1, <1>2, <1>5, <1>6, <1>8

-----------------------------------------------------------------------------
(* Operations *)

\* The fields of an operation.
OpOf(o) ==
    [kind |-> o.kind, acct |-> o.acct, nil |-> o.nil, deal |-> o.deal, file |-> o.file,
     root |-> o.root, recorded |-> o.recorded, phase |-> o.phase, tx |-> o.tx, left |-> o.left,
     snap |-> o.snap, owners |-> o.owners]

\* The fields of an operation that matter here.
Shaped(o, ki, ac, fi, de, ph, le, sn) ==
    /\ o = OpOf(o)
    /\ o.kind = ki /\ o.acct = ac /\ o.file = fi /\ o.deal = de
    /\ o.phase = ph /\ o.left = le /\ o.snap = sn

\* One field is set, and the others stay.
LEMMA OpPhase ==
    ASSUME NEW ki, NEW ac, NEW fi, NEW de, NEW ph, NEW le, NEW sn, NEW o, NEW p, NEW n,
           Shaped(o, ki, ac, fi, de, ph, le, sn), n = [o EXCEPT !.phase = p]
    PROVE  Shaped(n, ki, ac, fi, de, p, le, sn)
  <1>1. n = [kind |-> o.kind, acct |-> o.acct, nil |-> o.nil, deal |-> o.deal,
           file |-> o.file, root |-> o.root, recorded |-> o.recorded, phase |-> p,
           tx |-> o.tx, left |-> o.left, snap |-> o.snap, owners |-> o.owners]
    BY DEF Shaped, OpOf
  <1>2. QED
    BY <1>1 DEF Shaped, OpOf

LEMMA OpTx ==
    ASSUME NEW ki, NEW ac, NEW fi, NEW de, NEW ph, NEW le, NEW sn, NEW o, NEW p, NEW n,
           Shaped(o, ki, ac, fi, de, ph, le, sn), n = [o EXCEPT !.tx = p]
    PROVE  Shaped(n, ki, ac, fi, de, ph, le, sn)
  <1>1. n = [kind |-> o.kind, acct |-> o.acct, nil |-> o.nil, deal |-> o.deal,
           file |-> o.file, root |-> o.root, recorded |-> o.recorded,
           phase |-> o.phase, tx |-> p, left |-> o.left, snap |-> o.snap,
           owners |-> o.owners]
    BY DEF Shaped, OpOf
  <1>2. QED
    BY <1>1 DEF Shaped, OpOf

LEMMA OpLeft ==
    ASSUME NEW ki, NEW ac, NEW fi, NEW de, NEW ph, NEW le, NEW sn, NEW o, NEW p, NEW n,
           Shaped(o, ki, ac, fi, de, ph, le, sn), n = [o EXCEPT !.left = p]
    PROVE  Shaped(n, ki, ac, fi, de, ph, p, sn)
  <1>1. n = [kind |-> o.kind, acct |-> o.acct, nil |-> o.nil, deal |-> o.deal,
           file |-> o.file, root |-> o.root, recorded |-> o.recorded,
           phase |-> o.phase, tx |-> o.tx, left |-> p, snap |-> o.snap,
           owners |-> o.owners]
    BY DEF Shaped, OpOf
  <1>2. QED
    BY <1>1 DEF Shaped, OpOf

LEMMA OpSnap ==
    ASSUME NEW ki, NEW ac, NEW fi, NEW de, NEW ph, NEW le, NEW sn, NEW o, NEW p, NEW n,
           Shaped(o, ki, ac, fi, de, ph, le, sn), n = [o EXCEPT !.snap = p]
    PROVE  Shaped(n, ki, ac, fi, de, ph, le, p)
  <1>1. n = [kind |-> o.kind, acct |-> o.acct, nil |-> o.nil, deal |-> o.deal,
           file |-> o.file, root |-> o.root, recorded |-> o.recorded,
           phase |-> o.phase, tx |-> o.tx, left |-> o.left, snap |-> p,
           owners |-> o.owners]
    BY DEF Shaped, OpOf
  <1>2. QED
    BY <1>1 DEF Shaped, OpOf

LEMMA OpOwners ==
    ASSUME NEW ki, NEW ac, NEW fi, NEW de, NEW ph, NEW le, NEW sn, NEW o, NEW p, NEW n,
           Shaped(o, ki, ac, fi, de, ph, le, sn), n = [o EXCEPT !.owners = p]
    PROVE  Shaped(n, ki, ac, fi, de, ph, le, sn)
  <1>1. n = [kind |-> o.kind, acct |-> o.acct, nil |-> o.nil, deal |-> o.deal,
           file |-> o.file, root |-> o.root, recorded |-> o.recorded,
           phase |-> o.phase, tx |-> o.tx, left |-> o.left, snap |-> o.snap,
           owners |-> p]
    BY DEF Shaped, OpOf
  <1>2. QED
    BY <1>1 DEF Shaped, OpOf

LEMMA OpRoot ==
    ASSUME NEW ki, NEW ac, NEW fi, NEW de, NEW ph, NEW le, NEW sn, NEW o, NEW p, NEW n,
           Shaped(o, ki, ac, fi, de, ph, le, sn), n = [o EXCEPT !.root = p]
    PROVE  Shaped(n, ki, ac, fi, de, ph, le, sn)
  <1>1. n = [kind |-> o.kind, acct |-> o.acct, nil |-> o.nil, deal |-> o.deal,
           file |-> o.file, root |-> p, recorded |-> o.recorded,
           phase |-> o.phase, tx |-> o.tx, left |-> o.left, snap |-> o.snap,
           owners |-> o.owners]
    BY DEF Shaped, OpOf
  <1>2. QED
    BY <1>1 DEF Shaped, OpOf

LEMMA OpDeal ==
    ASSUME NEW ki, NEW ac, NEW fi, NEW de, NEW ph, NEW le, NEW sn, NEW o, NEW p, NEW n,
           Shaped(o, ki, ac, fi, de, ph, le, sn), n = [o EXCEPT !.deal = p]
    PROVE  Shaped(n, ki, ac, fi, p, ph, le, sn)
  <1>1. n = [kind |-> o.kind, acct |-> o.acct, nil |-> o.nil, deal |-> p,
           file |-> o.file, root |-> o.root, recorded |-> o.recorded,
           phase |-> o.phase, tx |-> o.tx, left |-> o.left, snap |-> o.snap,
           owners |-> o.owners]
    BY DEF Shaped, OpOf
  <1>2. QED
    BY <1>1 DEF Shaped, OpOf

LEMMA OpAcct ==
    ASSUME NEW ki, NEW ac, NEW fi, NEW de, NEW ph, NEW le, NEW sn, NEW o, NEW p, NEW n,
           Shaped(o, ki, ac, fi, de, ph, le, sn), n = [o EXCEPT !.acct = p]
    PROVE  Shaped(n, ki, p, fi, de, ph, le, sn)
  <1>1. n = [kind |-> o.kind, acct |-> p, nil |-> o.nil, deal |-> o.deal,
           file |-> o.file, root |-> o.root, recorded |-> o.recorded,
           phase |-> o.phase, tx |-> o.tx, left |-> o.left, snap |-> o.snap,
           owners |-> o.owners]
    BY DEF Shaped, OpOf
  <1>2. QED
    BY <1>1 DEF Shaped, OpOf

LEMMA OpNil ==
    ASSUME NEW ki, NEW ac, NEW fi, NEW de, NEW ph, NEW le, NEW sn, NEW o, NEW p, NEW n,
           Shaped(o, ki, ac, fi, de, ph, le, sn), n = [o EXCEPT !.nil = p]
    PROVE  Shaped(n, ki, ac, fi, de, ph, le, sn)
  <1>1. n = [kind |-> o.kind, acct |-> o.acct, nil |-> p, deal |-> o.deal,
           file |-> o.file, root |-> o.root, recorded |-> o.recorded,
           phase |-> o.phase, tx |-> o.tx, left |-> o.left, snap |-> o.snap,
           owners |-> o.owners]
    BY DEF Shaped, OpOf
  <1>2. QED
    BY <1>1 DEF Shaped, OpOf

\* One operation changes; one is added.
Becomes(k, n) ==
    /\ IsSeq(ops') /\ Len(ops') = Len(ops) /\ ops'[k] = n
    /\ \A j \in 1..Len(ops) : j # k => ops'[j] = ops[j]

Joins(n) ==
    /\ IsSeq(ops') /\ Len(ops') = Len(ops) + 1 /\ ops'[Len(ops) + 1] = n
    /\ \A j \in 1..Len(ops) : ops'[j] = ops[j]

LEMMA OpBecomes ==
    ASSUME IsSeq(ops), NEW k \in 1..Len(ops), NEW n, ops' = [ops EXCEPT ![k] = n]
    PROVE  Becomes(k, n)
  <1>1. PICK S : ops \in Seq(S)
    BY DEF IsSeq
  <1>2. PICK T : T = S \cup {n}
    OBVIOUS
  <1>3. ops \in Seq(T) /\ n \in T
    BY <1>1, <1>2
  <1>4. ops' \in Seq(T) /\ Len(ops') = Len(ops)
    BY <1>3
  <1>5. QED
    BY <1>3, <1>4 DEF IsSeq, Becomes

LEMMA OpJoins ==
    ASSUME IsSeq(ops), NEW n, ops' = Append(ops, n) PROVE Joins(n)
  BY IsSeqAppend DEF Joins

-----------------------------------------------------------------------------
(* The invariant *)

Accts == Owners \cup {NoAccount}

\* A download has phases of its own, and a loop has a round left.
GoodOp(o, there) ==
    /\ o = OpOf(o)
    /\ o.acct \in Accts
    /\ o.kind = "create" => o.acct # NoAccount /\ o.deal \in there \cup {B!NoDeal}
    /\ o.kind = "download" => o.phase \in {"listing", "fetching", "over"}
    /\ DOMAIN o.snap \subseteq there
    /\ o.left \in 0..MaxRefreshes
    /\ o.phase # "over" => o.left # 0

OpsInv ==
    /\ IsSeq(ops)
    /\ \A k \in 1..Len(ops) : GoodOp(ops[k], B!Created)

ListsInv ==
    /\ owner \in [B!DealIds -> Accts]
    /\ address \in Accts /\ nilAddress \in Accts
    /\ DOMAIN lcd.cid \subseteq B!Created
    /\ DOMAIN deals \subseteq B!Created /\ DOMAIN allDeals \subseteq B!Created
    /\ target \in B!Created \cup {B!NoDeal}

LiveInv == \A l \in loads : l.live \in BOOLEAN

\* A download of this file is under way.
UnderWay(id) ==
    \E k \in 1..Len(ops) : ops[k].kind = "download" /\ ops[k].phase # "over" /\ B!Id(ops[k]) = id

RecentInv ==
    /\ GoodRecent(recent)
    /\ reloads \in Nat
    /\ reloads = 0 => \A i \in 1..Len(recent) :
                          recent[i].status = "pending" => UnderWay(B!Id(recent[i]))

PageInv == BoardInv /\ OpsInv /\ ListsInv /\ LiveInv /\ RecentInv

LEMMA PageInvIsEnough ==
    ASSUME B!DashboardAssumption, PageInv PROVE PendingIsUnderWay
  <1>1. ASSUME NEW l \in loads, NEW m \in loads, l.live, m.live PROVE l = m
    <2>1. l = LoadOf(l) /\ l.deal = target /\ l.root = deals[target] /\ l.live = TRUE
      BY <1>1 DEF PageInv, BoardInv, LoadsInv, LiveInv
    <2>2. m = LoadOf(m) /\ m.deal = target /\ m.root = deals[target] /\ m.live = TRUE
      BY <1>1 DEF PageInv, BoardInv, LoadsInv, LiveInv
    <2>3. QED
      BY <2>1, <2>2 DEF LoadOf
  <1>2. B!TypeOK
    <2>1. /\ owner \in [B!DealIds -> Owners \cup {NoAccount}]
          /\ address \in Owners \cup {NoAccount} /\ nilAddress \in Owners \cup {NoAccount}
          /\ DOMAIN deals \subseteq B!Created /\ DOMAIN allDeals \subseteq B!Created
          /\ target \in B!Created \cup {B!NoDeal}
      BY DEF PageInv, ListsInv, Accts
    <2>2. /\ Len(recent) <= MaxRecent
          /\ \A i, j \in 1..Len(recent) : B!Id(recent[i]) = B!Id(recent[j]) => i = j
      BY DEF PageInv, RecentInv, GoodRecent, NoneTwice
    <2>3. \A k \in 1..Len(ops) : ops[k].left \in 0..MaxRefreshes
      BY DEF PageInv, OpsInv, GoodOp
    <2>4. QED
      BY <1>1, <2>1, <2>2, <2>3 DEF B!TypeOK
  <1>3. ASSUME reloads = 0 PROVE B!PendingIsUnderWay
    BY <1>3 DEF PageInv, RecentInv, UnderWay, B!PendingIsUnderWay, B!Running
  <1>4. QED
    BY <1>2, <1>3 DEF PendingIsUnderWay

LEMMA PageInit ==
    ASSUME B!DashboardAssumption, B!Init PROVE PageInv
  <1>1. BoardInv
    BY DEF B!Init, BoardInv, LoadsInv, OverridesInv, B!ContentIsOfTarget, B!OptimisticRootShown,
           B!Fresh, B!Nothing
  <1>2. OpsInv
    BY IsSeqEmpty DEF B!Init, OpsInv
  <1>3. ListsInv
    BY DEF B!Init, ListsInv, Accts, B!Nothing
  <1>4. LiveInv
    BY DEF B!Init, LiveInv
  <1>5. GoodRecent(<<>>)
    BY IsSeqEmpty DEF GoodRecent, NoneTwice, B!DashboardAssumption
  <1>6. RecentInv
    BY <1>5, IsSeqEmpty DEF B!Init, RecentInv
  <1>7. QED
    BY <1>1, <1>2, <1>3, <1>4, <1>6 DEF PageInv

-----------------------------------------------------------------------------
(* Least and greatest deals *)

\* Natural numbers have a least one, and deals, of which there are finitely many, a
\* newest.
LEMMA LeastDeal ==
    ASSUME NEW S, S \subseteq Nat, S # {} PROVE \E x \in S : \A y \in S : x <= y
  <1>1. PICK x \in S : \A y \in Nat : <<y, x>> \in OpToRel(<, Nat) => y \notin S
    BY NatLessThanWellFounded, WFMin
  <1>2. \A y \in S : ~(y < x)
    BY <1>1 DEF OpToRel
  <1>3. QED
    BY <1>2

LEMMA MinIsMember ==
    ASSUME NEW S, S \subseteq B!DealIds, S # {}, B!DashboardAssumption PROVE B!Min(S) \in S
  <1>1. S \subseteq Nat
    BY DEF B!DealIds
  <1>2. QED
    BY <1>1, LeastDeal DEF B!Min

LEMMA MaxIsMember ==
    ASSUME NEW S, S \subseteq B!DealIds, S # {}, B!DashboardAssumption PROVE B!Max(S) \in S
  <1>1. NumDeals \in Nat /\ S \subseteq 1..NumDeals
    BY DEF B!DealIds, B!DashboardAssumption
  <1>2. PICK T : T = {n \in Nat : NumDeals - n \in S}
    OBVIOUS
  <1>3. T \subseteq Nat /\ T # {}
    <2>1. PICK x \in S : TRUE
      OBVIOUS
    <2>2. NumDeals - x \in Nat /\ NumDeals - (NumDeals - x) = x
      BY <1>1
    <2>3. NumDeals - x \in T
      BY <1>2, <2>2
    <2>4. QED
      BY <1>2, <2>3
  <1>4. PICK t \in T : \A y \in T : t <= y
    BY <1>3, LeastDeal
  <1>5. PICK g \in S : g = NumDeals - t
    BY <1>2
  <1>6. ASSUME NEW y \in S PROVE g >= y
    <2>1. NumDeals - y \in Nat /\ NumDeals - (NumDeals - y) = y
      BY <1>1
    <2>2. NumDeals - y \in T
      BY <1>2, <2>1
    <2>3. t <= NumDeals - y
      BY <1>4, <2>2
    <2>4. QED
      BY <1>1, <1>3, <1>5, <2>3
  <1>7. QED
    BY <1>6 DEF B!Max

-----------------------------------------------------------------------------
(* Show *)

\* Whatever is shown: only deals that exist are listed and selected.
LEMMA ShowKeepsLists ==
    ASSUME B!DashboardAssumption, LoadsInv, LiveInv, NEW ds, NEW t, NEW nil, NEW reload,
           B!Show(ds, t, nil, reload), DOMAIN ds \subseteq B!Created,
           t \in B!Created \cup {B!NoDeal}
    PROVE  /\ deals' = ds /\ nilAddress' = nil
           /\ target' \in B!Created \cup {B!NoDeal}
           /\ LiveInv'
  <1>1. deals' = ds /\ nilAddress' = nil /\ target' = B!Selected(ds, t, nil)
    BY DEF B!Show
  <1>2. B!Selected(ds, t, nil) \in B!Created \cup {B!NoDeal}
    <2>1. PICK S : S = B!Owned(ds, nil)
      OBVIOUS
    <2>2. S \subseteq B!Created /\ S \subseteq B!DealIds
      BY <2>1 DEF B!Owned, B!Created
    <2>3. S # {} => B!Max(S) \in B!Created
      BY <2>2, MaxIsMember
    <2>4. QED
      BY <2>1, <2>3 DEF B!Selected
  <1>3. \A l \in B!Cancelled : l.live = FALSE
    <2>1. SUFFICES ASSUME NEW l \in B!Cancelled PROVE l.live = FALSE
      OBVIOUS
    <2>2. PICK x \in loads : l = [x EXCEPT !.live = FALSE]
      BY DEF B!Cancelled
    <2>3. x = LoadOf(x)
      BY DEF LoadsInv
    <2>4. QED
      BY <2>2, <2>3 DEF LoadOf
  <1>4. \/ loads' = B!Cancelled \/ loads' = loads
        \/ \E a, b : loads' = B!Cancelled \cup {[deal |-> a, root |-> b, live |-> TRUE]}
    BY DEF B!Show
  <1>5. \A a, b : [deal |-> a, root |-> b, live |-> TRUE].live \in BOOLEAN
    OBVIOUS
  <1>6. LiveInv'
    <2>1. CASE loads' = B!Cancelled
      BY <1>3, <2>1 DEF LiveInv
    <2>2. CASE loads' = loads
      BY <2>2 DEF LiveInv
    <2>3. ASSUME NEW a, NEW b, loads' = B!Cancelled \cup {[deal |-> a, root |-> b, live |-> TRUE]}
          PROVE  LiveInv'
      BY <1>3, <1>5, <2>3 DEF LiveInv
    <2>4. QED
      BY <1>4, <2>1, <2>2, <2>3
  <1>7. QED
    BY <1>1, <1>2, <1>6

-----------------------------------------------------------------------------
(* One operation goes on *)

\* Operation k goes on: its deal, phase, rounds left and snapshot are these.
Turns(k, d, p, l, s) ==
    \E n : Becomes(k, n) /\ Shaped(n, ops[k].kind, ops[k].acct, ops[k].file, d, p, l, s)

LEMMA OpShape ==
    ASSUME OpsInv, NEW k \in 1..Len(ops), NEW o, o = ops[k]
    PROVE  Shaped(o, o.kind, o.acct, o.file, o.deal, o.phase, o.left, o.snap)
  BY DEF OpsInv, GoodOp, Shaped

LEMMA GoesTurns ==
    ASSUME OpsInv, NEW k \in 1..Len(ops), NEW p, ops' = B!Goes(k, p)
    PROVE  Turns(k, ops[k].deal, p, ops[k].left, ops[k].snap)
  <1>1. PICK o : o = ops[k]
    OBVIOUS
  <1>2. PICK n : n = [o EXCEPT !.phase = p]
    OBVIOUS
  <1>3. ops' = [ops EXCEPT ![k] = n]
    BY <1>1, <1>2 DEF B!Goes
  <1>4. Becomes(k, n)
    BY <1>3, OpBecomes DEF OpsInv
  <1>5. Shaped(o, o.kind, o.acct, o.file, o.deal, o.phase, o.left, o.snap)
    BY <1>1, OpShape
  <1>6. Shaped(n, o.kind, o.acct, o.file, o.deal, p, o.left, o.snap)
    BY <1>2, <1>5, OpPhase
  <1>7. QED
    BY <1>1, <1>4, <1>6 DEF Turns

LEMMA ServeTurns ==
    ASSUME OpsInv, NEW k \in 1..Len(ops), B!Serve(k)
    PROVE  Turns(k, ops[k].deal, "served", ops[k].left, lcd.cid)
  <1>1. PICK o : o = ops[k]
    OBVIOUS
  <1>2. PICK a : a = [o EXCEPT !.phase = "served"]
    OBVIOUS
  <1>3. PICK b : b = [a EXCEPT !.snap = lcd.cid]
    OBVIOUS
  <1>4. PICK n : n = [b EXCEPT !.owners = lcd.owner]
    OBVIOUS
  <1>5. n = [o EXCEPT !.phase = "served", !.snap = lcd.cid, !.owners = lcd.owner]
    BY <1>2, <1>3, <1>4
  <1>6. ops' = [ops EXCEPT ![k].phase = "served", ![k].snap = lcd.cid, ![k].owners = lcd.owner]
    BY DEF B!Serve
  <1>7. ops' = [ops EXCEPT ![k] = n]
    BY <1>1, <1>5, <1>6
  <1>8. Becomes(k, n)
    BY <1>7, OpBecomes DEF OpsInv
  <1>9. Shaped(o, o.kind, o.acct, o.file, o.deal, o.phase, o.left, o.snap)
    BY <1>1, OpShape
  <1>10. Shaped(a, o.kind, o.acct, o.file, o.deal, "served", o.left, o.snap)
    BY <1>2, <1>9, OpPhase
  <1>11. Shaped(b, o.kind, o.acct, o.file, o.deal, "served", o.left, lcd.cid)
    BY <1>3, <1>10, OpSnap
  <1>12. Shaped(n, o.kind, o.acct, o.file, o.deal, "served", o.left, lcd.cid)
    BY <1>4, <1>11, OpOwners
  <1>13. QED
    BY <1>1, <1>8, <1>12 DEF Turns

LEMMA ProceedTurns ==
    ASSUME OpsInv, NEW k \in 1..Len(ops), NEW finished, B!Proceed(k, finished)
    PROVE  Turns(k, ops[k].deal, IF finished THEN "over" ELSE "waiting", ops[k].left - 1, B!Nothing)
  <1>1. PICK o : o = ops[k]
    OBVIOUS
  <1>2. PICK p : p = IF finished THEN "over" ELSE "waiting"
    OBVIOUS
  <1>3. PICK none : none = [d \in {} |-> NoAccount]
    OBVIOUS
  <1>4. PICK a : a = [o EXCEPT !.phase = p]
    OBVIOUS
  <1>5. PICK b : b = [a EXCEPT !.left = o.left - 1]
    OBVIOUS
  <1>6. PICK c : c = [b EXCEPT !.snap = B!Nothing]
    OBVIOUS
  <1>7. PICK n : n = [c EXCEPT !.owners = none]
    OBVIOUS
  <1>8. Shaped(o, o.kind, o.acct, o.file, o.deal, o.phase, o.left, o.snap)
    BY <1>1, OpShape
  <1>9. Shaped(a, o.kind, o.acct, o.file, o.deal, p, o.left, o.snap)
    BY <1>4, <1>8, OpPhase
  <1>10. Shaped(b, o.kind, o.acct, o.file, o.deal, p, o.left - 1, o.snap)
    BY <1>5, <1>9, OpLeft
  <1>11. Shaped(c, o.kind, o.acct, o.file, o.deal, p, o.left - 1, B!Nothing)
    BY <1>6, <1>10, OpSnap
  <1>12. Shaped(n, o.kind, o.acct, o.file, o.deal, p, o.left - 1, B!Nothing)
    BY <1>7, <1>11, OpOwners
  <1>13. ops' = [ops EXCEPT ![k].phase = p, ![k].left = @ - 1, ![k].snap = B!Nothing,
                            ![k].owners = none]
    BY <1>2, <1>3 DEF B!Proceed
  <1>14. n = [o EXCEPT !.phase = p, !.left = @ - 1, !.snap = B!Nothing, !.owners = none]
    <2>1. b = [o EXCEPT !.phase = p, !.left = @ - 1]
      BY <1>4, <1>5, <1>8, <1>9
    <2>2. QED
      BY <1>6, <1>7, <2>1
  <1>15. ops' = [ops EXCEPT ![k] = n]
    BY <1>1, <1>13, <1>14
  <1>16. Becomes(k, n)
    BY <1>15, OpBecomes DEF OpsInv
  <1>17. QED
    BY <1>1, <1>2, <1>12, <1>16 DEF Turns

LEMMA UploadedTurns ==
    ASSUME OpsInv, NEW k \in 1..Len(ops), B!Uploaded(k)
    PROVE  Turns(k, ops[k].deal, "wallet", ops[k].left, ops[k].snap)
  <1>1. PICK o : o = ops[k]
    OBVIOUS
  <1>2. PICK r : r = [deal |-> o.deal, file |-> o.file, op |-> k]
    OBVIOUS
  <1>3. PICK a : a = [o EXCEPT !.phase = "wallet"]
    OBVIOUS
  <1>4. PICK n : n = [a EXCEPT !.root = r]
    OBVIOUS
  <1>5. n = [o EXCEPT !.phase = "wallet", !.root = r]
    BY <1>3, <1>4
  <1>6. ops' = [ops EXCEPT ![k].phase = "wallet", ![k].root = r]
    BY <1>1, <1>2 DEF B!Uploaded
  <1>7. ops' = [ops EXCEPT ![k] = n]
    BY <1>1, <1>5, <1>6
  <1>8. Becomes(k, n)
    BY <1>7, OpBecomes DEF OpsInv
  <1>9. Shaped(o, o.kind, o.acct, o.file, o.deal, o.phase, o.left, o.snap)
    BY <1>1, OpShape
  <1>10. Shaped(a, o.kind, o.acct, o.file, o.deal, "wallet", o.left, o.snap)
    BY <1>3, <1>9, OpPhase
  <1>11. Shaped(n, o.kind, o.acct, o.file, o.deal, "wallet", o.left, o.snap)
    BY <1>4, <1>10, OpRoot
  <1>12. QED
    BY <1>1, <1>8, <1>11 DEF Turns

LEMMA SignTurns ==
    ASSUME OpsInv, NEW k \in 1..Len(ops), B!Sign(k)
    PROVE  Turns(k, ops[k].deal, "receipt", ops[k].left, ops[k].snap)
  <1>1. PICK o : o = ops[k]
    OBVIOUS
  <1>2. PICK a : a = [o EXCEPT !.phase = "receipt"]
    OBVIOUS
  <1>3. PICK n : n = [a EXCEPT !.tx = "sent"]
    OBVIOUS
  <1>4. n = [o EXCEPT !.phase = "receipt", !.tx = "sent"]
    BY <1>2, <1>3
  <1>5. ops' = [ops EXCEPT ![k].phase = "receipt", ![k].tx = "sent"]
    BY DEF B!Sign
  <1>6. ops' = [ops EXCEPT ![k] = n]
    BY <1>1, <1>4, <1>5
  <1>7. Becomes(k, n)
    BY <1>6, OpBecomes DEF OpsInv
  <1>8. Shaped(o, o.kind, o.acct, o.file, o.deal, o.phase, o.left, o.snap)
    BY <1>1, OpShape
  <1>9. Shaped(a, o.kind, o.acct, o.file, o.deal, "receipt", o.left, o.snap)
    BY <1>2, <1>8, OpPhase
  <1>10. Shaped(n, o.kind, o.acct, o.file, o.deal, "receipt", o.left, o.snap)
    BY <1>3, <1>9, OpTx
  <1>11. QED
    BY <1>1, <1>7, <1>10 DEF Turns

LEMMA MineTurns ==
    ASSUME OpsInv, NEW k \in 1..Len(ops), B!Mine(k)
    PROVE  LET fresh == {d \in B!DealIds : owner[d] = NoAccount} IN
           Turns(k, IF ops[k].kind = "create" THEN B!Min(fresh) ELSE ops[k].deal,
                 ops[k].phase, ops[k].left, ops[k].snap)
  <1>1. PICK o : o = ops[k]
    OBVIOUS
  <1>2. PICK m : m = B!Min({d \in B!DealIds : owner[d] = NoAccount})
    OBVIOUS
  <1>3. PICK a : a = [o EXCEPT !.tx = "mined"]
    OBVIOUS
  <1>4. Shaped(o, o.kind, o.acct, o.file, o.deal, o.phase, o.left, o.snap)
    BY <1>1, OpShape
  <1>5. Shaped(a, o.kind, o.acct, o.file, o.deal, o.phase, o.left, o.snap)
    BY <1>3, <1>4, OpTx
  <1>6. CASE o.kind = "create"
    <2>1. PICK n : n = [a EXCEPT !.deal = m]
      OBVIOUS
    <2>2. n = [o EXCEPT !.tx = "mined", !.deal = m]
      BY <1>3, <2>1
    <2>3. ops' = [ops EXCEPT ![k].tx = "mined", ![k].deal = m]
      BY <1>1, <1>2, <1>6 DEF B!Mine
    <2>4. ops' = [ops EXCEPT ![k] = n]
      BY <1>1, <2>2, <2>3
    <2>5. Becomes(k, n)
      BY <2>4, OpBecomes DEF OpsInv
    <2>6. Shaped(n, o.kind, o.acct, o.file, m, o.phase, o.left, o.snap)
      BY <1>5, <2>1, OpDeal
    <2>7. QED
      BY <1>1, <1>2, <1>6, <2>5, <2>6 DEF Turns
  <1>7. CASE o.kind # "create"
    <2>1. ops' = [ops EXCEPT ![k].tx = "mined"]
      BY <1>1, <1>7 DEF B!Mine
    <2>2. ops' = [ops EXCEPT ![k] = a]
      BY <1>1, <1>3, <2>1
    <2>3. Becomes(k, a)
      BY <2>2, OpBecomes DEF OpsInv
    <2>4. QED
      BY <1>1, <1>2, <1>5, <1>7, <2>3 DEF Turns
  <1>8. QED
    BY <1>6, <1>7

-----------------------------------------------------------------------------
(* What follows for all of them *)

\* No download ends.
StaysUnderWay == \A id : UnderWay(id) => UnderWay(id)'

LEMMA GoodOpGrows ==
    ASSUME NEW o, NEW there, NEW more, there \subseteq more, GoodOp(o, there) PROVE GoodOp(o, more)
  BY DEF GoodOp

\* An operation that goes on stays a good one.
LEMMA TurnKeepsOps ==
    ASSUME OpsInv, NEW k \in 1..Len(ops), NEW d, NEW p, NEW l, NEW s, Turns(k, d, p, l, s),
           B!Created \subseteq B!Created',
           ops[k].kind = "create" => d \in B!Created' \cup {B!NoDeal},
           ops[k].kind = "download" => p \in {"listing", "fetching", "over"},
           DOMAIN s \subseteq B!Created', l \in 0..MaxRefreshes, p # "over" => l # 0
    PROVE  OpsInv'
  <1>1. PICK n : /\ Becomes(k, n) /\ n = OpOf(n)
                 /\ n.kind = ops[k].kind /\ n.acct = ops[k].acct /\ n.file = ops[k].file
                 /\ n.deal = d /\ n.phase = p /\ n.left = l /\ n.snap = s
    BY DEF Turns, Shaped
  <1>2. GoodOp(ops[k], B!Created)
    BY DEF OpsInv
  <1>3. GoodOp(n, B!Created')
    BY <1>1, <1>2 DEF GoodOp
  <1>4. IsSeq(ops') /\ Len(ops') = Len(ops) /\ ops'[k] = n
        /\ \A j \in 1..Len(ops) : j # k => ops'[j] = ops[j]
    BY <1>1 DEF Becomes
  <1>5. \A j \in 1..Len(ops) : j # k => GoodOp(ops'[j], B!Created')
    BY <1>4, GoodOpGrows DEF OpsInv
  <1>6. \A j \in 1..Len(ops') : GoodOp(ops'[j], B!Created')
    BY <1>3, <1>4, <1>5
  <1>7. QED
    BY <1>4, <1>6 DEF OpsInv

\* An operation that goes on does not end a download, unless it is one and ends.
LEMMA TurnStays ==
    ASSUME OpsInv, NEW k \in 1..Len(ops), NEW d, NEW p, NEW l, NEW s, Turns(k, d, p, l, s),
           NEW id,
           ops[k].kind = "download" /\ ops[k].phase # "over" /\ B!Id(ops[k]) = id
              => d = ops[k].deal /\ p # "over",
           UnderWay(id)
    PROVE  UnderWay(id)'
  <1>1. PICK n : /\ Becomes(k, n) /\ n = OpOf(n)
                 /\ n.kind = ops[k].kind /\ n.acct = ops[k].acct /\ n.file = ops[k].file
                 /\ n.deal = d /\ n.phase = p /\ n.left = l /\ n.snap = s
    BY DEF Turns, Shaped
  <1>2. IsSeq(ops') /\ Len(ops') = Len(ops) /\ ops'[k] = n
        /\ \A j \in 1..Len(ops) : j # k => ops'[j] = ops[j]
    BY <1>1 DEF Becomes
  <1>3. PICK j \in 1..Len(ops) : ops[j].kind = "download" /\ ops[j].phase # "over" /\ B!Id(ops[j]) = id
    BY DEF UnderWay
  <1>4. ops'[j].kind = "download" /\ ops'[j].phase # "over" /\ B!Id(ops'[j]) = id
    <2>1. CASE j # k
      BY <1>2, <1>3, <2>1
    <2>2. CASE j = k
      BY <1>1, <1>2, <1>3, <2>2 DEF B!Id
    <2>3. QED
      BY <2>1, <2>2
  <1>5. j \in 1..Len(ops')
    BY <1>2
  <1>6. QED
    BY <1>4, <1>5 DEF UnderWay

LEMMA JoinKeeps ==
    ASSUME OpsInv, NEW n, ops' = Append(ops, n), GoodOp(n, B!Created), owner' = owner
    PROVE  OpsInv' /\ StaysUnderWay /\ Joins(n)
  <1>1. Joins(n)
    BY OpJoins DEF OpsInv
  <1>2. IsSeq(ops') /\ Len(ops') = Len(ops) + 1 /\ ops'[Len(ops) + 1] = n
        /\ \A j \in 1..Len(ops) : ops'[j] = ops[j]
    BY <1>1 DEF Joins
  <1>3. Len(ops) \in Nat
    BY IsSeqFacts DEF OpsInv
  <1>4. B!Created' = B!Created
    BY DEF B!Created, B!DealIds
  <1>5. \A j \in 1..Len(ops) : j \in 1..Len(ops')
    BY <1>2, <1>3
  <1>6. \A j \in 1..Len(ops') : j \in 1..Len(ops) \/ j = Len(ops) + 1
    BY <1>2, <1>3
  <1>7. \A j \in 1..Len(ops') : GoodOp(ops'[j], B!Created)
    BY <1>2, <1>6 DEF OpsInv
  <1>8. OpsInv'
    BY <1>2, <1>4, <1>7 DEF OpsInv
  <1>9. StaysUnderWay
    BY <1>2, <1>5 DEF StaysUnderWay, UnderWay
  <1>10. QED
    BY <1>1, <1>8, <1>9

LEMMA RecentKept ==
    ASSUME RecentInv, UNCHANGED <<recent, reloads>>, StaysUnderWay PROVE RecentInv'
  BY DEF RecentInv, StaysUnderWay

\* The new entry is pending only if its download is under way.
LEMMA RecentUpserted ==
    ASSUME B!DashboardAssumption, RecentInv, reloads' = reloads, StaysUnderWay, NEW e,
           e = EntryOf(e), recent' = B!upsertRecentFile(e),
           e.status = "pending" => UnderWay(B!Id(e))'
    PROVE  RecentInv'
  <1>1. PICK r : r = recent'
    OBVIOUS
  <1>2. /\ GoodRecent(r)
        /\ \A i \in 1..Len(r) :
               r[i] = e \/ \E j \in 1..Len(recent) : r[i] = recent[j] /\ B!Id(recent[j]) # B!Id(e)
    BY <1>1, Upserted DEF RecentInv
  <1>3. ASSUME reloads = 0, NEW i \in 1..Len(r), r[i].status = "pending"
        PROVE  UnderWay(B!Id(r[i]))'
    <2>1. CASE r[i] = e
      BY <1>3, <2>1
    <2>2. CASE r[i] # e
      <3>1. PICK j \in 1..Len(recent) : r[i] = recent[j]
        BY <1>2, <2>2
      <3>2. UnderWay(B!Id(recent[j]))
        BY <1>3, <3>1 DEF RecentInv
      <3>3. QED
        BY <3>1, <3>2 DEF StaysUnderWay
    <2>3. QED
      BY <2>1, <2>2
  <1>4. QED
    BY <1>1, <1>2, <1>3 DEF RecentInv

\* The download that ends may be that of the entry that is updated.
LEMMA RecentUpdated ==
    ASSUME RecentInv, reloads' = reloads, NEW id, NEW action, NEW st,
           recent' = B!updateRecentFile(id, action, st),
           \A x : x # id /\ UnderWay(x) => UnderWay(x)',
           st = "pending" => UnderWay(id)'
    PROVE  RecentInv'
  <1>1. PICK r : r = recent'
    OBVIOUS
  <1>2. /\ GoodRecent(r) /\ Len(r) = Len(recent)
        /\ \A i \in 1..Len(r) :
               /\ B!Id(r[i]) = B!Id(recent[i])
               /\ r[i].status = IF B!Id(recent[i]) = id THEN st ELSE recent[i].status
    BY <1>1, Updated DEF RecentInv
  <1>3. ASSUME reloads = 0, NEW i \in 1..Len(r), r[i].status = "pending"
        PROVE  UnderWay(B!Id(r[i]))'
    <2>1. B!Id(r[i]) = B!Id(recent[i])
      BY <1>2
    <2>2. CASE B!Id(recent[i]) = id
      BY <1>2, <1>3, <2>1, <2>2
    <2>3. CASE B!Id(recent[i]) # id
      <3>1. recent[i].status = "pending" /\ i \in 1..Len(recent)
        BY <1>2, <1>3, <2>3
      <3>2. UnderWay(B!Id(recent[i]))
        BY <1>3, <3>1 DEF RecentInv
      <3>3. QED
        BY <2>1, <2>3, <3>2
    <2>4. QED
      BY <2>2, <2>3
  <1>4. QED
    BY <1>1, <1>2, <1>3 DEF RecentInv

LEMMA RecentRecorded ==
    ASSUME B!DashboardAssumption, RecentInv, reloads' = reloads, StaysUnderWay, NEW o, NEW st,
           st # "pending", recent' = B!recordUpload(o, st)
    PROVE  RecentInv'
  <1>1. CASE recent' = recent
    BY <1>1, RecentKept
  <1>2. CASE recent' # recent
    <2>1. PICK e : e = B!Entry(o.deal, o.recorded, o.root, "upload", st)
      OBVIOUS
    <2>2. e = EntryOf(e) /\ e.status = st
      BY <2>1 DEF EntryOf, B!Entry
    <2>3. recent' = B!upsertRecentFile(e)
      BY <1>2, <2>1 DEF B!recordUpload
    <2>4. QED
      BY <2>2, <2>3, RecentUpserted
  <1>3. QED
    BY <1>1, <1>2

LEMMA ListsKept ==
    ASSUME ListsInv, UNCHANGED <<owner, lcd, address, nilAddress, deals, allDeals, target>>
    PROVE  ListsInv'
  BY DEF ListsInv, B!Created

LEMMA LiveKept == ASSUME LiveInv, UNCHANGED loads PROVE LiveInv'
  BY DEF LiveInv

-----------------------------------------------------------------------------
(* The user *)

\* All of the invariant but BoardInv, which BoardStep keeps.
Rest == OpsInv /\ ListsInv /\ LiveInv /\ RecentInv

LEMMA NothingIsEmpty == DOMAIN B!Nothing = {}
  BY DEF B!Nothing

LEMMA FreshOp ==
    ASSUME NEW kind, NEW deal_, NEW file, NEW root, NEW recorded, NEW phase, NEW n,
           n = B!Op(kind, deal_, file, root, recorded, phase)
    PROVE  Shaped(n, kind, address, file, deal_, phase, MaxRefreshes, B!Nothing)
  BY DEF B!Op, Shaped, OpOf

LEMMA GoodShape ==
    ASSUME B!DashboardAssumption, NEW n, NEW ki, NEW ac, NEW fi, NEW de, NEW ph, NEW le, NEW there,
           Shaped(n, ki, ac, fi, de, ph, le, B!Nothing), ac \in Accts,
           ki = "create" => ac # NoAccount /\ de = B!NoDeal,
           ki = "download" => ph \in {"listing", "fetching"},
           le = 1 \/ le = MaxRefreshes
    PROVE  GoodOp(n, there)
  BY NothingIsEmpty DEF Shaped, GoodOp, B!DashboardAssumption

LEMMA UserConnect ==
    ASSUME B!DashboardAssumption, PageInv, NEW a \in Owners, B!Connect(a) PROVE Rest'
  <1>1. PICK m : m = B!Op("fetch", B!NoDeal, NoFile, B!NoRoot, NoFile, "asked")
    OBVIOUS
  <1>2. PICK x : x = [m EXCEPT !.acct = a]
    OBVIOUS
  <1>3. PICK y : y = [x EXCEPT !.nil = a]
    OBVIOUS
  <1>4. PICK n : n = [y EXCEPT !.left = 1]
    OBVIOUS
  <1>5. n = [m EXCEPT !.acct = a, !.nil = a, !.left = 1]
    BY <1>2, <1>3, <1>4
  <1>6. Shaped(m, "fetch", address, NoFile, B!NoDeal, "asked", MaxRefreshes, B!Nothing)
    BY <1>1, FreshOp
  <1>7. Shaped(x, "fetch", a, NoFile, B!NoDeal, "asked", MaxRefreshes, B!Nothing)
    BY <1>2, <1>6, OpAcct
  <1>8. Shaped(y, "fetch", a, NoFile, B!NoDeal, "asked", MaxRefreshes, B!Nothing)
    BY <1>3, <1>7, OpNil
  <1>9. Shaped(n, "fetch", a, NoFile, B!NoDeal, "asked", 1, B!Nothing)
    BY <1>4, <1>8, OpLeft
  <1>10. GoodOp(n, B!Created)
    BY <1>9, GoodShape DEF Accts
  <1>11. ops' = Append(ops, n)
    BY <1>1, <1>5 DEF B!Connect
  <1>12. /\ address' = a /\ B!Show(deals, target, a, TRUE)
         /\ UNCHANGED <<owner, lcd, allDeals, recent, reloads>>
    BY DEF B!Connect, B!chainVars
  <1>13. OpsInv' /\ StaysUnderWay
    BY <1>10, <1>11, <1>12, JoinKeeps DEF PageInv
  <1>14. /\ deals' = deals /\ nilAddress' = a /\ target' \in B!Created \cup {B!NoDeal}
         /\ LiveInv'
    BY <1>12, ShowKeepsLists DEF PageInv, BoardInv, ListsInv
  <1>15. ListsInv'
    BY <1>12, <1>14 DEF PageInv, ListsInv, Accts, B!Created
  <1>16. RecentInv'
    BY <1>12, <1>13, RecentKept DEF PageInv
  <1>17. QED
    BY <1>13, <1>14, <1>15, <1>16 DEF Rest

\* Steps that leave ops alone.
LEMMA OpsKept ==
    ASSUME OpsInv, UNCHANGED <<ops, owner>> PROVE OpsInv' /\ StaysUnderWay
  BY DEF OpsInv, B!Created, StaysUnderWay, UnderWay

LEMMA UserShows ==
    ASSUME B!DashboardAssumption, PageInv,
           B!Disconnect \/ \E d \in B!DealIds : B!SelectDeal(d)
    PROVE  Rest'
  <1>1. UNCHANGED <<owner, lcd, recent, reloads, ops>>
    BY DEF B!Disconnect, B!SelectDeal, B!chainVars
  <1>2. OpsInv' /\ StaysUnderWay
    BY <1>1, OpsKept DEF PageInv
  <1>3. RecentInv'
    BY <1>1, <1>2, RecentKept DEF PageInv
  <1>4. CASE B!Disconnect
    <2>1. /\ address' = NoAccount /\ allDeals' = B!Nothing
          /\ B!Show(B!Nothing, target, nilAddress, TRUE)
      BY <1>4 DEF B!Disconnect
    <2>2. /\ deals' = B!Nothing /\ nilAddress' = nilAddress
          /\ target' \in B!Created \cup {B!NoDeal} /\ LiveInv'
      BY <2>1, NothingIsEmpty, ShowKeepsLists DEF PageInv, BoardInv, ListsInv
    <2>3. ListsInv'
      BY <1>1, <2>1, <2>2, NothingIsEmpty DEF PageInv, ListsInv, Accts, B!Created
    <2>4. QED
      BY <1>2, <1>3, <2>2, <2>3 DEF Rest
  <1>5. ASSUME NEW d \in B!DealIds, B!SelectDeal(d) PROVE Rest'
    <2>1. /\ address' = address /\ allDeals' = allDeals /\ d \in DOMAIN deals
          /\ B!Show(deals, d, nilAddress, TRUE)
      BY <1>5 DEF B!SelectDeal, B!Owned
    <2>2. /\ deals' = deals /\ nilAddress' = nilAddress
          /\ target' \in B!Created \cup {B!NoDeal} /\ LiveInv'
      BY <2>1, ShowKeepsLists DEF PageInv, BoardInv, ListsInv
    <2>3. ListsInv'
      BY <1>1, <2>1, <2>2 DEF PageInv, ListsInv, B!Created
    <2>4. QED
      BY <1>2, <1>3, <2>2, <2>3 DEF Rest
  <1>6. QED
    BY <1>4, <1>5

LEMMA UserStarts ==
    ASSUME B!DashboardAssumption, PageInv, NEW f,
           \/ B!handleRefreshSummary \/ B!StartUpload(f) \/ B!StartMduCommit(f)
           \/ B!StartCommit \/ B!StartCreate
    PROVE  Rest'
  <1>1. /\ UNCHANGED <<owner, lcd, address, nilAddress, deals, allDeals, target, loads>>
        /\ UNCHANGED <<recent, reloads>>
    BY DEF B!handleRefreshSummary, B!StartUpload, B!StartMduCommit, B!StartCommit, B!StartCreate,
           B!chainVars, B!listVars, B!shownVars
  <1>2. address \in Accts
    BY DEF PageInv, ListsInv
  <1>3. \E n : GoodOp(n, B!Created) /\ ops' = Append(ops, n)
    <2>1. CASE B!handleRefreshSummary
      <3>1. PICK m : m = B!Op("fetch", B!NoDeal, NoFile, B!NoRoot, NoFile, "asked")
        OBVIOUS
      <3>2. PICK n : n = [m EXCEPT !.left = 1]
        OBVIOUS
      <3>3. Shaped(m, "fetch", address, NoFile, B!NoDeal, "asked", MaxRefreshes, B!Nothing)
        BY <3>1, FreshOp
      <3>4. Shaped(n, "fetch", address, NoFile, B!NoDeal, "asked", 1, B!Nothing)
        BY <3>2, <3>3, OpLeft
      <3>5. GoodOp(n, B!Created)
        BY <1>2, <3>4, GoodShape
      <3>6. QED
        BY <2>1, <3>1, <3>2, <3>5 DEF B!handleRefreshSummary
    <2>2. CASE B!StartUpload(f)
      <3>1. PICK n : n = B!Op("upload", target, f, B!NoRoot, staged.file, "upload")
        OBVIOUS
      <3>2. Shaped(n, "upload", address, f, target, "upload", MaxRefreshes, B!Nothing)
        BY <3>1, FreshOp
      <3>3. GoodOp(n, B!Created)
        BY <1>2, <3>2, GoodShape
      <3>4. QED
        BY <2>2, <3>1, <3>3 DEF B!StartUpload
    <2>3. CASE B!StartMduCommit(f)
      <3>1. PICK r : r = [deal |-> target, file |-> f, op |-> Len(ops) + 1]
        OBVIOUS
      <3>2. PICK m : m = B!Op("mdu", target, f, r, f, "receipt")
        OBVIOUS
      <3>3. PICK n : n = [m EXCEPT !.tx = "sent"]
        OBVIOUS
      <3>4. Shaped(m, "mdu", address, f, target, "receipt", MaxRefreshes, B!Nothing)
        BY <3>2, FreshOp
      <3>5. Shaped(n, "mdu", address, f, target, "receipt", MaxRefreshes, B!Nothing)
        BY <3>3, <3>4, OpTx
      <3>6. GoodOp(n, B!Created)
        BY <1>2, <3>5, GoodShape
      <3>7. ops' = Append(ops, n)
        BY <2>3, <3>1, <3>2, <3>3 DEF B!StartMduCommit
      <3>8. QED
        BY <3>6, <3>7
    <2>4. CASE B!StartCommit
      <3>1. PICK n : n = B!Op("commit", target, staged.file, staged.root, staged.file, "wallet")
        OBVIOUS
      <3>2. Shaped(n, "commit", address, staged.file, target, "wallet", MaxRefreshes, B!Nothing)
        BY <3>1, FreshOp
      <3>3. GoodOp(n, B!Created)
        BY <1>2, <3>2, GoodShape
      <3>4. QED
        BY <2>4, <3>1, <3>3 DEF B!StartCommit
    <2>5. CASE B!StartCreate
      <3>1. PICK n : n = B!Op("create", B!NoDeal, NoFile, B!NoRoot, NoFile, "wallet")
        OBVIOUS
      <3>2. Shaped(n, "create", address, NoFile, B!NoDeal, "wallet", MaxRefreshes, B!Nothing)
        BY <3>1, FreshOp
      <3>3. address # NoAccount /\ ops' = Append(ops, n)
        BY <2>5, <3>1 DEF B!StartCreate
      <3>4. GoodOp(n, B!Created)
        BY <1>2, <3>2, <3>3, GoodShape
      <3>5. QED
        BY <3>3, <3>4
    <2>6. QED
      BY <2>1, <2>2, <2>3, <2>4, <2>5
  <1>4. OpsInv' /\ StaysUnderWay
    BY <1>1, <1>3, JoinKeeps DEF PageInv
  <1>5. QED
    BY <1>1, <1>4, ListsKept, LiveKept, RecentKept DEF PageInv, Rest

LEMMA UserDownloads ==
    ASSUME B!DashboardAssumption, PageInv,
           B!DownloadContent \/ \E i \in 1..Len(recent) : B!DownloadRecent(i)
    PROVE  Rest'
  <1>1. /\ UNCHANGED <<owner, lcd, address, nilAddress, deals, allDeals, target, loads>>
        /\ reloads' = reloads
    BY DEF B!DownloadContent, B!DownloadRecent, B!chainVars, B!listVars, B!shownVars
  <1>2. address \in Accts
    BY DEF PageInv, ListsInv
  <1>3. ListsInv' /\ LiveInv'
    BY <1>1, ListsKept, LiveKept DEF PageInv
  <1>4. ASSUME NEW n, ops' = Append(ops, n), NEW fi, NEW de, NEW ph \in {"listing", "fetching"},
               Shaped(n, "download", address, fi, de, ph, MaxRefreshes, B!Nothing)
        PROVE  OpsInv' /\ StaysUnderWay /\ UnderWay(<<de, fi>>)'
    <2>1. GoodOp(n, B!Created)
      BY <1>2, <1>4, GoodShape
    <2>2. OpsInv' /\ StaysUnderWay /\ Joins(n)
      BY <1>1, <1>4, <2>1, JoinKeeps DEF PageInv
    <2>3. Len(ops') = Len(ops) + 1 /\ ops'[Len(ops) + 1] = n /\ Len(ops) \in Nat
      BY <2>2, IsSeqFacts DEF Joins, PageInv, OpsInv
    <2>4. Len(ops) + 1 \in 1..Len(ops')
      BY <2>3
    <2>5. n.kind = "download" /\ n.phase # "over" /\ B!Id(n) = <<de, fi>>
      BY <1>4 DEF Shaped, B!Id
    <2>6. UnderWay(<<de, fi>>)'
      BY <2>3, <2>4, <2>5 DEF UnderWay
    <2>7. QED
      BY <2>2, <2>6
  <1>5. CASE B!DownloadContent
    <2>1. PICK fi, t : fi = content.root.file /\ t = target
      OBVIOUS
    <2>2. PICK n : n = B!Op("download", t, fi, content.root, NoFile, "fetching")
      OBVIOUS
    <2>3. PICK e : e = B!Entry(t, fi, deals[t], "download", "pending")
      OBVIOUS
    <2>4. ops' = Append(ops, n) /\ recent' = B!upsertRecentFile(e)
      BY <1>5, <2>1, <2>2, <2>3 DEF B!DownloadContent
    <2>5. Shaped(n, "download", address, fi, t, "fetching", MaxRefreshes, B!Nothing)
      BY <2>2, FreshOp
    <2>6. OpsInv' /\ StaysUnderWay /\ UnderWay(<<t, fi>>)'
      BY <1>4, <2>4, <2>5
    <2>7. e = EntryOf(e) /\ B!Id(e) = <<t, fi>>
      BY <2>3 DEF B!Entry, EntryOf, B!Id
    <2>8. RecentInv'
      BY <1>1, <2>4, <2>6, <2>7, RecentUpserted DEF PageInv
    <2>9. QED
      BY <1>3, <2>6, <2>8 DEF Rest
  <1>6. ASSUME NEW i \in 1..Len(recent), B!DownloadRecent(i) PROVE Rest'
    <2>1. PICK e : e = recent[i]
      OBVIOUS
    <2>2. PICK n : n = B!Op("download", e.deal, e.file, B!NoRoot, NoFile, "listing")
      OBVIOUS
    <2>3. ops' = Append(ops, n) /\ recent' = B!updateRecentFile(B!Id(e), "download", "pending")
      BY <1>6, <2>1, <2>2 DEF B!DownloadRecent
    <2>4. Shaped(n, "download", address, e.file, e.deal, "listing", MaxRefreshes, B!Nothing)
      BY <2>2, FreshOp
    <2>5. OpsInv' /\ StaysUnderWay /\ UnderWay(<<e.deal, e.file>>)'
      BY <1>4, <2>3, <2>4
    <2>6. B!Id(e) = <<e.deal, e.file>>
      BY DEF B!Id
    <2>7. RecentInv'
      BY <1>1, <2>3, <2>5, <2>6, RecentUpdated DEF PageInv, StaysUnderWay
    <2>8. QED
      BY <1>3, <2>5, <2>7 DEF Rest
  <1>7. QED
    BY <1>5, <1>6

\* A reload forgets the operations, and nothing is claimed of the list any more.
LEMMA UserReloads ==
    ASSUME B!DashboardAssumption, PageInv, B!Reload PROVE Rest'
  <1>1. /\ reloads' = reloads + 1 /\ nilAddress' = address /\ target' = B!NoDeal /\ loads' = {}
        /\ deals' = B!Nothing /\ allDeals' = B!Nothing
        /\ UNCHANGED <<owner, lcd, address, recent>>
    BY DEF B!Reload, B!chainVars
  <1>2. PICK g : g = [k \in 1..Len(ops) |-> [ops[k] EXCEPT !.phase = "over"]]
    OBVIOUS
  <1>3. PICK m : m = B!Op("fetch", B!NoDeal, NoFile, B!NoRoot, NoFile, "asked")
    OBVIOUS
  <1>4. PICK x : x = [m EXCEPT !.nil = address]
    OBVIOUS
  <1>5. PICK n : n = [x EXCEPT !.left = 1]
    OBVIOUS
  <1>6. n = [m EXCEPT !.nil = address, !.left = 1]
    BY <1>4, <1>5
  <1>7. ops' = Append(g, n)
    BY <1>2, <1>3, <1>6 DEF B!Reload
  <1>8. GoodOp(n, B!Created)
    <2>1. Shaped(m, "fetch", address, NoFile, B!NoDeal, "asked", MaxRefreshes, B!Nothing)
      BY <1>3, FreshOp
    <2>2. Shaped(x, "fetch", address, NoFile, B!NoDeal, "asked", MaxRefreshes, B!Nothing)
      BY <1>4, <2>1, OpNil
    <2>3. Shaped(n, "fetch", address, NoFile, B!NoDeal, "asked", 1, B!Nothing)
      BY <1>5, <2>2, OpLeft
    <2>4. address \in Accts
      BY DEF PageInv, ListsInv
    <2>5. QED
      BY <2>3, <2>4, GoodShape
  <1>9. PICK l \in Nat : l = Len(ops)
    BY IsSeqFacts DEF PageInv, OpsInv
  <1>10. DOMAIN g = 1..l /\ g = [k \in 1..l |-> g[k]]
    BY <1>2, <1>9
  <1>11. IsSeq(g) /\ Len(g) = l
    BY <1>10, IsSeqMade
  <1>12. ASSUME NEW k \in 1..l PROVE GoodOp(g[k], B!Created)
    <2>1. PICK o : o = ops[k]
      OBVIOUS
    <2>2. GoodOp(o, B!Created)
      BY <1>9, <2>1 DEF PageInv, OpsInv
    <2>3. Shaped(o, o.kind, o.acct, o.file, o.deal, o.phase, o.left, o.snap)
      BY <2>2 DEF GoodOp, Shaped
    <2>4. g[k] = [o EXCEPT !.phase = "over"]
      BY <1>2, <1>9, <2>1
    <2>5. Shaped(g[k], o.kind, o.acct, o.file, o.deal, "over", o.left, o.snap)
      BY <2>3, <2>4, OpPhase
    <2>6. QED
      BY <2>2, <2>5 DEF GoodOp, Shaped
  <1>13. /\ IsSeq(ops') /\ Len(ops') = l + 1
         /\ \A i \in 1..l : ops'[i] = g[i]
         /\ ops'[l + 1] = n
    BY <1>7, <1>11, IsSeqAppend
  <1>14. \A k \in 1..l + 1 : k = l + 1 \/ k \in 1..l
    OBVIOUS
  <1>15. \A k \in 1..Len(ops') : GoodOp(ops'[k], B!Created)
    BY <1>8, <1>12, <1>13, <1>14
  <1>16. OpsInv'
    BY <1>1, <1>13, <1>15 DEF OpsInv, B!Created
  <1>17. ListsInv'
    BY <1>1, NothingIsEmpty DEF PageInv, ListsInv, B!Created
  <1>18. LiveInv'
    BY <1>1 DEF LiveInv
  <1>19. RecentInv'
    BY <1>1 DEF PageInv, RecentInv
  <1>20. QED
    BY <1>16, <1>17, <1>18, <1>19 DEF Rest

-----------------------------------------------------------------------------
(* Operations go on *)

LEMMA TurnKeeps ==
    ASSUME PageInv, NEW k \in 1..Len(ops), NEW p, NEW s, owner' = owner,
           Turns(k, ops[k].deal, p, ops[k].left, s), DOMAIN s \subseteq B!Created,
           ops[k].phase # "over", ops[k].kind = "download" => p \in {"listing", "fetching"}
    PROVE  OpsInv' /\ StaysUnderWay
  <1>1. PICK o : o = ops[k]
    OBVIOUS
  <1>2. GoodOp(o, B!Created)
    BY <1>1 DEF PageInv, OpsInv
  <1>3. B!Created' = B!Created
    BY DEF B!Created
  <1>4. o.left \in 0..MaxRefreshes /\ o.left # 0 /\ (o.kind = "create" => o.deal \in B!Created \cup {B!NoDeal})
    BY <1>1, <1>2 DEF GoodOp
  <1>5. OpsInv'
    BY <1>1, <1>3, <1>4, TurnKeepsOps DEF PageInv
  <1>6. ASSUME NEW id, UnderWay(id) PROVE UnderWay(id)'
    BY <1>6, TurnStays DEF PageInv
  <1>7. QED
    BY <1>5, <1>6 DEF StaysUnderWay

LEMMA OpFacts ==
    ASSUME PageInv, NEW k \in 1..Len(ops)
    PROVE  /\ DOMAIN ops[k].snap \subseteq B!Created
           /\ ops[k].kind = "download" => ops[k].phase \in {"listing", "fetching", "over"}
           /\ ops[k].left \in 0..MaxRefreshes
           /\ ops[k].phase # "over" => ops[k].left # 0
           /\ ops[k].kind = "create" => ops[k].deal \in B!Created \cup {B!NoDeal}
  BY DEF PageInv, OpsInv, GoodOp

LEMMA OpQuiet ==
    ASSUME PageInv, NEW k \in 1..Len(ops),
           \/ B!Serve(k) \/ B!AskAgain(k) \/ B!Sign(k) \/ B!DealCreated(k)
           \/ B!Uploaded(k) \/ B!UploadFails(k) \/ B!Listed(k)
    PROVE  Rest'
  <1>1. /\ UNCHANGED <<owner, lcd, address, nilAddress, deals, allDeals, target, loads>>
        /\ UNCHANGED <<recent, reloads>>
    BY DEF B!Serve, B!AskAgain, B!Sign, B!DealCreated, B!Uploaded, B!UploadFails, B!Listed,
           B!chainVars, B!listVars, B!shownVars
  <1>2. OpsInv' /\ StaysUnderWay
    <2>1. CASE B!Serve(k)
      <3>1. ops[k].phase = "asked"
        BY <2>1 DEF B!Serve
      <3>2. Turns(k, ops[k].deal, "served", ops[k].left, lcd.cid)
        BY <2>1, ServeTurns DEF PageInv
      <3>3. DOMAIN lcd.cid \subseteq B!Created
        BY DEF PageInv, ListsInv
      <3>4. QED
        BY <1>1, <3>1, <3>2, <3>3, OpFacts, TurnKeeps
    <2>2. CASE B!Sign(k)
      <3>1. ops[k].phase = "wallet"
        BY <2>2 DEF B!Sign
      <3>2. Turns(k, ops[k].deal, "receipt", ops[k].left, ops[k].snap)
        BY <2>2, SignTurns DEF PageInv
      <3>3. QED
        BY <1>1, <3>1, <3>2, OpFacts, TurnKeeps
    <2>3. CASE B!Uploaded(k)
      <3>1. ops[k].phase = "upload"
        BY <2>3 DEF B!Uploaded, B!At
      <3>2. Turns(k, ops[k].deal, "wallet", ops[k].left, ops[k].snap)
        BY <2>3, UploadedTurns DEF PageInv
      <3>3. QED
        BY <1>1, <3>1, <3>2, OpFacts, TurnKeeps
    <2>4. CASE B!AskAgain(k) \/ B!DealCreated(k)
      <3>1. ops[k].phase \in {"waiting", "receipt"} /\ ops' = B!Goes(k, "asked")
        BY <2>4 DEF B!AskAgain, B!DealCreated, B!At
      <3>2. Turns(k, ops[k].deal, "asked", ops[k].left, ops[k].snap)
        BY <3>1, GoesTurns DEF PageInv
      <3>3. QED
        BY <1>1, <3>1, <3>2, OpFacts, TurnKeeps
    <2>5. CASE B!UploadFails(k)
      <3>1. ops[k].phase = "upload" /\ ops' = B!Goes(k, "over")
        BY <2>5 DEF B!UploadFails, B!At
      <3>2. Turns(k, ops[k].deal, "over", ops[k].left, ops[k].snap)
        BY <3>1, GoesTurns DEF PageInv
      <3>3. QED
        BY <1>1, <3>1, <3>2, OpFacts, TurnKeeps
    <2>6. CASE B!Listed(k)
      <3>1. ops[k].phase = "listing" /\ ops' = B!Goes(k, "fetching")
        BY <2>6 DEF B!Listed, B!At
      <3>2. Turns(k, ops[k].deal, "fetching", ops[k].left, ops[k].snap)
        BY <3>1, GoesTurns DEF PageInv
      <3>3. QED
        BY <1>1, <3>1, <3>2, OpFacts, TurnKeeps
    <2>7. QED
      BY <2>1, <2>2, <2>3, <2>4, <2>5, <2>6
  <1>3. QED
    BY <1>1, <1>2, ListsKept, LiveKept, RecentKept DEF PageInv, Rest

LEMMA OpTxFails ==
    ASSUME B!DashboardAssumption, PageInv, NEW k \in 1..Len(ops), B!TxFails(k) PROVE Rest'
  <1>1. /\ UNCHANGED <<owner, lcd, address, nilAddress, deals, allDeals, target, loads>>
        /\ reloads' = reloads /\ ops[k].phase \in {"wallet", "receipt"}
        /\ ops' = B!Goes(k, "over")
        /\ recent' = recent \/ recent' = B!recordUpload(ops[k], "failed")
    BY DEF B!TxFails, B!chainVars, B!listVars, B!shownVars
  <1>2. Turns(k, ops[k].deal, "over", ops[k].left, ops[k].snap)
    BY <1>1, GoesTurns DEF PageInv
  <1>3. OpsInv' /\ StaysUnderWay
    BY <1>1, <1>2, OpFacts, TurnKeeps
  <1>4. RecentInv'
    <2>1. PICK o : o = ops[k]
      OBVIOUS
    <2>2. QED
      BY <1>1, <1>3, <2>1, RecentKept, RecentRecorded DEF PageInv
  <1>5. QED
    BY <1>1, <1>3, <1>4, ListsKept, LiveKept DEF PageInv, Rest

\* A download ends: the entry of its file is not pending any more, whichever of two
\* downloads of the file it was.
LEMMA OpDownloaded ==
    ASSUME B!DashboardAssumption, PageInv, NEW k \in 1..Len(ops), NEW ok \in BOOLEAN,
           B!Downloaded(k, ok)
    PROVE  Rest'
  <1>1. PICK o : o = ops[k]
    OBVIOUS
  <1>2. PICK st \in {"success", "failed"} : st = IF ok THEN "success" ELSE "failed"
    OBVIOUS
  <1>3. /\ UNCHANGED <<owner, lcd, address, nilAddress, deals, allDeals, target, loads>>
        /\ reloads' = reloads /\ ops' = B!Goes(k, "over")
        /\ ops[k].phase \in {"fetching", "listing"}
        /\ recent' = B!updateRecentFile(B!Id(o), "download", st)
    BY <1>1, <1>2 DEF B!Downloaded, B!At, B!chainVars, B!listVars, B!shownVars
  <1>4. Turns(k, ops[k].deal, "over", ops[k].left, ops[k].snap)
    BY <1>3, GoesTurns DEF PageInv
  <1>5. B!Created' = B!Created
    BY <1>3 DEF B!Created
  <1>6. OpsInv'
    BY <1>4, <1>5, OpFacts, TurnKeepsOps DEF PageInv
  <1>7. ASSUME NEW x, x # B!Id(o), UnderWay(x) PROVE UnderWay(x)'
    BY <1>1, <1>4, <1>7, TurnStays DEF PageInv
  <1>8. RecentInv'
    BY <1>3, <1>7, RecentUpdated DEF PageInv
  <1>9. QED
    BY <1>3, <1>6, <1>8, ListsKept, LiveKept DEF PageInv, Rest

\* A deal is created: those that exist become more.
LEMMA OpMine ==
    ASSUME B!DashboardAssumption, PageInv, NEW k \in 1..Len(ops), B!Mine(k) PROVE Rest'
  <1>1. /\ UNCHANGED <<lcd, address, nilAddress, deals, allDeals, target, loads>>
        /\ UNCHANGED <<recent, reloads>>
    BY DEF B!Mine, B!listVars, B!shownVars
  <1>2. PICK fresh : fresh = {d \in B!DealIds : owner[d] = NoAccount}
    OBVIOUS
  <1>3. PICK d : d = IF ops[k].kind = "create" THEN B!Min(fresh) ELSE ops[k].deal
    OBVIOUS
  <1>4. Turns(k, d, ops[k].phase, ops[k].left, ops[k].snap)
    BY <1>2, <1>3, MineTurns DEF PageInv
  <1>5. ops[k].acct \in Accts /\ (ops[k].kind = "create" => ops[k].acct # NoAccount)
    BY DEF PageInv, OpsInv, GoodOp
  <1>6. /\ owner' \in [B!DealIds -> Accts] /\ B!Created \subseteq B!Created'
        /\ ops[k].kind = "create" => d \in B!Created'
    <2>1. CASE ops[k].kind = "create"
      <3>1. fresh # {} /\ owner' = [owner EXCEPT ![d] = ops[k].acct]
        BY <1>2, <1>3, <2>1 DEF B!Mine
      <3>2. d \in B!DealIds
        BY <1>2, <1>3, <2>1, <3>1, MinIsMember
      <3>3. owner \in [B!DealIds -> Accts]
        BY DEF PageInv, ListsInv
      <3>4. owner' \in [B!DealIds -> Accts] /\ owner'[d] = ops[k].acct
        BY <1>5, <3>1, <3>2, <3>3
      <3>5. \A x \in B!DealIds : x # d => owner'[x] = owner[x]
        BY <3>1, <3>3
      <3>6. B!Created \subseteq B!Created' /\ d \in B!Created'
        BY <1>5, <2>1, <3>2, <3>4, <3>5 DEF B!Created, B!DealIds
      <3>7. QED
        BY <3>4, <3>6
    <2>2. CASE ops[k].kind # "create"
      <3>1. owner' = owner
        BY <2>2 DEF B!Mine
      <3>2. QED
        BY <2>2, <3>1 DEF PageInv, ListsInv, B!Created, B!DealIds
    <2>3. QED
      BY <2>1, <2>2
  <1>7. DOMAIN ops[k].snap \subseteq B!Created'
    BY <1>6, OpFacts
  <1>8. OpsInv'
    <2>1. PICK o : o = ops[k]
      OBVIOUS
    <2>2. /\ o.kind = "create" => d \in B!Created' \cup {B!NoDeal}
          /\ o.kind = "download" => o.phase \in {"listing", "fetching", "over"}
          /\ DOMAIN o.snap \subseteq B!Created' /\ o.left \in 0..MaxRefreshes
          /\ o.phase # "over" => o.left # 0
      BY <1>6, <1>7, <2>1, OpFacts
    <2>3. QED
      BY <1>4, <1>6, <2>1, <2>2, TurnKeepsOps DEF PageInv
  <1>9. ASSUME NEW id, UnderWay(id) PROVE UnderWay(id)'
    BY <1>3, <1>4, <1>9, TurnStays DEF PageInv
  <1>10. RecentInv'
    BY <1>1, <1>9, RecentKept DEF PageInv, StaysUnderWay
  <1>11. ListsInv'
    <2>1. B!NoDeal' = B!NoDeal
      BY DEF B!NoDeal
    <2>2. QED
      BY <1>1, <1>6, <2>1 DEF PageInv, ListsInv, B!DealIds, B!NoDeal
  <1>12. QED
    BY <1>1, <1>8, <1>10, <1>11, LiveKept DEF PageInv, Rest

LEMMA OpCommitted ==
    ASSUME B!DashboardAssumption, PageInv, NEW k \in 1..Len(ops), B!Committed(k) PROVE Rest'
  <1>1. PICK o : o = ops[k]
    OBVIOUS
  <1>2. /\ UNCHANGED <<owner, lcd, address, reloads>>
        /\ ops[k].phase = "receipt" /\ ops' = B!Goes(k, "asked")
        /\ allDeals' = B!With(allDeals, o.deal, o.root)
        /\ B!Show(B!With(deals, o.deal, o.root), target, nilAddress, FALSE)
        /\ recent' = recent \/ recent' = B!recordUpload(o, "success")
    BY <1>1 DEF B!Committed, B!At, B!chainVars
  <1>3. Turns(k, ops[k].deal, "asked", ops[k].left, ops[k].snap)
    BY <1>2, GoesTurns DEF PageInv
  <1>4. OpsInv' /\ StaysUnderWay
    BY <1>2, <1>3, OpFacts, TurnKeeps
  <1>5. PICK ds : ds = B!With(deals, o.deal, o.root) /\ DOMAIN ds = DOMAIN deals
    <2>1. DOMAIN B!With(deals, o.deal, o.root) = DOMAIN deals
      BY DEF B!With
    <2>2. QED
      BY <2>1
  <1>6. DOMAIN allDeals' = DOMAIN allDeals
    BY <1>2 DEF B!With
  <1>7. /\ deals' = ds /\ nilAddress' = nilAddress /\ target' \in B!Created \cup {B!NoDeal}
        /\ LiveInv'
    BY <1>2, <1>5, ShowKeepsLists DEF PageInv, BoardInv, ListsInv
  <1>8. ListsInv'
    BY <1>2, <1>5, <1>6, <1>7 DEF PageInv, ListsInv, B!Created
  <1>9. RecentInv'
    BY <1>2, <1>4, RecentKept, RecentRecorded DEF PageInv
  <1>10. QED
    BY <1>4, <1>7, <1>8, <1>9 DEF Rest

\* What follows an answer: a list `ds' is shown, and the operation is over or
\* waits for another round.
LEMMA AnswerKeeps ==
    ASSUME B!DashboardAssumption, PageInv, NEW k \in 1..Len(ops), NEW ds, NEW list,
           NEW finished \in BOOLEAN, finished = B!Finishes(ops[k], list),
           B!After(ops[k], ds, finished), B!Proceed(k, finished),
           ops[k].phase \in {"asked", "served"},
           UNCHANGED <<owner, lcd, address, reloads>>,
           DOMAIN ds \subseteq B!Created, DOMAIN allDeals' \subseteq B!Created
    PROVE  Rest'
  <1>1. PICK o : o = ops[k]
    OBVIOUS
  <1>2. /\ o.left \in 0..MaxRefreshes /\ o.left # 0 /\ o.kind # "download"
        /\ o.kind = "create" => o.deal \in B!Created \cup {B!NoDeal}
    BY <1>1, OpFacts
  <1>3. PICK p : p = IF finished THEN "over" ELSE "waiting"
    OBVIOUS
  <1>4. Turns(k, o.deal, p, o.left - 1, B!Nothing)
    BY <1>1, <1>3, ProceedTurns DEF PageInv
  <1>5. B!Created' = B!Created
    BY DEF B!Created
  <1>6. o.left - 1 \in 0..MaxRefreshes /\ (p # "over" => o.left - 1 # 0)
    <2>1. o.left = 1 => finished
      BY <1>1 DEF B!Finishes
    <2>2. o.left \in Nat /\ MaxRefreshes \in Nat
      BY <1>2 DEF B!DashboardAssumption
    <2>3. p # "over" => o.left # 1
      BY <1>3, <2>1
    <2>4. o.left - 1 \in 0..MaxRefreshes
      BY <1>2, <2>2
    <2>5. o.left # 1 => o.left - 1 # 0
      BY <2>2
    <2>6. QED
      BY <2>3, <2>4, <2>5
  <1>7. OpsInv'
    <2>1. /\ ops[k].kind = "create" => o.deal \in B!Created' \cup {B!NoDeal}
          /\ ops[k].kind # "download"
          /\ DOMAIN B!Nothing \subseteq B!Created'
      BY <1>1, <1>2, <1>5, NothingIsEmpty
    <2>2. QED
      BY <1>4, <1>5, <1>6, <2>1, TurnKeepsOps DEF PageInv
  <1>8. ASSUME NEW id, UnderWay(id) PROVE UnderWay(id)'
    BY <1>1, <1>2, <1>4, <1>8, TurnStays DEF PageInv
  <1>9. StaysUnderWay
    BY <1>8 DEF StaysUnderWay
  <1>10. recent' = recent \/ recent' = B!recordUpload(o, "success")
    BY <1>1 DEF B!After
  <1>11. RecentInv'
    BY <1>9, <1>10, RecentKept, RecentRecorded DEF PageInv
  <1>12. PICK t : t = IF finished /\ o.kind = "create" THEN o.deal ELSE target
    OBVIOUS
  <1>13. t \in B!Created \cup {B!NoDeal} /\ B!Show(ds, t, nilAddress, TRUE)
    BY <1>1, <1>2, <1>12 DEF B!After, PageInv, ListsInv
  <1>14. /\ deals' = ds /\ nilAddress' = nilAddress /\ target' \in B!Created \cup {B!NoDeal}
         /\ LiveInv'
    BY <1>13, ShowKeepsLists DEF PageInv, BoardInv
  <1>15. ListsInv'
    BY <1>5, <1>14 DEF PageInv, ListsInv
  <1>16. QED
    BY <1>7, <1>11, <1>14, <1>15 DEF Rest

LEMMA OpAnswered ==
    ASSUME B!DashboardAssumption, PageInv, NEW k \in 1..Len(ops), B!DealsAnswer(k) PROVE Rest'
  <1>1. PICK merged : merged = B!Merge(ops[k].snap)
    OBVIOUS
  <1>2. PICK own : own = {d \in DOMAIN merged : ops[k].owners[d] = ops[k].nil}
    OBVIOUS
  <1>3. PICK list : list = IF own = {} THEN merged ELSE [d \in own |-> merged[d]]
    OBVIOUS
  <1>4. PICK finished \in BOOLEAN : finished = B!Finishes(ops[k], list)
    BY DEF B!Finishes
  <1>5. /\ ops[k].phase = "served" /\ allDeals' = merged
        /\ UNCHANGED <<owner, lcd, address, reloads>>
    BY <1>1 DEF B!DealsAnswer, B!chainVars
  <1>6. B!After(ops[k], list, finished) /\ B!Proceed(k, finished)
    BY <1>1, <1>2, <1>3, <1>4 DEF B!DealsAnswer
  <1>7. DOMAIN merged = DOMAIN ops[k].snap
    BY <1>1 DEF B!Merge
  <1>8. DOMAIN merged \subseteq B!Created /\ DOMAIN list \subseteq B!Created
    BY <1>2, <1>3, <1>7, OpFacts
  <1>9. QED
    BY <1>4, <1>5, <1>6, <1>8, AnswerKeeps

LEMMA OpRefused ==
    ASSUME B!DashboardAssumption, PageInv, NEW k \in 1..Len(ops), B!DealsFail(k) PROVE Rest'
  <1>1. PICK finished \in BOOLEAN : finished = B!Finishes(ops[k], B!Nothing)
    BY DEF B!Finishes
  <1>2. /\ ops[k].phase \in {"asked", "served"} /\ allDeals' = B!Nothing
        /\ UNCHANGED <<owner, lcd, address, reloads>>
    BY DEF B!DealsFail, B!chainVars
  <1>3. B!After(ops[k], deals, finished) /\ B!Proceed(k, finished)
    BY <1>1 DEF B!DealsFail
  <1>4. DOMAIN deals \subseteq B!Created /\ DOMAIN allDeals' \subseteq B!Created
    BY <1>2, NothingIsEmpty DEF PageInv, ListsInv
  <1>5. QED
    BY <1>1, <1>2, <1>3, <1>4, AnswerKeeps

LEMMA PageStep ==
    ASSUME B!DashboardAssumption, PageInv, [B!Next]_B!vars PROVE PageInv'
  <1>1. BoardInv'
    BY BoardStep DEF PageInv
  <1> SUFFICES Rest'
    BY <1>1 DEF PageInv, Rest
  <1>2. CASE B!User
    BY <1>2, UserConnect, UserShows, UserStarts, UserDownloads, UserReloads DEF B!User
  <1>3. ASSUME NEW k \in 1..Len(ops), B!OpStep(k) \/ B!Mine(k) PROVE Rest'
    BY <1>3, OpQuiet, OpTxFails, OpDownloaded, OpMine, OpCommitted, OpAnswered, OpRefused
       DEF B!OpStep
  <1>4. ASSUME NEW l \in loads, NEW ok \in BOOLEAN, B!ContentLoaded(l, ok) PROVE Rest'
    <2>1. /\ UNCHANGED <<owner, lcd, address, nilAddress, deals, allDeals, target>>
          /\ UNCHANGED <<recent, reloads, ops>> /\ loads' = loads \ {l}
      BY <1>4 DEF B!ContentLoaded, B!chainVars, B!listVars
    <2>2. OpsInv' /\ StaysUnderWay
      BY <2>1, OpsKept DEF PageInv
    <2>3. LiveInv'
      BY <2>1 DEF PageInv, LiveInv
    <2>4. QED
      BY <2>1, <2>2, <2>3, ListsKept, RecentKept DEF PageInv, Rest
  <1>5. CASE B!LcdCatchesUp
    <2>1. /\ UNCHANGED <<owner, address, nilAddress, deals, allDeals, target, loads>>
          /\ UNCHANGED <<recent, reloads, ops>>
      BY <1>5 DEF B!LcdCatchesUp, B!listVars, B!shownVars
    <2>2. DOMAIN lcd'.cid = B!Created
      BY <1>5 DEF B!LcdCatchesUp
    <2>3. OpsInv' /\ StaysUnderWay
      BY <2>1, OpsKept DEF PageInv
    <2>4. ListsInv'
      BY <2>1, <2>2 DEF PageInv, ListsInv, B!Created
    <2>5. QED
      BY <2>1, <2>3, <2>4, LiveKept, RecentKept DEF PageInv, Rest
  <1>6. ASSUME (\E d \in DOMAIN overrides : B!Expire(d)) \/ UNCHANGED B!vars PROVE Rest'
    <2>1. /\ UNCHANGED <<owner, lcd, address, nilAddress, deals, allDeals, target, loads>>
          /\ UNCHANGED <<recent, reloads, ops>>
      BY <1>6 DEF B!Expire, B!vars, B!chainVars, B!listVars, B!shownVars
    <2>2. OpsInv' /\ StaysUnderWay
      BY <2>1, OpsKept DEF PageInv
    <2>3. QED
      BY <2>1, <2>2, ListsKept, LiveKept, RecentKept DEF PageInv, Rest
  <1>7. QED
    BY <1>2, <1>3, <1>4, <1>5, <1>6 DEF B!Next

\* For any number of deals, accounts and operations: only deals that exist are listed
\* and selected, one load at most is current, the list of recent files is bounded and
\* has no file twice; and until the page is reloaded, an entry that handleRecentDownload
\* or handleContentDownload made pending has its download under way, though entries are
\* moved, replaced and dropped by uploads that end in between.
THEOREM PendingAreUnderWay == B!Spec => []PendingIsUnderWay
  <1>1. B!DashboardAssumption
    BY PagesAssumption
  <1>2. B!Init => PageInv
    BY <1>1, PageInit
  <1>3. PageInv /\ [B!Next]_B!vars => PageInv'
    BY <1>1, PageStep
  <1>4. PageInv => PendingIsUnderWay
    BY <1>1, PageInvIsEnough
  <1>5. QED
    BY <1>2, <1>3, <1>4, PTL DEF B!Spec
=============================================================================
