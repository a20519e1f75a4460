------------------------------ MODULE NilChain ------------------------------
(***************************************************************************)
(* The x/nilchain keeper: deals, their escrow, the providers assigned to     *)
(* them, the Mode 2 slot map, retrieval sessions, liveness proofs, rewards   *)
(* and the slashing pass at the end of every block.                          *)
(*                                                                         *)
(* One action is one message handler that returns no error, or EndBlock.     *)
(* A handler that returns an error (or panics) changes nothing: the SDK      *)
(* drops the writes of a failed transaction, so such a call is no step.      *)
(* The coins are those of the bank module, seen through the calls the        *)
(* keeper makes; signatures and KZG openings are seen as their verdict.      *)
(* Left out: the heights stored only for display (updated_height,            *)
(* status_since_height, last_update_height), events, and the text of         *)
(* proof summaries (their number and verdict are kept).                      *)
(***************************************************************************)
EXTENDS Pricing, Sequences, FiniteSets

CONSTANTS
    Users,          \* accounts that own deals
    Providers,      \* accounts that may register as storage providers
    Module,         \* the nilchain module account
    FeeCollector,   \* the fee collector module account
    Roots,          \* 48-byte manifest roots
    Files,          \* file paths receipts are about
    NoRoot, NoProvider, NoProfile,
    \* what messages may carry
    DealMsgs,       \* MsgCreateDeal / EvmCreateDealIntent contents
    Contents,       \* MsgUpdateDealContent contents: root and size
    Amounts,        \* coins of an AddCredit
    SessionReqs,    \* MsgOpenRetrievalSession contents
    Receipts,       \* signed retrieval receipts
    Batches,        \* sequences of receipts sent in one transaction
    Downloads,      \* signed receipts for a whole download session
    ParamSets,      \* parameters governance may install
    GenesisCoins,   \* balance of every account at genesis
    \* fixed by types.go and slashing.go
    DealBaseReplication, ProofWindow, SlashAmount, BlobSize, InitialReputation,
    \* bounds of the model
    MaxDeals, MaxHeight, MaxNonce, MaxGen, MaxProofs, MaxReplication

VARIABLES
    height,         \* ctx.BlockHeight()
    params,         \* k.Params
    balance,        \* the bank: coins of every account
    capability,     \* k.Providers: capabilities, "none" if not registered
    reputation,     \* k.Providers: ReputationScore
    rewards,        \* k.ProviderRewards
    deals,          \* k.Deals, in order of deal id
    sessions,       \* k.RetrievalSessions, by session id
    evmNonce,       \* k.EvmNonces
    sessionNonce,   \* k.RetrievalSessionNonces
    receiptNonce,   \* k.ReceiptNoncesByDealFile
    lastProof,      \* k.DealProviderStatus, 0 if absent
    failures,       \* k.DealProviderFailures
    heat,           \* k.DealHeatStates
    proofLog        \* k.Proofs: how many summaries of each verdict

bankVars     == <<balance>>
providerVars == <<capability, reputation, rewards>>
nonceVars    == <<evmNonce, sessionNonce, receiptNonce>>
healthVars   == <<lastProof, failures, heat, proofLog>>
vars == <<height, params, bankVars, providerVars, deals, sessions,
          nonceVars, healthVars>>

Accounts == Users \cup Providers \cup {Module, FeeCollector}
DealIds  == 1..MaxDeals
Pairs    == DealIds \X Providers
Heights  == 1..MaxHeight
-----------------------------------------------------------------------------
(***************************************************************************)
(* Types.                                                                    *)
(***************************************************************************)
BasisPoints == 0..10000
Params == [baseFee : Nat, blobPrice : Nat, burnBps : BasisPoints,
           creationFee : Nat, minDuration : Nat, monthLen : Nat,
           stripeCost : Nat, storagePrice : Nat, halving : Nat]

Hints == {"Hot", "Cold", "General", ""}
Capabilities == {"Archive", "General", "Edge"}

\* Mode2Profile: RS(K, K+M), as ParseServiceHint admits it.
Profile == {r \in [k : 1..64, m : 1..64] :
               64 % r.k = 0 /\ r.k + r.m <= DealBaseReplication}

DealMsg == [hint : Hints, rs : Profile \cup {NoProfile}, replicas : Nat,
            escrow : Nat, spend : Nat, duration : Nat]

Content == [root : Roots, size : Nat \ {0}]

\* The session id is a hash of the request; hashes do not collide here.
SessionReq == [owner : Users, deal : DealIds, provider : Providers,
               root : Roots, slot : Nat, blobs : Nat \ {0},
               nonce : Nat, expires : Nat]

Receipt == [file : Files, bytes : Nat \ {0}, nonce : Nat, expires : Nat,
            slot : Nat]

Download == [file : Files, bytes : Nat \ {0}, chunks : Nat \ {0},
             nonce : Nat, expires : Nat, slot : Nat]

\* Bytes of the first n receipts of a batch, and of the whole batch.
BytesUpTo(b) ==
    LET sum[n \in 0..Len(b)] == IF n = 0 THEN 0 ELSE sum[n - 1] + b[n].bytes
    IN  sum
TotalBytes(b) == BytesUpTo(b)[Len(b)]

SlotStatus == {"ACTIVE", "REPAIRING"}
DealSlot == [provider : Providers, status : SlotStatus,
             pending : Providers \cup {NoProvider}, targetGen : Nat]

Deal == [owner : Users, start : Nat, end : Nat,
         profile : Profile \cup {NoProfile},
         providers : Seq(Providers), slots : Seq(DealSlot),
         replication : Nat, escrow : Nat, root : Roots \cup {NoRoot},
         size : Nat, gen : Nat, maxSpend : Nat,
         winStart : Nat, winSpent : Nat]

SessionStatus == {"OPEN", "PROOF_SUBMITTED", "USER_CONFIRMED",
                  "COMPLETED", "CANCELED"}
Session == [status : SessionStatus, locked : Nat]

ASSUME NilChainAssumption ==
    /\ Module # FeeCollector
    /\ {Module, FeeCollector} \cap (Users \cup Providers) = {}
    /\ IsFiniteSet(Providers)
    /\ NoRoot \notin Roots
    /\ NoProvider \notin Providers
    /\ NoProfile \notin Profile
    /\ DealMsgs \subseteq DealMsg
    /\ Contents \subseteq Content
    /\ Amounts \subseteq Nat
    /\ SessionReqs \subseteq SessionReq
    /\ Receipts \subseteq Receipt
    /\ \A b \in Batches : b \in Seq(Receipts) /\ b # <<>>
    /\ Downloads \subseteq Download
    /\ ParamSets \subseteq Params
    /\ GenesisCoins \in Nat
    /\ DealBaseReplication \in Nat \ {0}
    /\ ProofWindow \in Nat
    /\ SlashAmount \in Nat \ {0}
    /\ BlobSize \in Nat
    /\ InitialReputation \in Nat
    /\ {MaxDeals, MaxHeight, MaxNonce, MaxGen, MaxProofs, MaxReplication}
          \subseteq Nat
-----------------------------------------------------------------------------
(***************************************************************************)
(* The bank module, as the keeper uses it.                                   *)
(***************************************************************************)
CanPay(account, amount) == balance[account] >= amount

Send(b, from, to, amount) ==
    [b EXCEPT ![from] = @ - amount, ![to] = @ + amount]

BurnCoins(b, amount) == [b EXCEPT ![Module] = @ - amount]
\* Mutant of EscrowCovers: any escrow that is not empty will do.
EscrowNotEmpty(deal, amount) == deal.escrow > 0

\* The check every charge to a deal's escrow makes first.
EscrowCovers(deal, amount) == amount <= deal.escrow
-----------------------------------------------------------------------------
(***************************************************************************)
(* Providers and their assignment to deals.                                  *)
(***************************************************************************)
Registered == {p \in Providers : capability[p] # "none"}

\* MsgRegisterProvider.  Endpoints are checked and stored by the handler and
\* read only off-chain.
RegisterProvider(p, c) ==
    /\ p \notin Registered
    /\ capability' = [capability EXCEPT ![p] = c]
    /\ reputation' = [reputation EXCEPT ![p] = InitialReputation]
    /\ UNCHANGED <<height, params, bankVars, rewards, deals, sessions,
                   nonceVars, healthVars>>

Suits(hint, c) ==
    \/ hint = "Hot" /\ c \in {"General", "Edge"}
    \/ hint = "Cold" /\ c \in {"Archive", "General"}
    \/ hint \in {"", "General"}

\* The lists AssignProviders may return: distinct suitable providers in the
\* order the block hash draws them, fewer than count when too few suit.  An
\* empty candidate list is an error: then there is no list.
AssignProviders(hint, count) ==
    LET candidates == {p \in Registered : Suits(hint, capability[p])}
        available  == Cardinality(candidates)
        n          == IF available < count THEN available ELSE count
    IN  IF available = 0
        THEN {}
        ELSE {a \in [1..n -> candidates] :
                 \A i, j \in 1..n : a[i] = a[j] => i = j}

Assigned(deal) == {deal.providers[i] : i \in DOMAIN deal.providers}

Least(S) == CHOOSE i \in S : \A j \in S : i <= j

\* providerSlotIndex: the first slot the provider holds in the slot map, else
\* its first place in the legacy list; 0 stands for "not found".
ProviderSlotIndex(deal, p) ==
    LET inSlots     == {i \in DOMAIN deal.slots : deal.slots[i].provider = p}
        inProviders == {i \in DOMAIN deal.providers : deal.providers[i] = p}
    IN  IF inSlots # {} THEN Least(inSlots)
        ELSE IF inProviders # {} THEN Least(inProviders) ELSE 0

\* In Mode 2 a blob range belongs to one of the K+M slots, and only the
\* provider of that slot may serve or prove it.  A Mode 1 deal has no slots.
MatchesSlot(deal, p, slot) ==
    deal.profile # NoProfile =>
        /\ slot <= deal.profile.k + deal.profile.m
        /\ ProviderSlotIndex(deal, p) = slot
-----------------------------------------------------------------------------
(***************************************************************************)
(* Deals: creation, content, credit.                                         *)
(***************************************************************************)
RequestedReplicas(m) ==
    IF m.rs # NoProfile THEN m.rs.k + m.rs.m
    ELSE IF m.replicas \in 1..DealBaseReplication THEN m.replicas
    ELSE DealBaseReplication

ValidHint(m) ==
    m.rs # NoProfile => m.replicas \in {0, m.rs.k + m.rs.m}

ValidDuration(m) ==
    m.duration # 0 /\ m.duration >= params.minDuration

\* Mutant of InitialEscrow: nothing is credited.
NoEscrow(m) == 0

InitialEscrow(m) == m.escrow

InitialSlot(p) == [provider |-> p, status |-> "ACTIVE",
                   pending |-> NoProvider, targetGen |-> 0]

NewDeal(owner, m, assigned) ==
    [owner       |-> owner,
     start       |-> height,
     end         |-> AddWord(height, m.duration),
     profile     |-> m.rs,
     providers   |-> assigned,
     slots       |-> IF m.rs = NoProfile THEN <<>>
                     ELSE [i \in DOMAIN assigned |-> InitialSlot(assigned[i])],
     replication |-> Len(assigned),
     escrow      |-> InitialEscrow(m),
     root        |-> NoRoot,
     size        |-> 0,
     gen         |-> 0,
     maxSpend    |-> m.spend,
     winStart    |-> height,
     winSpent    |-> 0]

\* The part CreateDeal and CreateDealFromEvm share: payer pays the creation
\* fee and the initial escrow, owner gets the deal.
OpenDeal(payer, owner, m) ==
    /\ Len(deals) < MaxDeals
    /\ ValidHint(m)
    /\ ValidDuration(m)
    /\ CanPay(payer, params.creationFee + m.escrow)
    /\ balance' = Send(Send(balance, payer, FeeCollector, params.creationFee),
                       payer, Module, m.escrow)
    /\ \E assigned \in AssignProviders(m.hint, RequestedReplicas(m)) :
          deals' = Append(deals, NewDeal(owner, m, assigned))
    /\ UNCHANGED <<height, params, providerVars, sessions, healthVars>>

\* MsgCreateDeal; the hint may name another owner than the creator.
CreateDeal(creator, owner, m) ==
    /\ OpenDeal(creator, owner, m)
    /\ UNCHANGED nonceVars

\* Mutant of FreshEvmNonce: the last nonce may be used again.
NotOlderEvmNonce(signer, nonce) == nonce >= evmNonce[signer]

\* An EVM-signed intent is accepted once: its nonce must exceed the signer's.
FreshEvmNonce(signer, nonce) == nonce > evmNonce[signer]

UseEvmNonce(signer, nonce) ==
    /\ FreshEvmNonce(signer, nonce)
    /\ evmNonce' = [evmNonce EXCEPT ![signer] = nonce]
    /\ UNCHANGED <<sessionNonce, receiptNonce>>

CreateDealFromEvm(signer, nonce, m) ==
    /\ UseEvmNonce(signer, nonce)
    /\ OpenDeal(signer, signer, m)

Deposit(deal, size) ==
    IF size > deal.size
    THEN TermDeposit(params.storagePrice, size - deal.size,
                     (deal.end - deal.start) % WordSize)
    ELSE 0

NextGen(deal, root) == IF deal.root # root THEN deal.gen + 1 ELSE deal.gen

\* The part the two content handlers share: a larger size is paid for, a new
\* root starts a new generation.
CommitContent(sender, d, c) ==
    /\ d \in DOMAIN deals
    /\ deals[d].owner = sender
    /\ NextGen(deals[d], c.root) <= MaxGen
    /\ LET cost == Deposit(deals[d], c.size)
       IN  /\ CanPay(sender, cost)
           /\ balance' = Send(balance, sender, Module, cost)
           /\ deals' = [deals EXCEPT ![d].escrow = @ + cost,
                                     ![d].gen    = NextGen(deals[d], c.root),
                                     ![d].root   = c.root,
                                     ![d].size   = c.size]
    /\ UNCHANGED <<height, params, providerVars, sessions, healthVars>>

UpdateDealContent(sender, d, c) ==
    /\ CommitContent(sender, d, c)
    /\ UNCHANGED nonceVars

UpdateDealContentFromEvm(signer, nonce, d, c) ==
    /\ UseEvmNonce(signer, nonce)
    /\ CommitContent(signer, d, c)

\* Anyone may top up a deal's escrow.
AddCredit(sender, d, amount) ==
    /\ d \in DOMAIN deals
    /\ CanPay(sender, amount)
    /\ balance' = Send(balance, sender, Module, amount)
    /\ deals' = [deals EXCEPT ![d].escrow = @ + amount]
    /\ UNCHANGED <<height, params, providerVars, sessions, nonceVars,
                   healthVars>>

\* Governance replaces the parameters; sessions and deals already open keep
\* what they locked, but settle under the new ones.
UpdateParams(new) ==
    /\ params' = new
    /\ UNCHANGED <<height, bankVars, providerVars, deals, sessions, nonceVars,
                   healthVars>>
-----------------------------------------------------------------------------
(***************************************************************************)
(* Health and heat bookkeeping shared by the handlers.                       *)
(***************************************************************************)
IncrementHeat(h, d, bytes, retrievals, failed) ==
    [h EXCEPT ![d].bytes  = @ + bytes,
              ![d].ok     = @ + retrievals,
              ![d].failed = @ + failed]

\* trackProviderHealth: a success clears the failure counter of the pair.
ClearFailures(f, d, p) == [f EXCEPT ![<<d, p>>] = 0]
CountFailure(f, d, p)  == [f EXCEPT ![<<d, p>>] = @ + 1]

\* recordProofSummary and recordEvidenceSummary.
LogProof(log, d, p, valid) ==
    IF valid THEN [log EXCEPT ![<<d, p>>].valid = @ + 1]
             ELSE [log EXCEPT ![<<d, p>>].invalid = @ + 1]
-----------------------------------------------------------------------------
(***************************************************************************)
(* Retrieval sessions.  Opening one burns the base fee and moves the         *)
(* variable fee out of the deal's escrow into the session; when both the     *)
(* provider's proof and the owner's confirmation have arrived it is paid     *)
(* out, and once the session has expired the owner may take it back.         *)
(***************************************************************************)
\* Mutant of isSessionExpired: the deadline itself counts as expired.
expiredAtDeadline(id) == id.expires # 0 /\ height >= id.expires

isSessionExpired(id) == id.expires # 0 /\ height > id.expires

SessionNonceKey(id) == <<id.owner, id.deal, id.provider>>

FreshSession(id) == id.nonce > sessionNonce[SessionNonceKey(id)]

\* RetrievalSessions.Set
SetSession(id, s) ==
    [x \in DOMAIN sessions \cup {id} |-> IF x = id THEN s ELSE sessions[x]]

OpenRetrievalSession(sender, id) ==
    LET fee   == VariableFee(params.blobPrice, id.blobs)
        total == fee + params.baseFee
    IN  /\ id.deal \in DOMAIN deals
        /\ sender = deals[id.deal].owner
        /\ id.owner = sender
        /\ id.root = deals[id.deal].root
        /\ id.provider \in Assigned(deals[id.deal])
        /\ MatchesSlot(deals[id.deal], id.provider, id.slot)
        /\ EscrowCovers(deals[id.deal], total)
        /\ CanPay(Module, params.baseFee)
        /\ FreshSession(id)
        /\ balance' = BurnCoins(balance, params.baseFee)
        /\ deals' = [deals EXCEPT ![id.deal].escrow = @ - total]
        /\ sessions' = SetSession(id, [status |-> "OPEN", locked |-> fee])
        /\ sessionNonce' = [sessionNonce EXCEPT
                              ![SessionNonceKey(id)] = id.nonce]
        /\ UNCHANGED <<height, params, providerVars, evmNonce, receiptNonce,
                       healthVars>>

\* Mutant of Settle: the burned share is paid to the provider as well.
SettleWithoutCut(b, id) ==
    LET variable == sessions[id].locked
    IN  Send(BurnCoins(b, BurnShare(variable, params.burnBps)),
             Module, id.provider, variable)

\* settleRetrievalSession on the bank: the module pays out the whole locked
\* fee, part of it burned.
Settle(b, id) ==
    LET variable == sessions[id].locked
        burn     == BurnShare(variable, params.burnBps)
    IN  Send(BurnCoins(b, burn), Module, id.provider, variable - burn)

\* Mutant of LockedAfter: settlement forgets to clear the locked fee.
LockedKept(id, status) == sessions[id].locked

LockedAfter(id, status) ==
    IF status = "COMPLETED" THEN 0 ELSE sessions[id].locked

\* The common tail of ConfirmRetrievalSession and SubmitRetrievalSessionProof.
AdvanceSession(id, status) ==
    /\ sessions' = SetSession(id, [status |-> status,
                                   locked |-> LockedAfter(id, status)])
    /\ \/ /\ status = "COMPLETED"
          /\ CanPay(Module, sessions[id].locked)
          /\ balance' = Settle(balance, id)
          /\ heat' = IncrementHeat(heat, id.deal, id.blobs * BlobSize, 1, 0)
       \/ /\ status # "COMPLETED"
          /\ UNCHANGED <<balance, heat>>
    /\ UNCHANGED <<height, params, providerVars, deals, nonceVars, lastProof,
                   failures, proofLog>>

\* What a confirmation makes of each status.
Confirmed(status) ==
    IF status = "OPEN" THEN "USER_CONFIRMED"
    ELSE IF status = "PROOF_SUBMITTED" THEN "COMPLETED"
    ELSE status

\* What a verified proof makes of each status.
Proved(status) ==
    IF status = "OPEN" THEN "PROOF_SUBMITTED"
    ELSE IF status = "USER_CONFIRMED" THEN "COMPLETED"
    ELSE status

\* A confirmation of a COMPLETED session succeeds and changes nothing.  On
\* an expired session the handler stores EXPIRED and then fails, so EXPIRED
\* is never kept.
ConfirmRetrievalSession(sender, id) ==
    /\ id \in DOMAIN sessions
    /\ sender = id.owner
    /\ ~isSessionExpired(id)
    /\ sessions[id].status # "COMPLETED"
    /\ AdvanceSession(id, Confirmed(sessions[id].status))

\* The proofs are for the pinned root and for every blob of the range, and
\* the provider must still hold the slot the range is in.
SubmitRetrievalSessionProof(sender, id) ==
    /\ id \in DOMAIN sessions
    /\ sender = id.provider
    /\ ~isSessionExpired(id)
    /\ sessions[id].status # "COMPLETED"
    /\ id.root = deals[id.deal].root
    /\ MatchesSlot(deals[id.deal], id.provider, id.slot)
    /\ AdvanceSession(id, Proved(sessions[id].status))

\* Only a session nobody has answered counts against its provider.
IsNonResponse(id) == sessions[id].status = "OPEN"

\* Mutant of Closed: an answer of either party already closes the session.
ClosedOnceAnswered(id) == sessions[id].status # "OPEN"

Closed(id) == sessions[id].status \in {"COMPLETED", "CANCELED"}

\* Cancelling a closed session succeeds and changes nothing.
CancelRetrievalSession(sender, id) ==
    /\ id \in DOMAIN sessions
    /\ sender = id.owner
    /\ ~Closed(id)
    /\ isSessionExpired(id)
    /\ \/ /\ IsNonResponse(id)
          /\ proofLog' = LogProof(proofLog, id.deal, id.provider, FALSE)
          /\ heat' = IncrementHeat(heat, id.deal, 0, 0, 1)
          /\ failures' = CountFailure(failures, id.deal, id.provider)
       \/ /\ ~IsNonResponse(id)
          /\ UNCHANGED <<proofLog, heat, failures>>
    /\ deals' = [deals EXCEPT ![id.deal].escrow = @ + sessions[id].locked]
    /\ sessions' = SetSession(id, [status |-> "CANCELED", locked |-> 0])
    /\ UNCHANGED <<height, params, bankVars, providerVars, nonceVars,
                   lastProof>>
-----------------------------------------------------------------------------
(***************************************************************************)
(* Liveness proofs and rewards.                                              *)
(***************************************************************************)
\* Mutant of SlotRepairing: the slot's status is not looked at.
NeverRepairing(deal, p) == FALSE

SlotRepairing(deal, p) ==
    LET i == ProviderSlotIndex(deal, p)
    IN  /\ deal.profile # NoProfile
        /\ i \in DOMAIN deal.slots
        /\ deal.slots[i].status = "REPAIRING"

\* What MsgProveLiveness asks of its sender before it looks at the proof.
\* HalvingInterval divides the height: 0 panics, and the message fails.
MayProve(p, d) ==
    /\ d \in DOMAIN deals
    /\ p \in Assigned(deals[d])
    /\ ~SlotRepairing(deals[d], p)
    /\ params.halving # 0

\* verifyChainedProof: the deal has content, the blob is the provider's and
\* the KZG opening is good.
VerifyChainedProof(deal, p, slot) ==
    deal.root # NoRoot /\ MatchesSlot(deal, p, slot)

Latency(d) == height - deals[d].start

\* Computed and stored before the proof is looked at.
ReputationAfter(p, d) ==
    IF Tier(Latency(d)) < 3 /\ p \in Registered
    THEN [reputation EXCEPT ![p] = @ + 1]
    ELSE reputation

\* What every accepted proof does: payment moves from the escrow into the
\* provider's rewards, next to the storage reward of the tier.
AcceptProof(p, d, payment) ==
    /\ MayProve(p, d)
    /\ proofLog[<<d, p>>].valid < MaxProofs
    /\ EscrowCovers(deals[d], payment)
    /\ deals' = [deals EXCEPT ![d].escrow = @ - payment]
    /\ rewards' = [rewards EXCEPT ![p] = @ + payment
                       + StorageReward(height, params.halving, Latency(d))]
    /\ reputation' = ReputationAfter(p, d)
    /\ lastProof' = [lastProof EXCEPT ![<<d, p>>] = height]
    /\ failures' = ClearFailures(failures, d, p)
    /\ proofLog' = LogProof(proofLog, d, p, TRUE)
    /\ UNCHANGED <<height, params, bankVars, capability, sessions, evmNonce,
                   sessionNonce>>

ProveLivenessSystem(p, d, slot) ==
    /\ AcceptProof(p, d, 0)
    /\ VerifyChainedProof(deals[d], p, slot)
    /\ UNCHANGED <<receiptNonce, heat>>

\* A system proof that does not verify is answered with Success: false and no
\* error, so what the handler wrote stays.
ProveLivenessSystemFails(p, d) ==
    /\ MayProve(p, d)
    /\ failures[<<d, p>>] < MaxProofs
    /\ reputation' = ReputationAfter(p, d)
    /\ failures' = CountFailure(failures, d, p)
    /\ UNCHANGED <<height, params, bankVars, capability, rewards, deals,
                   sessions, nonceVars, lastProof, heat, proofLog>>

ReceiptExpired(r) == r.expires # 0 /\ height > r.expires

\* Mutant of FreshReceipt: receipts are compared with the stored nonce only.
NewerThanStored(d, b, i) == b[i].nonce > receiptNonce[<<d, b[i].file>>]

\* Receipt i of a batch must be newer than the stored nonce of its file, which
\* the receipts before it in the batch have already advanced.
FreshReceipt(d, b, i) ==
    /\ b[i].nonce > receiptNonce[<<d, b[i].file>>]
    /\ \A j \in 1..(i-1) : b[j].file = b[i].file => b[j].nonce < b[i].nonce

ValidReceipt(p, d, b, i) ==
    /\ ~ReceiptExpired(b[i])
    /\ FreshReceipt(d, b, i)
    /\ VerifyChainedProof(deals[d], p, b[i].slot)

LastReceiptOf(b, f) ==
    b[CHOOSE i \in DOMAIN b :
         b[i].file = f /\ \A j \in DOMAIN b : b[j].file = f => j <= i]

\* A user receipt, or a batch of them: all are good or none counts.
ProveLivenessReceipts(p, d, b) ==
    /\ TotalBytes(b) < WordSize
    /\ AcceptProof(p, d, BandwidthPayment(TotalBytes(b)))
    /\ \A i \in DOMAIN b : ValidReceipt(p, d, b, i)
    /\ receiptNonce' = [k \in DOMAIN receiptNonce |->
                          IF k[1] = d /\ \E i \in DOMAIN b : b[i].file = k[2]
                          THEN LastReceiptOf(b, k[2]).nonce
                          ELSE receiptNonce[k]]
    /\ heat' = IncrementHeat(heat, d, TotalBytes(b), Len(b), 0)

\* A download session: one signed receipt for all chunks, each chunk proved.
ProveLivenessSession(p, d, r) ==
    /\ r.bytes < WordSize
    /\ AcceptProof(p, d, BandwidthPayment(r.bytes))
    /\ ~ReceiptExpired(r)
    /\ FreshReceipt(d, <<r>>, 1)
    /\ VerifyChainedProof(deals[d], p, r.slot)
    /\ receiptNonce' = [receiptNonce EXCEPT ![<<d, r.file>>] = r.nonce]
    /\ heat' = IncrementHeat(heat, d, r.bytes, r.chunks, 0)

\* The whole reward is minted on withdrawal; bandwidth payments stay behind in
\* the module account.
PayRewards(b, p) == [b EXCEPT ![p] = @ + rewards[p]]

WithdrawRewards(p) ==
    /\ rewards[p] > 0
    /\ balance' = PayRewards(balance, p)
    /\ rewards' = [rewards EXCEPT ![p] = 0]
    /\ UNCHANGED <<height, params, capability, reputation, deals, sessions,
                   nonceVars, healthVars>>
-----------------------------------------------------------------------------
(***************************************************************************)
(* Elasticity: an assigned provider asks for another stripe of replicas.     *)
(***************************************************************************)
ElasticityCost == params.stripeCost * DealBaseReplication

WindowOver(deal) ==
    params.monthLen > 0 /\ height >= AddWord(deal.winStart, params.monthLen)

WindowStart(deal) == IF WindowOver(deal) THEN height ELSE deal.winStart
SpentAfter(deal) ==
    (IF WindowOver(deal) THEN 0 ELSE deal.winSpent) + ElasticityCost

SignalSaturation(p, d) ==
    /\ d \in DOMAIN deals
    /\ p \in Assigned(deals[d])
    /\ deals[d].replication + DealBaseReplication <= MaxReplication
    /\ SpentAfter(deals[d]) <= deals[d].maxSpend
    /\ EscrowCovers(deals[d], ElasticityCost)
    /\ \E assigned \in AssignProviders("Hot", DealBaseReplication) :
          deals' = [deals EXCEPT
                      ![d].providers   = @ \o assigned,
                      ![d].replication = @ + DealBaseReplication,
                      ![d].escrow      = @ - ElasticityCost,
                      ![d].winStart    = WindowStart(deals[d]),
                      ![d].winSpent    = SpentAfter(deals[d])]
    /\ UNCHANGED <<height, params, bankVars, providerVars, sessions,
                   nonceVars, healthVars>>
-----------------------------------------------------------------------------
(***************************************************************************)
(* Mode 2 slot repair.                                                       *)
(***************************************************************************)
MayRepair(sender, d, i) ==
    /\ d \in DOMAIN deals
    /\ deals[d].owner = sender
    /\ deals[d].profile # NoProfile
    /\ i \in DOMAIN deals[d].slots

RepairingSlot(slot, pending, gen) ==
    [slot EXCEPT !.status = "REPAIRING", !.pending = pending, !.targetGen = gen]

StartSlotRepair(sender, d, i, pending) ==
    /\ MayRepair(sender, d, i)
    /\ deals[d].slots[i].status # "REPAIRING"
    /\ deals[d].slots[i].provider # pending
    /\ pending \in Registered
    /\ deals' = [deals EXCEPT
                   ![d].slots[i] = RepairingSlot(@, pending, deals[d].gen)]
    /\ UNCHANGED <<height, params, bankVars, providerVars, sessions,
                   nonceVars, healthVars>>

\* Mutant of AlignProviders: the legacy list is left as it was.
ProvidersKept(deal, i) == deal.providers

\* The legacy list follows the slot map.
AlignProviders(deal, i) ==
    IF i \in DOMAIN deal.providers
    THEN [deal.providers EXCEPT ![i] = deal.slots[i].pending]
    ELSE deal.providers

\* Mutant of RepairedSlot: the candidate takes over and stays pending.
SlotWithCandidate(slot) ==
    [slot EXCEPT !.provider = slot.pending, !.status = "ACTIVE"]

RepairedSlot(slot) == InitialSlot(slot.pending)

CompleteSlotRepair(sender, d, i) ==
    /\ MayRepair(sender, d, i)
    /\ deals[d].slots[i].status = "REPAIRING"
    /\ deals[d].slots[i].pending # NoProvider
    /\ deals' = [deals EXCEPT
                   ![d].slots[i]  = RepairedSlot(deals[d].slots[i]),
                   ![d].providers = AlignProviders(deals[d], i)]
    /\ UNCHANGED <<height, params, bankVars, providerVars, sessions,
                   nonceVars, healthVars>>
-----------------------------------------------------------------------------
(***************************************************************************)
(* The end of a block: CheckMissedProofs, then the next height.              *)
(***************************************************************************)
Active(deal) == deal.start <= height /\ height <= deal.end

LastProof(d, p) ==
    IF lastProof[<<d, p>>] = 0 THEN deals[d].start ELSE lastProof[<<d, p>>]

\* Mutants of Missed: one block early, and one block late.
MissedEarly(d, p) == height >= LastProof(d, p) + ProofWindow
MissedLate(d, p) == height > LastProof(d, p) + ProofWindow + 1

Missed(d, p) == height > LastProof(d, p) + ProofWindow

\* A provider listed twice is overdue once: the first slash renews its window.
Overdue ==
    {dp \in Pairs :
        /\ dp[1] \in DOMAIN deals
        /\ Active(deals[dp[1]])
        /\ dp[2] \in Assigned(deals[dp[1]])
        /\ Missed(dp[1], dp[2])}

\* Each overdue deal costs its provider SlashAmount while it can pay; the
\* coins pass through the module account and are burned.
Slashed(p) ==
    LET due        == Cardinality({d \in DealIds : <<d, p>> \in Overdue})
        affordable == balance[p] \div SlashAmount
    IN  SlashAmount * (IF due < affordable THEN due ELSE affordable)

EndBlock ==
    /\ height < MaxHeight
    /\ height' = height + 1
    /\ balance' = [a \in Accounts |->
                     IF a \in Providers THEN balance[a] - Slashed(a)
                                        ELSE balance[a]]
    /\ lastProof' = [dp \in Pairs |->
                       IF dp \in Overdue THEN height ELSE lastProof[dp]]
    /\ UNCHANGED <<params, providerVars, deals, sessions, nonceVars, failures,
                   heat, proofLog>>
-----------------------------------------------------------------------------
Init ==
    /\ height = 1
    /\ params \in ParamSets
    /\ balance = [a \in Accounts |->
                    IF a \in {Module, FeeCollector} THEN 0 ELSE GenesisCoins]
    /\ capability = [p \in Providers |-> "none"]
    /\ reputation = [p \in Providers |-> 0]
    /\ rewards = [p \in Providers |-> 0]
    /\ deals = <<>>
    /\ sessions = [id \in {} |-> 0]
    /\ evmNonce = [u \in Users |-> 0]
    /\ sessionNonce = [k \in Users \X DealIds \X Providers |-> 0]
    /\ receiptNonce = [k \in DealIds \X Files |-> 0]
    /\ lastProof = [dp \in Pairs |-> 0]
    /\ failures = [dp \in Pairs |-> 0]
    /\ heat = [d \in DealIds |-> [bytes |-> 0, ok |-> 0, failed |-> 0]]
    /\ proofLog = [dp \in Pairs |-> [valid |-> 0, invalid |-> 0]]

RegistryNext ==
    \/ \E p \in Providers, c \in Capabilities : RegisterProvider(p, c)
    \/ \E new \in ParamSets : UpdateParams(new)

DealNext ==
    \/ \E u, o \in Users, m \in DealMsgs : CreateDeal(u, o, m)
    \/ \E u \in Users, n \in 1..MaxNonce, m \in DealMsgs :
          CreateDealFromEvm(u, n, m)
    \/ \E u \in Users, d \in DealIds, c \in Contents :
          UpdateDealContent(u, d, c)
    \/ \E u \in Users, n \in 1..MaxNonce, d \in DealIds, c \in Contents :
          UpdateDealContentFromEvm(u, n, d, c)
    \/ \E u \in Users, d \in DealIds, x \in Amounts : AddCredit(u, d, x)

SessionNext ==
    \/ \E u \in Users, id \in SessionReqs : OpenRetrievalSession(u, id)
    \/ \E u \in Users, id \in SessionReqs : ConfirmRetrievalSession(u, id)
    \/ \E p \in Providers, id \in SessionReqs :
          SubmitRetrievalSessionProof(p, id)
    \/ \E u \in Users, id \in SessionReqs : CancelRetrievalSession(u, id)

ProofNext ==
    \/ \E p \in Providers, d \in DealIds, s \in 1..DealBaseReplication :
          ProveLivenessSystem(p, d, s)
    \/ \E p \in Providers, d \in DealIds : ProveLivenessSystemFails(p, d)
    \/ \E p \in Providers, d \in DealIds, b \in Batches :
          ProveLivenessReceipts(p, d, b)
    \/ \E p \in Providers, d \in DealIds, r \in Downloads :
          ProveLivenessSession(p, d, r)
    \/ \E p \in Providers : WithdrawRewards(p)

PlacementNext ==
    \/ \E p \in Providers, d \in DealIds : SignalSaturation(p, d)
    \/ \E u \in Users, d \in DealIds, i \in 1..DealBaseReplication,
          q \in Providers : StartSlotRepair(u, d, i, q)
    \/ \E u \in Users, d \in DealIds, i \in 1..DealBaseReplication :
          CompleteSlotRepair(u, d, i)

Next ==
    \/ RegistryNext
    \/ DealNext
    \/ SessionNext
    \/ ProofNext
    \/ PlacementNext
    \/ EndBlock

Spec == Init /\ [][Next]_vars

\* Consensus keeps producing blocks, and an owner who can take back an expired
\* fee eventually sends the cancel transaction.
Fairness ==
    /\ WF_vars(EndBlock)
    /\ \A id \in SessionReqs :
          WF_vars(\E u \in Users : CancelRetrievalSession(u, id))

FairSpec == Spec /\ Fairness
-----------------------------------------------------------------------------
(***************************************************************************)
(* Properties.                                                               *)
(***************************************************************************)
Heat == [bytes : Nat, ok : Nat, failed : Nat]
ProofCounts == [valid : Nat, invalid : Nat]

\* Every store of the keeper holds values of its type: no balance, escrow or
\* locked fee is ever negative, and sessions are about existing deals.
TypeOK ==
    /\ height \in Nat \ {0}
    /\ params \in Params
    /\ balance \in [Accounts -> Nat]
    /\ capability \in [Providers -> Capabilities \cup {"none"}]
    /\ reputation \in [Providers -> Nat]
    /\ rewards \in [Providers -> Nat]
    /\ deals \in Seq(Deal) /\ Len(deals) <= MaxDeals
    /\ DOMAIN sessions \subseteq SessionReqs
    /\ sessions \in [DOMAIN sessions -> Session]
    /\ \A id \in DOMAIN sessions : id.deal \in DOMAIN deals
    /\ evmNonce \in [Users -> Nat]
    /\ sessionNonce \in [Users \X DealIds \X Providers -> Nat]
    /\ receiptNonce \in [DealIds \X Files -> Nat]
    /\ lastProof \in [Pairs -> Nat]
    /\ failures \in [Pairs -> Nat]
    /\ heat \in [DealIds -> Heat]
    /\ proofLog \in [Pairs -> ProofCounts]

\* One element for every coin f gives to a member of its domain.
Coins(f) == UNION {{x} \X (1..f[x]) : x \in DOMAIN f}

EscrowCoins == Coins([d \in DOMAIN deals |-> deals[d].escrow])
LockedCoins == Coins([id \in DOMAIN sessions |-> sessions[id].locked])

\* The module account covers every claim on it at once: all escrow balances
\* and all fees locked in sessions can be paid out, so no settlement, base fee
\* burn or refund ever fails for lack of coins.
Solvent ==
    Cardinality(EscrowCoins) + Cardinality(LockedCoins) <= balance[Module]

\* Where the fee locked in a session goes in a step that changes it.
FeeReleased(id) ==
    LET v == sessions[id].locked
    IN  v # sessions'[id].locked =>
          /\ sessions'[id].locked = 0
          /\ \/ /\ sessions'[id].status = "COMPLETED"
                /\ balance'[Module] = balance[Module] - v
                /\ deals' = deals
             \/ /\ sessions'[id].status = "CANCELED"
                /\ balance' = balance
                /\ deals'[id.deal].escrow = deals[id.deal].escrow + v

\* A locked fee leaves its session in one step and goes where the outcome
\* says: out of the module account when the session completes, back into the
\* same deal's escrow when it is cancelled.
FeeFollowsOutcome == [][\A id \in DOMAIN sessions : FeeReleased(id)]_vars

\* The two copies of a Mode 2 deal's placement agree: the first N entries of
\* the legacy providers list are the slots' providers, after any sequence of
\* repairs and stripes added by saturation.
ProvidersFollowSlots ==
    \A d \in DOMAIN deals :
        /\ Len(deals[d].slots) <= Len(deals[d].providers)
        /\ \A i \in DOMAIN deals[d].slots :
              deals[d].providers[i] = deals[d].slots[i].provider

\* A slot is being repaired exactly when it has a candidate, the candidate is
\* not the provider it replaces, and it aims at a generation that exists.
RepairHasCandidate ==
    \A d \in DOMAIN deals : \A i \in DOMAIN deals[d].slots :
        LET s == deals[d].slots[i]
        IN  /\ s.status = "REPAIRING" <=> s.pending # NoProvider
            /\ s.pending # s.provider
            /\ s.targetGen <= deals[d].gen
-----------------------------------------------------------------------------
(***************************************************************************)
(* The sessions implement RetrievalEscrow.                                   *)
(***************************************************************************)
PhaseOf(id) ==
    IF id \notin DOMAIN sessions THEN "none"
    ELSE IF sessions[id].status = "COMPLETED" THEN "paid"
    ELSE IF sessions[id].status = "CANCELED" THEN "returned"
    ELSE "held"

AgreedOf(id) ==
    IF id \notin DOMAIN sessions THEN {}
    ELSE (IF sessions[id].status \in {"PROOF_SUBMITTED", "COMPLETED"}
          THEN {"provider"} ELSE {})
         \cup
         (IF sessions[id].status \in {"USER_CONFIRMED", "COMPLETED"}
          THEN {"owner"} ELSE {})

Escrow == INSTANCE RetrievalEscrow
          WITH Sessions <- SessionReqs,
               Deadline <- [id \in SessionReqs |-> id.expires],
               now      <- height,
               phase    <- [id \in SessionReqs |-> PhaseOf(id)],
               agreed   <- [id \in SessionReqs |-> AgreedOf(id)]

\* Every session is held once and then paid - both parties having agreed in
\* time - or returned after its deadline, never both and never again, however
\* the owner's, the provider's and the chain's steps interleave.
SessionsAreEscrowed == Escrow!EscrowSpec

\* A fee held by a session with a deadline is eventually paid or returned,
\* whatever happened to the session, the deal's content or its slots before.
HeldFeesAreReleased ==
    \A id \in SessionReqs :
        id.expires \in 1..(MaxHeight - 1) =>
            (PhaseOf(id) = "held") ~> (PhaseOf(id) \in {"paid", "returned"})
-----------------------------------------------------------------------------
(* What a document, a comment or a test says and the code does not keep; the *)
(* README tells how. *)

\* A session that expired without a proof from its provider, when cancelled,
\* counts as a failure of that provider.
UnprovedExpiryIsRecorded ==
    [][\A id \in DOMAIN sessions :
          /\ PhaseOf(id) = "held" /\ "provider" \notin AgreedOf(id)
          /\ PhaseOf(id)' = "returned"
          => failures'[<<id.deal, id.provider>>] > failures[<<id.deal, id.provider>>]
      ]_vars
=============================================================================
