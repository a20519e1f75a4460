--------------------------- MODULE NilChainHistory ---------------------------
(***************************************************************************)
(* NilChain with history variables: how often each signed intent took        *)
(* effect and each signed receipt was charged, and when each provider last   *)
(* proved a deal and was last slashed for it.  They are written beside every *)
(* step and read by no handler; what the chain promises over several         *)
(* transactions is stated with them.                                         *)
(***************************************************************************)
EXTENDS NilChain

VARIABLES
    accepted,   \* how often each signed intent took effect
    paid,       \* how often each signed receipt was charged to the escrow
    provedAt,   \* height of the last accepted proof of a deal by a provider
    slashedAt   \* height of the last slash of a provider for a deal

historyVars == <<accepted, paid, provedAt, slashedAt>>
allVars == <<vars, historyVars>>

Intents == Users \X (1..MaxNonce)
SignedNonces == {r.nonce : r \in Receipts \cup Downloads}
Charges == DealIds \X Files \X SignedNonces

\* How many receipts of batch b carry the key c of deal d.
Occurrences(c, d, b) ==
    Cardinality({i \in DOMAIN b : c = <<d, b[i].file, b[i].nonce>>})

\* What a step does to the counters of signed messages.
IntentTaken(u, n) ==
    /\ accepted' = [accepted EXCEPT ![<<u, n>>] = @ + 1]
    /\ UNCHANGED paid
ReceiptsCharged(d, b) ==
    /\ paid' = [c \in Charges |-> paid[c] + Occurrences(c, d, b)]
    /\ UNCHANGED accepted
NothingSigned == UNCHANGED <<accepted, paid>>

\* A slash gives the pair a new window in the step that ends the block.
SlashStep(dp) == height' # height /\ lastProof'[dp] # lastProof[dp]

ProofStep(dp) == proofLog'[dp].valid > proofLog[dp].valid

RecordWindows ==
    /\ provedAt' = [dp \in Pairs |-> IF ProofStep(dp) THEN height
                                                      ELSE provedAt[dp]]
    /\ slashedAt' = [dp \in Pairs |-> IF SlashStep(dp) THEN height
                                                       ELSE slashedAt[dp]]

HistoryInit ==
    /\ accepted = [i \in Intents |-> 0]
    /\ paid = [c \in Charges |-> 0]
    /\ provedAt = [dp \in Pairs |-> 0]
    /\ slashedAt = [dp \in Pairs |-> 0]

\* Handlers that act on a signed intent, handlers that charge signed receipts,
\* and the others.
IntentNext ==
    \/ \E u \in Users, n \in 1..MaxNonce, m \in DealMsgs :
          CreateDealFromEvm(u, n, m) /\ IntentTaken(u, n)
    \/ \E u \in Users, n \in 1..MaxNonce, d \in DealIds, c \in Contents :
          UpdateDealContentFromEvm(u, n, d, c) /\ IntentTaken(u, n)

ChargeNext ==
    \/ \E p \in Providers, d \in DealIds, b \in Batches :
          ProveLivenessReceipts(p, d, b) /\ ReceiptsCharged(d, b)
    \/ \E p \in Providers, d \in DealIds, r \in Downloads :
          ProveLivenessSession(p, d, r) /\ ReceiptsCharged(d, <<r>>)

SenderNext ==
    \/ \E u, o \in Users, m \in DealMsgs : CreateDeal(u, o, m)
    \/ \E u \in Users, d \in DealIds, c \in Contents :
          UpdateDealContent(u, d, c)
    \/ \E u \in Users, d \in DealIds, x \in Amounts : AddCredit(u, d, x)

SystemProofNext ==
    \/ \E p \in Providers, d \in DealIds, s \in 1..DealBaseReplication :
          ProveLivenessSystem(p, d, s)
    \/ \E p \in Providers, d \in DealIds : ProveLivenessSystemFails(p, d)
    \/ \E p \in Providers : WithdrawRewards(p)

UnsignedNext ==
    \/ RegistryNext
    \/ SenderNext
    \/ SessionNext
    \/ SystemProofNext
    \/ PlacementNext
    \/ EndBlock

HistoryNext ==
    /\ IntentNext \/ ChargeNext \/ (UnsignedNext /\ NothingSigned)
    /\ RecordWindows

HistorySpec == Init /\ HistoryInit /\ [][HistoryNext]_allVars
-----------------------------------------------------------------------------
\* A signed intent takes effect at most once, and the two kinds of intent
\* share one nonce sequence: a create and an update never use the same nonce
\* (EvmNonces in CreateDealFromEvm and UpdateDealContentFromEvm).
IntentsTakeEffectOnce == \A i \in Intents : accepted[i] <= 1

\* A receipt the owner signed is charged to the escrow at most once: not again
\* in the same batch, in a later transaction, by another provider or as part
\* of a download session with the same nonce (ReceiptNoncesByDealFile in
\* ProveLiveness).
ReceiptChargedOnce == \A c \in Charges : paid[c] <= 1

\* Only the account that signed pays: outside the slashing pass at most one
\* account loses coins in a step, and every coin it loses arrives in the
\* escrow of a deal or with the fee collector.
PaymentsArrive ==
    [][height' = height =>
       \A u \in Users :
          balance'[u] < balance[u] =>
             /\ \A v \in Users \ {u} : balance'[v] = balance[v]
             /\ balance[u] - balance'[u] =
                   (Cardinality(EscrowCoins') - Cardinality(EscrowCoins))
                   + (balance'[FeeCollector] - balance[FeeCollector])
      ]_allVars

\* The deal has a slot for each of its K+M shards.
SlotMapFull(deal) == Len(deal.slots) = deal.profile.k + deal.profile.m

\* Whoever earns for a proof of a Mode 2 deal with a full slot map holds an
\* ACTIVE slot of it: ProveLiveness credits no provider whose slot is under
\* repair, no candidate that has not taken over and no provider of a stripe
\* that SignalSaturation added.
OnlyActiveSlotsEarn ==
    [][\A dp \in Pairs :
          /\ ProofStep(dp)
          /\ deals[dp[1]].profile # NoProfile
          /\ SlotMapFull(deals[dp[1]])
          => \E i \in DOMAIN deals[dp[1]].slots :
                /\ deals[dp[1]].slots[i].provider = dp[2]
                /\ deals[dp[1]].slots[i].status = "ACTIVE"
      ]_allVars

\* CheckMissedProofs punishes one missed window once: a provider is slashed
\* for a deal only when more than ProofWindow blocks have passed since both
\* its last accepted proof and its last slash for that deal, even if it is
\* listed twice or left a slot and came back.
OneSlashPerWindow ==
    [][\A dp \in Pairs : SlashStep(dp) =>
          /\ height > provedAt[dp] + ProofWindow
          /\ slashedAt[dp] # 0 => height > slashedAt[dp] + ProofWindow
      ]_allVars

AssignedTo(dp) == dp[1] \in DOMAIN deals /\ dp[2] \in Assigned(deals[dp[1]])

\* A provider that stays assigned to an active deal never goes unpunished for
\* long: its last proof or slash, or the start of the deal, is at most
\* ProofWindow blocks back once the block has ended.
NobodyStaysOverdue ==
    [][height' # height =>
          \A dp \in Pairs :
             AssignedTo(dp) /\ Active(deals[dp[1]]) =>
                \/ height <= deals[dp[1]].start + ProofWindow
                \/ height <= lastProof'[dp] + ProofWindow
      ]_allVars
=============================================================================
