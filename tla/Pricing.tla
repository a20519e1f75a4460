------------------------------ MODULE Pricing ------------------------------
(***************************************************************************)
(* The arithmetic of nilchain's economics: what a term deposit, a           *)
(* retrieval, its settlement, a bandwidth receipt and a liveness proof are   *)
(* worth.  Every operator is pure; NilChain.tla calls them from its handlers.*)
(*                                                                         *)
(* Fixed-width integers keep their width: WordSize is the number of values   *)
(* of a uint64 (2^64 in the code, smaller for TLC, whose integers have 32    *)
(* bits).  Amounts of coins are math.Int in the code and unbounded here.     *)
(***************************************************************************)
EXTENDS Integers

CONSTANTS
    WordSize,       \* number of values of a uint64
    PriceScale,     \* LegacyDec: a storage price p means p / PriceScale coins
    BytesPerUnit,   \* bytes of bandwidth per coin (1024 in the code)
    InitialReward,  \* storage reward before the first halving (1000000)
    ZeroAfter,      \* number of halvings after which the reward is 0 (64)
    PlatinumBlocks, \* latency bound of tier 0 (1)
    GoldBlocks,     \* latency bound of tier 1 (5)
    SilverBlocks    \* latency bound of tier 2 (10)

ASSUME PricingAssumption ==
    /\ WordSize \in Nat \ {0}
    /\ PriceScale \in Nat \ {0}
    /\ BytesPerUnit \in Nat \ {0}
    /\ InitialReward \in Nat
    /\ ZeroAfter \in Nat
    /\ {PlatinumBlocks, GoldBlocks, SilverBlocks} \subseteq Nat
    /\ PlatinumBlocks < GoldBlocks /\ GoldBlocks < SilverBlocks

CeilDiv(a, b) == (a + b - 1) \div b

\* uint64 addition and the conversion int64(x) of a uint64.
AddWord(a, b) == (a + b) % WordSize
Int64(x) == IF x < WordSize \div 2 THEN x ELSE x - WordSize

\* The deposit for growing a deal by deltaSize bytes over its whole term; a
\* product that is not positive is not charged.
TermDeposit(price, deltaSize, duration) ==
    LET costDec == price * Int64(deltaSize) * Int64(duration)
    IN  IF costDec > 0 THEN CeilDiv(costDec, PriceScale) ELSE 0

\* The fee an OpenRetrievalSession locks for the blobs it asks for.
VariableFee(pricePerBlob, blobs) == pricePerBlob * blobs

\* The part of a locked fee that settlement burns: rounded up, never more
\* than the fee.
BurnShare(variable, burnBps) ==
    LET burn == CeilDiv(variable * burnBps, 10000)
    IN  IF burnBps = 0 THEN 0 ELSE IF burn > variable THEN variable ELSE burn

\* The price of the bytes a user receipt (or a batch of them) acknowledges,
\* at least one coin.
BandwidthPayment(bytes) ==
    LET units == AddWord(bytes, BytesPerUnit - 1) \div BytesPerUnit
    IN  IF units = 0 THEN 1 ELSE units

Tier(latency) ==
    IF latency <= PlatinumBlocks THEN 0
    ELSE IF latency <= GoldBlocks THEN 1
    ELSE IF latency <= SilverBlocks THEN 2
    ELSE 3

\* Percentage of the decayed reward a proof of this tier earns.
RewardMultiplier(tier) ==
    IF tier = 0 THEN 100 ELSE IF tier = 1 THEN 80 ELSE IF tier = 2 THEN 50 ELSE 0

\* uint64(1) << n, which for n < 64 never shifts the bit out.
Divisor(n) ==
    LET shift[i \in 0..n] == IF i = 0 THEN 1 ELSE 2 * shift[i - 1]
    IN  shift[n]

DecayedReward(height, halvingInterval) ==
    LET decayFactor == height \div halvingInterval
    IN  IF decayFactor >= ZeroAfter
        THEN 0
        ELSE InitialReward \div Divisor(decayFactor)

StorageReward(height, halvingInterval, latency) ==
    (DecayedReward(height, halvingInterval) * RewardMultiplier(Tier(latency)))
        \div 100
=============================================================================
