--------------------------- MODULE NilChainProofs ---------------------------
(***************************************************************************)
(* Proofs about NilChain for every value of its constants: the stores of the *)
(* keeper keep their types, and the placement of deals is sound.             *)
(***************************************************************************)
EXTENDS NilChain, FiniteSetTheorems, SequenceTheorems, WellFoundedInduction,
        TLAPS
-----------------------------------------------------------------------------
(***************************************************************************)
(* The arithmetic of Pricing.                                                *)
(***************************************************************************)
\* Rounding up a natural number of parts gives a natural number.
LEMMA CeilDivType ==
    ASSUME NEW a \in Nat, NEW b \in Nat \ {0}
    PROVE  CeilDiv(a, b) \in Nat
  <1>1. a + b - 1 \in Nat
    OBVIOUS
  <1>2. QED
    BY <1>1 DEF CeilDiv

\* uint64 addition never leaves the word.
LEMMA AddWordType ==
    ASSUME NEW a \in Nat, NEW b \in Nat
    PROVE  AddWord(a, b) \in Nat
  BY PricingAssumption DEF AddWord

\* A conversion to int64 gives an integer, possibly a negative one.
LEMMA Int64Type ==
    ASSUME NEW x \in Nat
    PROVE  Int64(x) \in Int
  BY PricingAssumption DEF Int64

\* A term deposit is never negative, even when a conversion to int64 wraps.
LEMMA TermDepositType ==
    ASSUME NEW price \in Nat, NEW delta \in Nat, NEW duration \in Nat
    PROVE  TermDeposit(price, delta, duration) \in Nat
  <1> DEFINE costDec == price * Int64(delta) * Int64(duration)
  <1>1. costDec \in Int
    BY Int64Type
  <1>2. costDec > 0 => CeilDiv(costDec, PriceScale) \in Nat
    BY <1>1, CeilDivType, PricingAssumption
  <1>3. QED
    BY <1>2 DEF TermDeposit

\* Settlement never burns more than the fee it splits.
LEMMA BurnShareType ==
    ASSUME NEW variable \in Nat, NEW bps \in Nat
    PROVE  /\ BurnShare(variable, bps) \in Nat
           /\ BurnShare(variable, bps) <= variable
  <1>1. CeilDiv(variable * bps, 10000) \in Nat
    BY CeilDivType
  <1>2. QED
    BY <1>1 DEF BurnShare

\* Acknowledged bytes always cost at least one coin.
LEMMA BandwidthPaymentType ==
    ASSUME NEW bytes \in Nat
    PROVE  BandwidthPayment(bytes) \in Nat \ {0}
  <1>1. BytesPerUnit - 1 \in Nat
    BY PricingAssumption
  <1>2. AddWord(bytes, BytesPerUnit - 1) \in Nat
    BY <1>1, AddWordType
  <1>3. AddWord(bytes, BytesPerUnit - 1) \div BytesPerUnit \in Nat
    BY <1>2, PricingAssumption
  <1>4. QED
    BY <1>3 DEF BandwidthPayment

\* f follows the definition of Divisor up to m.
Shifted(f, m) == f = [i \in 0..m |-> IF i = 0 THEN 1 ELSE 2 * f[i - 1]]

\* A one shifted m times can be shifted once more.
LEMMA ShiftGoesOn ==
    ASSUME NEW m \in Nat, NEW f, Shifted(f, m) PROVE \E g : Shifted(g, m + 1)
  <1>1. PICK g : g = [i \in 0..m + 1 |-> IF i = m + 1 THEN 2 * f[m] ELSE f[i]]
    OBVIOUS
  <1>2. \A i \in 0..m : g[i] = f[i]
    BY <1>1
  <1>3. DOMAIN g = 0..m + 1 /\ g = [i \in 0..m + 1 |-> g[i]]
    BY <1>1
  <1>4. ASSUME NEW i \in 0..m + 1 PROVE g[i] = IF i = 0 THEN 1 ELSE 2 * g[i - 1]
    <2>1. CASE i = m + 1
      BY <1>1, <1>2, <2>1
    <2>2. CASE i # m + 1
      <3>1. i \in 0..m /\ (i # 0 => i - 1 \in 0..m)
        BY <2>2
      <3>2. f[i] = IF i = 0 THEN 1 ELSE 2 * f[i - 1]
        BY <3>1 DEF Shifted
      <3>3. QED
        BY <1>2, <3>1, <3>2
    <2>3. QED
      BY <2>1, <2>2
  <1>5. Shifted(g, m + 1)
    BY <1>3, <1>4 DEF Shifted
  <1>6. QED
    BY <1>5

\* A one can be shifted any number of times: there is no least it cannot.
LEMMA ShiftExists ==
    ASSUME NEW m \in Nat PROVE \E f : Shifted(f, m)
  <1>1. SUFFICES ASSUME ~ \E f : Shifted(f, m) PROVE FALSE
    OBVIOUS
  <1>2. PICK S : S = {n \in Nat : ~ \E f : Shifted(f, n)}
    OBVIOUS
  <1>3. S \subseteq Nat /\ m \in S
    BY <1>1, <1>2
  <1>4. PICK n \in S : \A x \in Nat : <<x, n>> \in OpToRel(<, Nat) => x \notin S
    BY <1>3, NatLessThanWellFounded, WFMin
  <1>5. n # 0
    <2>1. PICK f : f = [i \in 0..0 |-> 1]
      OBVIOUS
    <2>2. Shifted(f, 0)
      BY <2>1 DEF Shifted
    <2>3. QED
      BY <1>2, <2>2
  <1>6. n - 1 \in Nat /\ <<n - 1, n>> \in OpToRel(<, Nat)
    BY <1>3, <1>5 DEF OpToRel
  <1>7. n - 1 \notin S
    BY <1>4, <1>6
  <1>8. PICK f : Shifted(f, n - 1)
    BY <1>2, <1>6, <1>7
  <1>9. \E g : Shifted(g, (n - 1) + 1)
    BY <1>6, <1>8, ShiftGoesOn
  <1>10. (n - 1) + 1 = n
    BY <1>3
  <1>11. QED
    BY <1>2, <1>4, <1>9, <1>10

\* The bit is never lost: there is no least shift after which it is.
LEMMA ShiftedType ==
    ASSUME NEW m \in Nat, NEW f, Shifted(f, m) PROVE f[m] \in Nat \ {0}
  <1>1. SUFFICES ASSUME f[m] \notin Nat \ {0} PROVE FALSE
    OBVIOUS
  <1>2. PICK S : S = {i \in 0..m : f[i] \notin Nat \ {0}}
    OBVIOUS
  <1>3. S \subseteq Nat /\ m \in S
    BY <1>1, <1>2
  <1>4. PICK n \in S : \A x \in Nat : <<x, n>> \in OpToRel(<, Nat) => x \notin S
    BY <1>3, NatLessThanWellFounded, WFMin
  <1>5. n \in 0..m
    BY <1>2
  <1>6. f[n] = IF n = 0 THEN 1 ELSE 2 * f[n - 1]
    BY <1>5 DEF Shifted
  <1>7. n # 0
    BY <1>2, <1>6
  <1>8. n - 1 \in Nat /\ <<n - 1, n>> \in OpToRel(<, Nat)
    BY <1>3, <1>7 DEF OpToRel
  <1>9. n - 1 \notin S
    BY <1>4, <1>8
  <1>10. n - 1 \in 0..m
    BY <1>5, <1>7
  <1>11. f[n - 1] \in Nat \ {0}
    BY <1>2, <1>9, <1>10
  <1>12. QED
    BY <1>2, <1>6, <1>7, <1>11

\* The divisor of the halving schedule is positive, so the reward can be divided.
LEMMA DivisorType ==
    ASSUME NEW n \in Nat PROVE Divisor(n) \in Nat \ {0}
  <1>1. \E f : Shifted(f, n)
    BY ShiftExists
  <1>2. Shifted(CHOOSE f : Shifted(f, n), n)
    BY <1>1
  <1>3. Divisor(n) = (CHOOSE f : Shifted(f, n))[n]
    BY DEF Divisor, Shifted
  <1>4. QED
    BY <1>2, <1>3, ShiftedType

\* The storage reward is a natural number at every height and latency.
LEMMA StorageRewardType ==
    ASSUME NEW h \in Nat, NEW interval \in Nat \ {0}, NEW latency \in Int
    PROVE  StorageReward(h, interval, latency) \in Nat
  <1>1. h \div interval \in Nat
    OBVIOUS
  <1>2. Divisor(h \div interval) \in Nat \ {0}
    BY <1>1, DivisorType
  <1>3. DecayedReward(h, interval) \in Nat
    BY <1>1, <1>2, PricingAssumption DEF DecayedReward
  <1>4. RewardMultiplier(Tier(latency)) \in Nat
    BY DEF RewardMultiplier
  <1>5. DecayedReward(h, interval) * RewardMultiplier(Tier(latency)) \in Nat
    BY <1>3, <1>4
  <1>6. QED
    BY <1>5 DEF StorageReward
-----------------------------------------------------------------------------
(***************************************************************************)
(* The bytes of a batch of receipts.  What the recursion of BytesUpTo         *)
(* computes is found by least counterexamples: first that it has a solution, *)
(* then that the solution has only natural numbers.                          *)
(***************************************************************************)
\* f follows the definition of BytesUpTo(b) up to m.
Summed(f, b, m) ==
    f = [n \in 0..m |-> IF n = 0 THEN 0 ELSE f[n - 1] + b[n].bytes]

\* A sum of no receipts exists.
LEMMA SumStarts == ASSUME NEW b PROVE \E f : Summed(f, b, 0)
  <1>1. PICK f : f = [n \in 0..0 |-> 0]
    OBVIOUS
  <1>2. Summed(f, b, 0)
    BY <1>1 DEF Summed
  <1>3. QED
    BY <1>2

\* A sum of m receipts extends to one of m + 1.
LEMMA SumGoesOn ==
    ASSUME NEW b, NEW m \in Nat, NEW f, Summed(f, b, m)
    PROVE  \E g : Summed(g, b, m + 1)
  <1>1. PICK g : g = [n \in 0..m + 1 |->
                         IF n = m + 1 THEN f[m] + b[m + 1].bytes ELSE f[n]]
    OBVIOUS
  <1>2. \A n \in 0..m : g[n] = f[n]
    BY <1>1
  <1>3. DOMAIN g = 0..m + 1 /\ g = [n \in 0..m + 1 |-> g[n]]
    BY <1>1
  <1>4. ASSUME NEW n \in 0..m + 1
        PROVE  g[n] = IF n = 0 THEN 0 ELSE g[n - 1] + b[n].bytes
    <2>1. CASE n = m + 1
      BY <1>1, <1>2, <2>1
    <2>2. CASE n # m + 1
      <3>1. n \in 0..m /\ (n # 0 => n - 1 \in 0..m)
        BY <2>2
      <3>2. f[n] = IF n = 0 THEN 0 ELSE f[n - 1] + b[n].bytes
        BY <3>1 DEF Summed
      <3>3. QED
        BY <1>2, <3>1, <3>2
    <2>3. QED
      BY <2>1, <2>2
  <1>5. Summed(g, b, m + 1)
    BY <1>3, <1>4 DEF Summed
  <1>6. QED
    BY <1>5

\* The recursion has a solution: there is no least m without.
LEMMA SumExists ==
    ASSUME NEW b, NEW m \in Nat PROVE \E f : Summed(f, b, m)
  <1>1. SUFFICES ASSUME ~ \E f : Summed(f, b, m) PROVE FALSE
    OBVIOUS
  <1>2. PICK S : S = {n \in Nat : ~ \E f : Summed(f, b, n)}
    OBVIOUS
  <1>3. S \subseteq Nat /\ m \in S
    BY <1>1, <1>2
  <1>4. PICK n \in S : \A x \in Nat : <<x, n>> \in OpToRel(<, Nat) => x \notin S
    BY <1>3, NatLessThanWellFounded, WFMin
  <1>5. n # 0
    BY <1>2, SumStarts
  <1>6. n - 1 \in Nat /\ <<n - 1, n>> \in OpToRel(<, Nat)
    BY <1>3, <1>5 DEF OpToRel
  <1>7. n - 1 \notin S
    BY <1>4, <1>6
  <1>8. PICK f : Summed(f, b, n - 1)
    BY <1>2, <1>6, <1>7
  <1>9. \E g : Summed(g, b, (n - 1) + 1)
    BY <1>6, <1>8, SumGoesOn
  <1>10. (n - 1) + 1 = n
    BY <1>3
  <1>11. QED
    BY <1>2, <1>4, <1>9, <1>10

\* Every sum over receipts is a natural number: there is no least one that is not.
LEMMA SummedType ==
    ASSUME NEW b \in Seq(Receipts), NEW f, Summed(f, b, Len(b)), NEW m \in 0..Len(b)
    PROVE  f[m] \in Nat
  <1>1. SUFFICES ASSUME f[m] \notin Nat PROVE FALSE
    OBVIOUS
  <1>2. PICK S : S = {n \in 0..Len(b) : f[n] \notin Nat}
    OBVIOUS
  <1>3. S \subseteq Nat /\ m \in S
    BY <1>1, <1>2
  <1>4. PICK n \in S : \A x \in Nat : <<x, n>> \in OpToRel(<, Nat) => x \notin S
    BY <1>3, NatLessThanWellFounded, WFMin
  <1>5. Len(b) \in Nat /\ n \in 0..Len(b)
    BY <1>2
  <1>6. f[n] = IF n = 0 THEN 0 ELSE f[n - 1] + b[n].bytes
    BY <1>5 DEF Summed
  <1>7. n # 0
    BY <1>2, <1>6
  <1>8. n - 1 \in Nat /\ <<n - 1, n>> \in OpToRel(<, Nat)
    BY <1>3, <1>7 DEF OpToRel
  <1>9. n - 1 \notin S
    BY <1>4, <1>8
  <1>10. n - 1 \in 0..Len(b) /\ n \in 1..Len(b)
    BY <1>5, <1>7
  <1>11. f[n - 1] \in Nat
    BY <1>2, <1>9, <1>10
  <1>12. b[n] \in Receipt
    BY <1>10, ElementOfSeq, NilChainAssumption
  <1>13. b[n].bytes \in Nat
    BY <1>12 DEF Receipt
  <1>14. QED
    BY <1>2, <1>6, <1>7, <1>13, <1>11

\* A batch acknowledges a natural number of bytes.
LEMMA TotalBytesType ==
    ASSUME NEW b \in Seq(Receipts)
    PROVE  TotalBytes(b) \in Nat
  <1>1. Len(b) \in Nat /\ Len(b) \in 0..Len(b)
    OBVIOUS
  <1>2. \E f : Summed(f, b, Len(b))
    BY <1>1, SumExists
  <1>3. Summed(CHOOSE f : Summed(f, b, Len(b)), b, Len(b))
    BY <1>2
  <1>4. TotalBytes(b) = (CHOOSE f : Summed(f, b, Len(b)))[Len(b)]
    BY DEF TotalBytes, BytesUpTo, Summed
  <1>5. QED
    BY <1>1, <1>3, <1>4, SummedType
-----------------------------------------------------------------------------
(***************************************************************************)
(* Deals and the lists of providers they are placed on.                      *)
(***************************************************************************)
\* A stored deal is a deal, and its id is one of DealIds.
LEMMA DealTyped ==
    ASSUME TypeOK, NEW d \in DOMAIN deals
    PROVE  deals[d] \in Deal /\ d \in DealIds /\ d \in 1..Len(deals)
  <1>1. deals \in Seq(Deal) /\ Len(deals) <= MaxDeals /\ MaxDeals \in Nat
    BY NilChainAssumption DEF TypeOK
  <1>2. Len(deals) \in Nat /\ DOMAIN deals = 1..Len(deals)
    BY <1>1, LenProperties
  <1>3. deals[d] \in Deal
    BY <1>1, <1>2, ElementOfSeq
  <1>4. QED
    BY <1>1, <1>2, <1>3 DEF DealIds

\* Storing a changed deal keeps the store typed and its ids.
LEMMA DealReplaced ==
    ASSUME TypeOK, NEW d \in DOMAIN deals, NEW new \in Deal,
           deals' = [deals EXCEPT ![d] = new]
    PROVE  /\ deals' \in Seq(Deal)
           /\ Len(deals') <= MaxDeals
           /\ DOMAIN deals' = DOMAIN deals
  <1>1. deals \in Seq(Deal) /\ Len(deals) <= MaxDeals /\ d \in 1..Len(deals)
    BY DealTyped DEF TypeOK
  <1>2. deals' \in Seq(Deal) /\ Len(deals') = Len(deals)
    BY <1>1, ExceptSeq
  <1>3. QED
    BY <1>1, <1>2

\* A deal whose escrow changes to another natural number is still a deal.
LEMMA EscrowChanged ==
    ASSUME NEW deal \in Deal, NEW e \in Nat
    PROVE  [deal EXCEPT !.escrow = e] \in Deal
  BY DEF Deal

\* The capabilities a provider may have do not include "none".
LEMMA NoneIsNoCapability == "none" \notin Capabilities
  BY DEF Capabilities

\* A function on 1..n is a sequence.
LEMMA FunctionIsSeq ==
    ASSUME NEW S, NEW n \in Nat, NEW f \in [1..n -> S]
    PROVE  f \in Seq(S)
  OBVIOUS

\* Every list AssignProviders may return is a list of providers.
LEMMA AssignedAreProviders ==
    ASSUME NEW hint, NEW count \in Nat,
           NEW assigned \in AssignProviders(hint, count)
    PROVE  assigned \in Seq(Providers)
  <1> DEFINE candidates == {p \in Registered : Suits(hint, capability[p])}
             available  == Cardinality(candidates)
             n          == IF available < count THEN available ELSE count
  <1>1. candidates \subseteq Providers
    BY DEF Registered
  <1>2. IsFiniteSet(candidates)
    BY <1>1, FS_Subset, NilChainAssumption
  <1>3. n \in Nat
    BY <1>2, FS_CardinalityType
  <1>4. assigned \in [1..n -> candidates]
    BY DEF AssignProviders
  <1>5. assigned \in Seq(candidates)
    <2> HIDE DEF candidates, n
    <2> QED  BY <1>3, <1>4, FunctionIsSeq
  <1>6. QED
    BY <1>1, <1>5, SeqMonotonic

\* The number of replicas a message asks for is a natural number.
LEMMA ReplicasType ==
    ASSUME NEW m \in DealMsgs
    PROVE  RequestedReplicas(m) \in Nat
  <1>1. m \in DealMsg
    BY NilChainAssumption
  <1>2. m.rs # NoProfile => m.rs.k + m.rs.m \in Nat
    BY <1>1 DEF DealMsg, Profile
  <1>3. m.replicas \in Nat /\ DealBaseReplication \in Nat
    BY <1>1, NilChainAssumption DEF DealMsg
  <1>4. QED
    BY <1>2, <1>3 DEF RequestedReplicas
-----------------------------------------------------------------------------
(***************************************************************************)
(* The bank.                                                                 *)
(***************************************************************************)
\* A transfer the sender can pay leaves no account negative.
LEMMA SendType ==
    ASSUME NEW b \in [Accounts -> Nat], NEW from \in Accounts,
           NEW to \in Accounts, NEW amount \in Nat, b[from] >= amount
    PROVE  Send(b, from, to, amount) \in [Accounts -> Nat]
  BY DEF Send

\* A burn the module account can pay leaves it non-negative.
LEMMA BurnType ==
    ASSUME NEW b \in [Accounts -> Nat], NEW amount \in Nat,
           b[Module] >= amount
    PROVE  BurnCoins(b, amount) \in [Accounts -> Nat]
  BY DEF BurnCoins, Accounts

\* Users, providers and the two module accounts have balances.
LEMMA AccountsInclude ==
    /\ Users \subseteq Accounts
    /\ Providers \subseteq Accounts
    /\ Module \in Accounts
    /\ FeeCollector \in Accounts
  BY DEF Accounts
-----------------------------------------------------------------------------
(***************************************************************************)
(* Type correctness, one lemma per action.                                   *)
(***************************************************************************)
\* RegisterProvider stores a capability and the initial reputation.
LEMMA RegisterProviderType ==
    ASSUME TypeOK, NEW p \in Providers, NEW c \in Capabilities,
           RegisterProvider(p, c)
    PROVE  TypeOK'
  BY NilChainAssumption
  DEF TypeOK, RegisterProvider, bankVars, nonceVars, healthVars

\* UpdateParams installs one of the parameter sets governance may choose.
LEMMA UpdateParamsType ==
    ASSUME TypeOK, NEW new \in ParamSets, UpdateParams(new)
    PROVE  TypeOK'
  <1>1. new \in Params
    BY NilChainAssumption
  <1>2. QED
    BY <1>1 DEF TypeOK, UpdateParams, bankVars, providerVars, nonceVars,
                healthVars

\* A deal made from a message, with an assigned list, is a deal.
LEMMA NewDealType ==
    ASSUME TypeOK, NEW owner \in Users, NEW m \in DealMsgs,
           NEW assigned \in Seq(Providers)
    PROVE  NewDeal(owner, m, assigned) \in Deal
  <1>1. m \in DealMsg
    BY NilChainAssumption
  <1>2. height \in Nat /\ m.duration \in Nat
    BY <1>1 DEF TypeOK, DealMsg
  <1>3. AddWord(height, m.duration) \in Nat
    BY <1>2, AddWordType
  <1>4. \A p \in Providers : InitialSlot(p) \in DealSlot
    BY DEF InitialSlot, DealSlot, SlotStatus
  <1> DEFINE slots == [i \in DOMAIN assigned |-> InitialSlot(assigned[i])]
  <1>5. Len(assigned) \in Nat /\ DOMAIN assigned = 1..Len(assigned)
    BY LenProperties
  <1>6. slots \in [1..Len(assigned) -> DealSlot]
    BY <1>4, <1>5, ElementOfSeq
  <1>7. slots \in Seq(DealSlot)
    BY <1>5, <1>6, FunctionIsSeq
  <1>8. <<>> \in Seq(DealSlot)
    OBVIOUS
  <1>9. m.escrow \in Nat /\ m.spend \in Nat /\ m.rs \in Profile \cup {NoProfile}
    BY <1>1 DEF DealMsg
  <1>10. (IF m.rs = NoProfile THEN <<>> ELSE slots) \in Seq(DealSlot)
    BY <1>7, <1>8
  <1> HIDE DEF slots
  <1>11. QED
    BY <1>2, <1>3, <1>5, <1>9, <1>10 DEF NewDeal, Deal, InitialEscrow, slots

\* OpenDeal moves coins the payer has and appends a deal.
LEMMA OpenDealType ==
    ASSUME TypeOK, NEW payer \in Users, NEW owner \in Users,
           NEW m \in DealMsgs, OpenDeal(payer, owner, m),
           evmNonce' \in [Users -> Nat],
           UNCHANGED <<sessionNonce, receiptNonce>>
    PROVE  TypeOK'
  <1>1. params.creationFee \in Nat /\ m.escrow \in Nat
    BY NilChainAssumption DEF TypeOK, Params, DealMsg
  <1>2. balance' \in [Accounts -> Nat]
    <2> DEFINE b == Send(balance, payer, FeeCollector, params.creationFee)
    <2>1. balance \in [Accounts -> Nat] /\ balance[payer] \in Nat
      BY AccountsInclude DEF TypeOK
    <2>2. balance[payer] >= params.creationFee + m.escrow
      BY DEF OpenDeal, CanPay
    <2>3. b \in [Accounts -> Nat]
      BY <1>1, <2>1, <2>2, SendType, AccountsInclude
    <2>4. payer # FeeCollector
      BY NilChainAssumption
    <2>5. b[payer] = balance[payer] - params.creationFee
      BY <2>1, <2>4, AccountsInclude DEF Send
    <2>6. b[payer] >= m.escrow
      BY <1>1, <2>1, <2>2, <2>5
    <2>7. balance' = Send(b, payer, Module, m.escrow)
      BY DEF OpenDeal
    <2> HIDE DEF b
    <2>8. QED
      BY <1>1, <2>3, <2>6, <2>7, SendType, AccountsInclude
  <1>3. PICK assigned \in AssignProviders(m.hint, RequestedReplicas(m)) :
          deals' = Append(deals, NewDeal(owner, m, assigned))
    BY DEF OpenDeal
  <1>4. NewDeal(owner, m, assigned) \in Deal
    BY ReplicasType, AssignedAreProviders, NewDealType
  <1>5. deals \in Seq(Deal) /\ Len(deals) < MaxDeals /\ MaxDeals \in Nat
    BY NilChainAssumption DEF TypeOK, OpenDeal
  <1>6. /\ deals' \in Seq(Deal)
        /\ Len(deals') = Len(deals) + 1
        /\ Len(deals) \in Nat
    BY <1>3, <1>4, <1>5, AppendProperties, LenProperties
  <1>7. Len(deals') <= MaxDeals /\ DOMAIN deals \subseteq DOMAIN deals'
    BY <1>5, <1>6
  <1>8. QED
    BY <1>2, <1>6, <1>7
    DEF TypeOK, OpenDeal, providerVars, healthVars

\* CreateDeal is OpenDeal and leaves the nonces alone.
LEMMA CreateDealType ==
    ASSUME TypeOK, NEW creator \in Users, NEW owner \in Users,
           NEW m \in DealMsgs, CreateDeal(creator, owner, m)
    PROVE  TypeOK'
  <1>1. UNCHANGED nonceVars /\ evmNonce \in [Users -> Nat]
    BY DEF CreateDeal, TypeOK
  <1>2. QED
    BY <1>1, OpenDealType DEF CreateDeal, nonceVars

\* Recording an intent's nonce keeps the nonces natural numbers.
LEMMA UseEvmNonceType ==
    ASSUME TypeOK, NEW signer \in Users, NEW nonce \in 1..MaxNonce,
           UseEvmNonce(signer, nonce)
    PROVE  /\ evmNonce' \in [Users -> Nat]
           /\ UNCHANGED <<sessionNonce, receiptNonce>>
  BY NilChainAssumption DEF TypeOK, UseEvmNonce

\* CreateDealFromEvm is OpenDeal after the nonce has been recorded.
LEMMA CreateDealFromEvmType ==
    ASSUME TypeOK, NEW signer \in Users, NEW nonce \in 1..MaxNonce,
           NEW m \in DealMsgs, CreateDealFromEvm(signer, nonce, m)
    PROVE  TypeOK'
  BY UseEvmNonceType, OpenDealType DEF CreateDealFromEvm

\* A step that changes the escrow of one deal only keeps the deals typed.
LEMMA EscrowStep ==
    ASSUME TypeOK, NEW d \in DOMAIN deals, NEW e \in Nat,
           deals' = [deals EXCEPT ![d].escrow = e]
    PROVE  /\ deals' \in Seq(Deal)
           /\ Len(deals') <= MaxDeals
           /\ DOMAIN deals' = DOMAIN deals
  <1>1. [deals[d] EXCEPT !.escrow = e] \in Deal
    BY DealTyped, EscrowChanged
  <1>2. deals' = [deals EXCEPT ![d] = [deals[d] EXCEPT !.escrow = e]]
    OBVIOUS
  <1>3. QED
    BY <1>1, <1>2, DealReplaced

\* AddCredit moves coins the sender has into the escrow of a deal.
LEMMA AddCreditType ==
    ASSUME TypeOK, NEW sender \in Users, NEW d \in DealIds,
           NEW amount \in Amounts, AddCredit(sender, d, amount)
    PROVE  TypeOK'
  <1>1. amount \in Nat /\ d \in DOMAIN deals
    BY NilChainAssumption DEF AddCredit
  <1>2. balance' \in [Accounts -> Nat]
    BY <1>1, SendType, AccountsInclude DEF TypeOK, AddCredit, CanPay
  <1>3. deals[d].escrow + amount \in Nat
    BY <1>1, DealTyped DEF Deal
  <1>4. deals' = [deals EXCEPT ![d].escrow = deals[d].escrow + amount]
    BY DEF AddCredit
  <1>5. /\ deals' \in Seq(Deal)
        /\ Len(deals') <= MaxDeals
        /\ DOMAIN deals' = DOMAIN deals
    BY <1>1, <1>3, <1>4, EscrowStep
  <1>6. QED
    BY <1>2, <1>5
    DEF TypeOK, AddCredit, providerVars, nonceVars, healthVars

\* The price of new content is never negative.
LEMMA DepositType ==
    ASSUME TypeOK, NEW deal \in Deal, NEW size \in Nat
    PROVE  Deposit(deal, size) \in Nat
  <1>1. /\ deal.size \in Nat /\ deal.start \in Nat /\ deal.end \in Nat
        /\ params.storagePrice \in Nat
    BY DEF TypeOK, Deal, Params
  <1>2. (deal.end - deal.start) % WordSize \in Nat
    BY <1>1, PricingAssumption
  <1>3. size > deal.size => size - deal.size \in Nat
    BY <1>1
  <1>4. QED
    BY <1>1, <1>2, <1>3, TermDepositType DEF Deposit

\* A deal with other content, escrow and generation is still a deal.
LEMMA ContentChanged ==
    ASSUME NEW deal \in Deal, NEW e \in Nat, NEW g \in Nat, NEW r \in Roots,
           NEW s \in Nat
    PROVE  [deal EXCEPT !.escrow = e, !.gen = g, !.root = r, !.size = s]
              \in Deal
  BY DEF Deal

\* CommitContent moves coins the sender has into the escrow of its deal and
\* replaces the deal's content.
LEMMA CommitContentType ==
    ASSUME TypeOK, NEW sender \in Users, NEW d \in DealIds, NEW c \in Contents,
           CommitContent(sender, d, c), evmNonce' \in [Users -> Nat],
           UNCHANGED <<sessionNonce, receiptNonce>>
    PROVE  TypeOK'
  <1> DEFINE cost == Deposit(deals[d], c.size)
             gen  == NextGen(deals[d], c.root)
  <1>1. /\ d \in DOMAIN deals
        /\ deals[d] \in Deal
        /\ c.root \in Roots /\ c.size \in Nat
    BY DealTyped, NilChainAssumption DEF CommitContent, Content
  <1>2. cost \in Nat
    BY <1>1, DepositType
  <1>3. gen \in Nat /\ deals[d].escrow \in Nat
    BY <1>1 DEF NextGen, Deal
  <1>4. /\ balance[sender] >= cost
        /\ balance' = Send(balance, sender, Module, cost)
        /\ deals' = [deals EXCEPT ![d].escrow = @ + cost, ![d].gen = gen,
                                  ![d].root = c.root, ![d].size = c.size]
    BY DEF CommitContent, CanPay
  <1> HIDE DEF cost, gen
  <1>5. balance' \in [Accounts -> Nat]
    BY <1>2, <1>4, SendType, AccountsInclude DEF TypeOK
  <1> DEFINE new == [deals[d] EXCEPT !.escrow = deals[d].escrow + cost,
                                     !.gen = gen, !.root = c.root,
                                     !.size = c.size]
  <1>6. new \in Deal
    <2>1. deals[d].escrow + cost \in Nat
      BY <1>2, <1>3
    <2>2. QED
      BY <1>1, <1>3, <2>1, ContentChanged
  <1>7. deals' = [deals EXCEPT ![d] = new]
    BY <1>1, <1>4
  <1> HIDE DEF new
  <1>8. /\ deals' \in Seq(Deal)
        /\ Len(deals') <= MaxDeals
        /\ DOMAIN deals' = DOMAIN deals
    BY <1>1, <1>6, <1>7, DealReplaced
  <1>9. QED
    BY <1>5, <1>8 DEF TypeOK, CommitContent, providerVars, healthVars

\* UpdateDealContent is CommitContent and leaves the nonces alone.
LEMMA UpdateDealContentType ==
    ASSUME TypeOK, NEW sender \in Users, NEW d \in DealIds, NEW c \in Contents,
           UpdateDealContent(sender, d, c)
    PROVE  TypeOK'
  <1>1. UNCHANGED nonceVars /\ evmNonce \in [Users -> Nat]
    BY DEF UpdateDealContent, TypeOK
  <1>2. QED
    BY <1>1, CommitContentType DEF UpdateDealContent, nonceVars

\* UpdateDealContentFromEvm is CommitContent after the nonce is recorded.
LEMMA UpdateDealContentFromEvmType ==
    ASSUME TypeOK, NEW signer \in Users, NEW nonce \in 1..MaxNonce,
           NEW d \in DealIds, NEW c \in Contents,
           UpdateDealContentFromEvm(signer, nonce, d, c)
    PROVE  TypeOK'
  BY UseEvmNonceType, CommitContentType DEF UpdateDealContentFromEvm
-----------------------------------------------------------------------------
\* Storing a session keeps the sessions typed.
LEMMA SetSessionType ==
    ASSUME TypeOK, NEW id \in SessionReqs, NEW s \in Session,
           sessions' = SetSession(id, s)
    PROVE  /\ DOMAIN sessions' = DOMAIN sessions \cup {id}
           /\ DOMAIN sessions' \subseteq SessionReqs
           /\ sessions' \in [DOMAIN sessions' -> Session]
  <1>1. /\ DOMAIN sessions \subseteq SessionReqs
        /\ sessions \in [DOMAIN sessions -> Session]
    BY DEF TypeOK
  <1>2. DOMAIN sessions' = DOMAIN sessions \cup {id}
    BY DEF SetSession
  <1>3. \A x \in DOMAIN sessions' : sessions'[x] \in Session
    BY <1>1, <1>2 DEF SetSession
  <1>4. sessions' \in [DOMAIN sessions' -> Session]
    BY <1>3 DEF SetSession
  <1>5. QED
    BY <1>1, <1>2, <1>4

\* The fields of a session request.
LEMMA SessionReqTyped ==
    ASSUME NEW id \in SessionReqs
    PROVE  /\ id.owner \in Users /\ id.deal \in DealIds
           /\ id.provider \in Providers /\ id.blobs \in Nat
           /\ id.nonce \in Nat
  BY NilChainAssumption DEF SessionReq

\* OpenRetrievalSession burns a fee the module account has and locks one the
\* escrow covers.
LEMMA OpenRetrievalSessionType ==
    ASSUME TypeOK, NEW sender \in Users, NEW id \in SessionReqs,
           OpenRetrievalSession(sender, id)
    PROVE  TypeOK'
  <1> DEFINE fee   == VariableFee(params.blobPrice, id.blobs)
             total == fee + params.baseFee
  <1>1. params.blobPrice \in Nat /\ params.baseFee \in Nat
    BY DEF TypeOK, Params
  <1>2. fee \in Nat /\ total \in Nat
    BY <1>1, SessionReqTyped DEF VariableFee
  <1>3. /\ id.deal \in DOMAIN deals
        /\ total <= deals[id.deal].escrow
        /\ balance[Module] >= params.baseFee
        /\ balance' = BurnCoins(balance, params.baseFee)
        /\ deals' = [deals EXCEPT ![id.deal].escrow = @ - total]
        /\ sessions' = SetSession(id, [status |-> "OPEN", locked |-> fee])
    BY DEF OpenRetrievalSession, EscrowCovers, CanPay
  <1> HIDE DEF fee, total
  <1>4. balance' \in [Accounts -> Nat]
    BY <1>1, <1>3, BurnType DEF TypeOK
  <1>5. deals[id.deal].escrow - total \in Nat
    BY <1>2, <1>3, DealTyped DEF Deal
  <1>6. deals' = [deals EXCEPT ![id.deal].escrow = deals[id.deal].escrow - total]
    BY <1>3
  <1>7. /\ deals' \in Seq(Deal)
        /\ Len(deals') <= MaxDeals
        /\ DOMAIN deals' = DOMAIN deals
    BY <1>3, <1>5, <1>6, EscrowStep
  <1>8. [status |-> "OPEN", locked |-> fee] \in Session
    BY <1>2 DEF Session, SessionStatus
  <1>9. /\ DOMAIN sessions' = DOMAIN sessions \cup {id}
        /\ DOMAIN sessions' \subseteq SessionReqs
        /\ sessions' \in [DOMAIN sessions' -> Session]
    BY <1>3, <1>8, SetSessionType
  <1>10. sessionNonce' \in [Users \X DealIds \X Providers -> Nat]
    BY SessionReqTyped DEF TypeOK, OpenRetrievalSession, SessionNonceKey
  <1>11. \A x \in DOMAIN sessions' : x.deal \in DOMAIN deals'
    BY <1>3, <1>7, <1>9 DEF TypeOK
  <1>12. QED
    BY <1>4, <1>7, <1>9, <1>10, <1>11
    DEF TypeOK, OpenRetrievalSession, providerVars, healthVars

\* Counting retrievals and failures keeps the heat counters natural numbers.
LEMMA IncrementHeatType ==
    ASSUME TypeOK, NEW d \in DealIds, NEW bytes \in Nat, NEW ok \in Nat,
           NEW failed \in Nat
    PROVE  IncrementHeat(heat, d, bytes, ok, failed) \in [DealIds -> Heat]
  <1> DEFINE new == [heat[d] EXCEPT !.bytes  = heat[d].bytes + bytes,
                                    !.ok     = heat[d].ok + ok,
                                    !.failed = heat[d].failed + failed]
  <1>1. heat \in [DealIds -> Heat] /\ heat[d] \in Heat
    BY DEF TypeOK
  <1>2. /\ heat[d].bytes + bytes \in Nat
        /\ heat[d].ok + ok \in Nat
        /\ heat[d].failed + failed \in Nat
    BY <1>1 DEF Heat
  <1>3. new \in Heat
    BY <1>1, <1>2 DEF Heat
  <1>4. IncrementHeat(heat, d, bytes, ok, failed) = [heat EXCEPT ![d] = new]
    BY <1>1 DEF IncrementHeat
  <1> HIDE DEF new
  <1>5. QED
    BY <1>1, <1>3, <1>4

\* The burned share is a natural number of basis points.
LEMMA BurnBpsType == \A q \in Params : q.burnBps \in Nat
  <1>1. SUFFICES ASSUME NEW q \in Params PROVE q.burnBps \in Nat
    OBVIOUS
  <1>2. q.burnBps \in BasisPoints
    BY DEF Params
  <1>3. BasisPoints \subseteq Nat
    BY DEF BasisPoints
  <1>4. QED
    BY <1>2, <1>3

\* Settlement pays out exactly the locked fee, which the module account has.
LEMMA SettleType ==
    ASSUME TypeOK, NEW id \in DOMAIN sessions,
           balance[Module] >= sessions[id].locked
    PROVE  Settle(balance, id) \in [Accounts -> Nat]
  <1> DEFINE variable == sessions[id].locked
             burn     == BurnShare(variable, params.burnBps)
             b        == BurnCoins(balance, burn)
  <1>1. variable \in Nat
    BY DEF TypeOK, Session
  <1>2. params.burnBps \in Nat
    BY BurnBpsType DEF TypeOK
  <1>3. burn \in Nat /\ burn <= variable
    BY <1>1, <1>2, BurnShareType
  <1>4. /\ balance \in [Accounts -> Nat]
        /\ balance[Module] \in Nat
        /\ balance[Module] >= variable
    BY AccountsInclude DEF TypeOK
  <1>5. Settle(balance, id) = Send(b, Module, id.provider, variable - burn)
    BY DEF Settle
  <1>6. id.provider \in Accounts
    BY SessionReqTyped, AccountsInclude DEF TypeOK
  <1> HIDE DEF variable, burn
  <1>7. b \in [Accounts -> Nat]
    BY <1>1, <1>3, <1>4, BurnType
  <1>8. b[Module] = balance[Module] - burn
    BY <1>4, AccountsInclude DEF BurnCoins
  <1>9. variable - burn \in Nat /\ b[Module] >= variable - burn
    BY <1>1, <1>3, <1>4, <1>8
  <1> HIDE DEF b
  <1>10. QED
    BY <1>5, <1>6, <1>7, <1>9, SendType, AccountsInclude

\* Moving a session to another status keeps every store typed.
LEMMA AdvanceSessionType ==
    ASSUME TypeOK, NEW id \in DOMAIN sessions, NEW status \in SessionStatus,
           AdvanceSession(id, status)
    PROVE  TypeOK'
  <1>1. id \in SessionReqs /\ id.deal \in DOMAIN deals
    BY DEF TypeOK
  <1>2. LockedAfter(id, status) \in Nat
    BY DEF TypeOK, Session, LockedAfter
  <1>3. [status |-> status, locked |-> LockedAfter(id, status)] \in Session
    BY <1>2 DEF Session
  <1>4. /\ DOMAIN sessions' = DOMAIN sessions \cup {id}
        /\ DOMAIN sessions' \subseteq SessionReqs
        /\ sessions' \in [DOMAIN sessions' -> Session]
    BY <1>1, <1>3, SetSessionType DEF AdvanceSession
  <1>5. UNCHANGED <<height, params, providerVars, deals, nonceVars, lastProof,
                    failures, proofLog>>
    BY DEF AdvanceSession
  <1>6. \A x \in DOMAIN sessions' : x.deal \in DOMAIN deals'
    BY <1>1, <1>4, <1>5 DEF TypeOK
  <1>7. balance' \in [Accounts -> Nat] /\ heat' \in [DealIds -> Heat]
    <2>1. CASE status = "COMPLETED"
      <3>1. /\ balance[Module] >= sessions[id].locked
            /\ balance' = Settle(balance, id)
            /\ heat' = IncrementHeat(heat, id.deal, id.blobs * BlobSize, 1, 0)
        BY <2>1 DEF AdvanceSession, CanPay
      <3>2. id.deal \in DealIds /\ id.blobs \in Nat /\ BlobSize \in Nat
        BY <1>1, SessionReqTyped, NilChainAssumption
      <3>3. id.blobs * BlobSize \in Nat
        BY <3>2
      <3>4. heat' \in [DealIds -> Heat]
        BY <3>1, <3>2, <3>3, IncrementHeatType
      <3>5. QED
        BY <3>1, <3>4, SettleType
    <2>2. CASE status # "COMPLETED"
      BY <2>2 DEF AdvanceSession, TypeOK
    <2>3. QED
      BY <2>1, <2>2
  <1>8. QED
    BY <1>4, <1>5, <1>6, <1>7 DEF TypeOK, providerVars, nonceVars

\* ConfirmRetrievalSession moves a session forward.
LEMMA ConfirmRetrievalSessionType ==
    ASSUME TypeOK, NEW sender \in Users, NEW id \in SessionReqs,
           ConfirmRetrievalSession(sender, id)
    PROVE  TypeOK'
  <1>1. id \in DOMAIN sessions /\ sessions[id].status \in SessionStatus
    BY DEF ConfirmRetrievalSession, TypeOK, Session
  <1>2. Confirmed(sessions[id].status) \in SessionStatus
    BY <1>1 DEF Confirmed, SessionStatus
  <1>3. QED
    BY <1>1, <1>2, AdvanceSessionType DEF ConfirmRetrievalSession

\* SubmitRetrievalSessionProof moves a session forward.
LEMMA SubmitRetrievalSessionProofType ==
    ASSUME TypeOK, NEW sender \in Providers, NEW id \in SessionReqs,
           SubmitRetrievalSessionProof(sender, id)
    PROVE  TypeOK'
  <1>1. id \in DOMAIN sessions /\ sessions[id].status \in SessionStatus
    BY DEF SubmitRetrievalSessionProof, TypeOK, Session
  <1>2. Proved(sessions[id].status) \in SessionStatus
    BY <1>1 DEF Proved, SessionStatus
  <1>3. QED
    BY <1>1, <1>2, AdvanceSessionType DEF SubmitRetrievalSessionProof

\* Logging a proof summary keeps the counters natural numbers.
LEMMA LogProofType ==
    ASSUME TypeOK, NEW d \in DealIds, NEW p \in Providers, NEW valid \in BOOLEAN
    PROVE  LogProof(proofLog, d, p, valid) \in [Pairs -> ProofCounts]
  <1> DEFINE dp == <<d, p>>
             good == [proofLog[dp] EXCEPT !.valid = proofLog[dp].valid + 1]
             bad  == [proofLog[dp] EXCEPT !.invalid = proofLog[dp].invalid + 1]
  <1>1. dp \in Pairs
    BY DEF Pairs
  <1>2. proofLog \in [Pairs -> ProofCounts] /\ proofLog[dp] \in ProofCounts
    BY <1>1 DEF TypeOK
  <1>3. proofLog[dp].valid + 1 \in Nat /\ proofLog[dp].invalid + 1 \in Nat
    BY <1>2 DEF ProofCounts
  <1>4. good \in ProofCounts /\ bad \in ProofCounts
    BY <1>2, <1>3 DEF ProofCounts
  <1>5. LogProof(proofLog, d, p, valid) =
          IF valid THEN [proofLog EXCEPT ![dp] = good]
                   ELSE [proofLog EXCEPT ![dp] = bad]
    BY <1>2 DEF LogProof
  <1> HIDE DEF dp, good, bad
  <1>6. QED
    BY <1>1, <1>2, <1>4, <1>5

\* CancelRetrievalSession returns the locked fee to the escrow.
LEMMA CancelRetrievalSessionType ==
    ASSUME TypeOK, NEW sender \in Users, NEW id \in SessionReqs,
           CancelRetrievalSession(sender, id)
    PROVE  TypeOK'
  <1>1. id \in DOMAIN sessions /\ id.deal \in DOMAIN deals
    BY DEF CancelRetrievalSession, TypeOK
  <1>2. deals[id.deal].escrow + sessions[id].locked \in Nat
    <2>1. deals[id.deal].escrow \in Nat
      BY <1>1, DealTyped DEF Deal
    <2>2. sessions[id].locked \in Nat
      BY <1>1 DEF TypeOK, Session
    <2>3. QED
      BY <2>1, <2>2
  <1>3. deals' = [deals EXCEPT ![id.deal].escrow =
                                  deals[id.deal].escrow + sessions[id].locked]
    BY DEF CancelRetrievalSession
  <1>4. /\ deals' \in Seq(Deal)
        /\ Len(deals') <= MaxDeals
        /\ DOMAIN deals' = DOMAIN deals
    BY <1>1, <1>2, <1>3, EscrowStep
  <1>5. [status |-> "CANCELED", locked |-> 0] \in Session
    BY DEF Session, SessionStatus
  <1>6. /\ DOMAIN sessions' = DOMAIN sessions \cup {id}
        /\ DOMAIN sessions' \subseteq SessionReqs
        /\ sessions' \in [DOMAIN sessions' -> Session]
    BY <1>5, SetSessionType DEF CancelRetrievalSession
  <1>7. \A x \in DOMAIN sessions' : x.deal \in DOMAIN deals'
    BY <1>1, <1>4, <1>6 DEF TypeOK
  <1>8. /\ proofLog' \in [Pairs -> ProofCounts]
        /\ heat' \in [DealIds -> Heat]
        /\ failures' \in [Pairs -> Nat]
    <2>1. id.deal \in DealIds /\ id.provider \in Providers
      BY SessionReqTyped
    <2>2. LogProof(proofLog, id.deal, id.provider, FALSE)
             \in [Pairs -> ProofCounts]
      BY <2>1, LogProofType
    <2>3. IncrementHeat(heat, id.deal, 0, 0, 1) \in [DealIds -> Heat]
      BY <2>1, IncrementHeatType
    <2>4. CountFailure(failures, id.deal, id.provider) \in [Pairs -> Nat]
      BY <2>1 DEF TypeOK, CountFailure, Pairs
    <2>5. QED
      BY <2>2, <2>3, <2>4 DEF CancelRetrievalSession, TypeOK
  <1>9. QED
    BY <1>4, <1>6, <1>7, <1>8
    DEF TypeOK, CancelRetrievalSession, bankVars, providerVars, nonceVars

-----------------------------------------------------------------------------
\* The reputation a proof leaves behind is a natural number.
LEMMA ReputationAfterType ==
    ASSUME TypeOK, NEW p \in Providers, NEW d
    PROVE  ReputationAfter(p, d) \in [Providers -> Nat]
  BY DEF TypeOK, ReputationAfter

\* What every accepted proof keeps typed; the receipt nonces and the heat are
\* the business of its three kinds.
LEMMA AcceptProofType ==
    ASSUME TypeOK, NEW p \in Providers, NEW d \in DealIds, NEW payment \in Nat,
           AcceptProof(p, d, payment),
           receiptNonce' \in [DealIds \X Files -> Nat],
           heat' \in [DealIds -> Heat]
    PROVE  TypeOK'
  <1> DEFINE reward == StorageReward(height, params.halving, Latency(d))
  <1>1. /\ d \in DOMAIN deals
        /\ params.halving # 0
        /\ payment <= deals[d].escrow
        /\ deals' = [deals EXCEPT ![d].escrow = deals[d].escrow - payment]
        /\ rewards' = [rewards EXCEPT ![p] = @ + payment + reward]
        /\ reputation' = ReputationAfter(p, d)
        /\ lastProof' = [lastProof EXCEPT ![<<d, p>>] = height]
        /\ failures' = ClearFailures(failures, d, p)
        /\ proofLog' = LogProof(proofLog, d, p, TRUE)
    BY DEF AcceptProof, MayProve, EscrowCovers
  <1>2. deals[d].escrow \in Nat /\ deals[d].start \in Nat
    BY <1>1, DealTyped DEF Deal
  <1>3. deals[d].escrow - payment \in Nat
    BY <1>1, <1>2
  <1>4. /\ deals' \in Seq(Deal)
        /\ Len(deals') <= MaxDeals
        /\ DOMAIN deals' = DOMAIN deals
    BY <1>1, <1>3, EscrowStep
  <1>5. height \in Nat /\ params \in Params
    BY DEF TypeOK
  <1>6. params.halving \in Nat \ {0} /\ Latency(d) \in Int
    BY <1>1, <1>2, <1>5 DEF Params, Latency
  <1>7. reward \in Nat
    BY <1>5, <1>6, StorageRewardType
  <1> HIDE DEF reward
  <1>8. rewards' \in [Providers -> Nat]
    BY <1>1, <1>7 DEF TypeOK
  <1>9. reputation' \in [Providers -> Nat]
    BY <1>1, ReputationAfterType
  <1>10. lastProof' \in [Pairs -> Nat] /\ failures' \in [Pairs -> Nat]
    BY <1>1, <1>5 DEF TypeOK, Pairs, ClearFailures
  <1>11. proofLog' \in [Pairs -> ProofCounts]
    BY <1>1, LogProofType
  <1>12. QED
    BY <1>4, <1>8, <1>9, <1>10, <1>11 DEF TypeOK, AcceptProof, bankVars

\* A system proof costs nothing and uses no receipt.
LEMMA ProveLivenessSystemType ==
    ASSUME TypeOK, NEW p \in Providers, NEW d \in DealIds, NEW slot,
           ProveLivenessSystem(p, d, slot)
    PROVE  TypeOK'
  BY AcceptProofType DEF ProveLivenessSystem, TypeOK

\* A failed system proof counts a failure.
LEMMA ProveLivenessSystemFailsType ==
    ASSUME TypeOK, NEW p \in Providers, NEW d \in DealIds,
           ProveLivenessSystemFails(p, d)
    PROVE  TypeOK'
  <1>1. reputation' \in [Providers -> Nat]
    BY ReputationAfterType DEF ProveLivenessSystemFails
  <1>2. failures' \in [Pairs -> Nat]
    BY DEF TypeOK, ProveLivenessSystemFails, CountFailure, Pairs
  <1>3. QED
    BY <1>1, <1>2
    DEF TypeOK, ProveLivenessSystemFails, bankVars, nonceVars

\* Every non-empty set of natural numbers below a bound has a greatest
\* element: the bound minus the least distance to it.
LEMMA GreatestBelow ==
    ASSUME NEW n \in Nat, NEW S, S \subseteq 1..n, S # {}
    PROVE  \E i \in S : \A j \in S : j <= i
  <1> DEFINE T    == {n - i : i \in S}
             Less == {ss \in Nat \X Nat : ss[1] < ss[2]}
  <1>1. T \subseteq Nat /\ T # {}
    <2>1. \A i \in 1..n : n - i \in Nat
      OBVIOUS
    <2>2. QED
      BY <2>1
  <1>2. IsWellFoundedOn(Less, Nat)
    BY NatLessThanWellFounded DEF OpToRel
  <1>3. \E x \in T : \A y \in T : ~(<<y, x>> \in Less)
    <2> HIDE DEF T, Less
    <2> QED  BY <1>1, <1>2, WFMin
  <1>4. \A x \in Nat, y \in Nat : ~(<<y, x>> \in Less) => x <= y
    OBVIOUS
  <1>5. PICK x \in T : \A y \in T : x <= y
    <2> HIDE DEF T, Less
    <2> QED  BY <1>1, <1>3, <1>4
  <1>6. PICK i \in S : x = n - i
    BY <1>5
  <1>7. \A j \in S : j <= i
    <2> TAKE j \in S
    <2>1. n - j \in T
      OBVIOUS
    <2>2. n - i <= n - j
      BY <1>5, <1>6, <2>1
    <2>3. i \in Nat /\ j \in Nat
      OBVIOUS
    <2>4. QED
      BY <2>2, <2>3
  <1>8. QED
    BY <1>7

\* The last receipt of a batch about a file it mentions is one of its
\* receipts, so its nonce is a natural number.
LEMMA LastReceiptType ==
    ASSUME NEW b \in Batches, NEW f, \E i \in DOMAIN b : b[i].file = f
    PROVE  LastReceiptOf(b, f).nonce \in Nat
  <1> DEFINE S == {i \in DOMAIN b : b[i].file = f}
             Last(i) == b[i].file = f /\ \A j \in DOMAIN b : b[j].file = f => j <= i
  <1>1. b \in Seq(Receipts)
    BY NilChainAssumption
  <1>2. Len(b) \in Nat /\ DOMAIN b = 1..Len(b)
    BY <1>1, LenProperties
  <1>3. S \subseteq 1..Len(b) /\ S # {}
    BY <1>2
  <1>4. \E i \in S : \A j \in S : j <= i
    BY <1>2, <1>3, GreatestBelow
  <1>5. \E i \in DOMAIN b : Last(i)
    BY <1>4
  <1> DEFINE last == CHOOSE i \in DOMAIN b : Last(i)
  <1>6. last \in DOMAIN b
    BY <1>5
  <1>7. LastReceiptOf(b, f) = b[last]
    BY DEF LastReceiptOf
  <1> HIDE DEF last
  <1>8. b[last] \in Receipts
    BY <1>1, <1>2, <1>6, ElementOfSeq
  <1>9. b[last] \in Receipt
    BY <1>8, NilChainAssumption
  <1>10. QED
    BY <1>7, <1>9 DEF Receipt

\* Receipts are paid for from the escrow and raise the nonces of their files.
LEMMA ProveLivenessReceiptsType ==
    ASSUME TypeOK, NEW p \in Providers, NEW d \in DealIds, NEW b \in Batches,
           ProveLivenessReceipts(p, d, b)
    PROVE  TypeOK'
  <1>1. TotalBytes(b) \in Nat /\ b \in Seq(Receipts)
    BY NilChainAssumption, TotalBytesType
  <1>2. Len(b) \in Nat
    BY <1>1, LenProperties
  <1>3. BandwidthPayment(TotalBytes(b)) \in Nat
    BY <1>1, BandwidthPaymentType
  <1>4. IncrementHeat(heat, d, TotalBytes(b), Len(b), 0) \in [DealIds -> Heat]
    BY <1>1, <1>2, IncrementHeatType
  <1>5. heat' \in [DealIds -> Heat]
    BY <1>4 DEF ProveLivenessReceipts
  <1>6. receiptNonce' \in [DealIds \X Files -> Nat]
    <2> DEFINE Mentioned(k) == k[1] = d /\ \E i \in DOMAIN b : b[i].file = k[2]
               nonce(k) == IF Mentioned(k) THEN LastReceiptOf(b, k[2]).nonce
                                           ELSE receiptNonce[k]
    <2>1. receiptNonce \in [DealIds \X Files -> Nat]
      BY DEF TypeOK
    <2>2. \A k \in DealIds \X Files : nonce(k) \in Nat
      BY <2>1, LastReceiptType
    <2>3. receiptNonce' = [k \in DealIds \X Files |-> nonce(k)]
      BY <2>1 DEF ProveLivenessReceipts
    <2> HIDE DEF nonce
    <2>4. QED
      BY <2>2, <2>3
  <1>7. AcceptProof(p, d, BandwidthPayment(TotalBytes(b)))
    BY DEF ProveLivenessReceipts
  <1>8. QED
    BY <1>3, <1>5, <1>6, <1>7, AcceptProofType

\* A download session is paid for and raises the nonce of its file.
LEMMA ProveLivenessSessionType ==
    ASSUME TypeOK, NEW p \in Providers, NEW d \in DealIds, NEW r \in Downloads,
           ProveLivenessSession(p, d, r)
    PROVE  TypeOK'
  <1>1. /\ r.bytes \in Nat /\ r.chunks \in Nat /\ r.nonce \in Nat
        /\ r.file \in Files
    BY NilChainAssumption DEF Download
  <1>2. BandwidthPayment(r.bytes) \in Nat
    BY <1>1, BandwidthPaymentType
  <1>3. heat' \in [DealIds -> Heat]
    BY <1>1, IncrementHeatType DEF ProveLivenessSession
  <1>4. receiptNonce' \in [DealIds \X Files -> Nat]
    BY <1>1 DEF ProveLivenessSession, TypeOK
  <1>5. AcceptProof(p, d, BandwidthPayment(r.bytes))
    BY DEF ProveLivenessSession
  <1>6. QED
    BY <1>2, <1>3, <1>4, <1>5, AcceptProofType

\* A withdrawal mints the reward.
LEMMA WithdrawRewardsType ==
    ASSUME TypeOK, NEW p \in Providers, WithdrawRewards(p)
    PROVE  TypeOK'
  <1>1. balance' \in [Accounts -> Nat]
    BY AccountsInclude DEF TypeOK, WithdrawRewards, PayRewards
  <1>2. rewards' \in [Providers -> Nat]
    BY DEF TypeOK, WithdrawRewards
  <1>3. QED
    BY <1>1, <1>2 DEF TypeOK, WithdrawRewards, nonceVars, healthVars
-----------------------------------------------------------------------------
\* A deal with another stripe of replicas is still a deal.
LEMMA StripeAdded ==
    ASSUME NEW deal \in Deal, NEW ps \in Seq(Providers), NEW r \in Nat,
           NEW e \in Nat, NEW w \in Nat, NEW x \in Nat
    PROVE  [deal EXCEPT !.providers = ps, !.replication = r, !.escrow = e,
                        !.winStart = w, !.winSpent = x] \in Deal
  BY DEF Deal

\* SignalSaturation appends providers and charges the escrow what it covers.
LEMMA SignalSaturationType ==
    ASSUME TypeOK, NEW p \in Providers, NEW d \in DealIds, SignalSaturation(p, d)
    PROVE  TypeOK'
  <1>1. d \in DOMAIN deals /\ deals[d] \in Deal
    BY DealTyped DEF SignalSaturation
  <1>2. DealBaseReplication \in Nat /\ height \in Nat /\ params \in Params
    BY NilChainAssumption DEF TypeOK
  <1>3. ElasticityCost \in Nat
    BY <1>2 DEF ElasticityCost, Params
  <1>4. PICK assigned \in AssignProviders("Hot", DealBaseReplication) :
          deals' = [deals EXCEPT
                      ![d].providers   = @ \o assigned,
                      ![d].replication = @ + DealBaseReplication,
                      ![d].escrow      = @ - ElasticityCost,
                      ![d].winStart    = WindowStart(deals[d]),
                      ![d].winSpent    = SpentAfter(deals[d])]
    BY DEF SignalSaturation
  <1>5. /\ deals[d].providers \in Seq(Providers)
        /\ deals[d].replication \in Nat
        /\ deals[d].escrow \in Nat
        /\ deals[d].winStart \in Nat
        /\ deals[d].winSpent \in Nat
    BY <1>1 DEF Deal
  <1>6. assigned \in Seq(Providers)
    BY <1>2, AssignedAreProviders
  <1>7. deals[d].providers \o assigned \in Seq(Providers)
    BY <1>5, <1>6, ConcatProperties
  <1>8. deals[d].replication + DealBaseReplication \in Nat
    BY <1>2, <1>5
  <1>9. deals[d].escrow - ElasticityCost \in Nat
    BY <1>3, <1>5 DEF SignalSaturation, EscrowCovers
  <1>10. WindowStart(deals[d]) \in Nat
    BY <1>2, <1>5 DEF WindowStart
  <1>11. SpentAfter(deals[d]) \in Nat
    BY <1>3, <1>5 DEF SpentAfter
  <1> DEFINE new == [deals[d] EXCEPT
                       !.providers   = deals[d].providers \o assigned,
                       !.replication = deals[d].replication + DealBaseReplication,
                       !.escrow      = deals[d].escrow - ElasticityCost,
                       !.winStart    = WindowStart(deals[d]),
                       !.winSpent    = SpentAfter(deals[d])]
  <1>12. new \in Deal
    BY <1>1, <1>7, <1>8, <1>9, <1>10, <1>11, StripeAdded
  <1>13. deals' = [deals EXCEPT ![d] = new]
    BY <1>1, <1>4
  <1> HIDE DEF new
  <1>14. /\ deals' \in Seq(Deal)
         /\ Len(deals') <= MaxDeals
         /\ DOMAIN deals' = DOMAIN deals
    BY <1>1, <1>12, <1>13, DealReplaced
  <1>15. QED
    BY <1>14 DEF TypeOK, SignalSaturation, bankVars, providerVars, nonceVars,
                 healthVars

\* A deal with other slots and providers is still a deal.
LEMMA SlotsChanged ==
    ASSUME NEW deal \in Deal, NEW ss \in Seq(DealSlot), NEW ps \in Seq(Providers)
    PROVE  [deal EXCEPT !.slots = ss, !.providers = ps] \in Deal
  BY DEF Deal

\* A slot being repaired is a slot.
LEMMA RepairingSlotType ==
    ASSUME NEW slot \in DealSlot, NEW pending \in Providers, NEW gen \in Nat
    PROVE  RepairingSlot(slot, pending, gen) \in DealSlot
  BY DEF RepairingSlot, DealSlot, SlotStatus

\* StartSlotRepair replaces one slot of one deal.
LEMMA StartSlotRepairType ==
    ASSUME TypeOK, NEW sender \in Users, NEW d \in DealIds,
           NEW i \in 1..DealBaseReplication, NEW pending \in Providers,
           StartSlotRepair(sender, d, i, pending)
    PROVE  TypeOK'
  <1> DEFINE slot == RepairingSlot(deals[d].slots[i], pending, deals[d].gen)
             ss   == [deals[d].slots EXCEPT ![i] = slot]
             new  == [deals[d] EXCEPT !.slots = ss]
  <1>1. /\ d \in DOMAIN deals /\ i \in DOMAIN deals[d].slots
        /\ deals[d] \in Deal
    BY DealTyped DEF StartSlotRepair, MayRepair
  <1>2. deals[d].slots \in Seq(DealSlot) /\ deals[d].gen \in Nat
    BY <1>1 DEF Deal
  <1>3. i \in 1..Len(deals[d].slots) /\ deals[d].slots[i] \in DealSlot
    BY <1>1, <1>2, LenProperties, ElementOfSeq
  <1>4. slot \in DealSlot
    BY <1>2, <1>3, RepairingSlotType
  <1>5. deals' = [deals EXCEPT ![d] = new]
    BY <1>1, <1>2, <1>3 DEF StartSlotRepair
  <1> HIDE DEF slot
  <1>6. ss \in Seq(DealSlot)
    BY <1>2, <1>3, <1>4, ExceptSeq
  <1> HIDE DEF ss
  <1>7. new \in Deal
    BY <1>1, <1>6 DEF Deal
  <1> HIDE DEF new
  <1>8. /\ deals' \in Seq(Deal)
        /\ Len(deals') <= MaxDeals
        /\ DOMAIN deals' = DOMAIN deals
    BY <1>1, <1>5, <1>7, DealReplaced
  <1>9. QED
    BY <1>8 DEF TypeOK, StartSlotRepair, bankVars, providerVars, nonceVars,
                healthVars

\* CompleteSlotRepair puts the candidate in the slot and in the legacy list.
LEMMA CompleteSlotRepairType ==
    ASSUME TypeOK, NEW sender \in Users, NEW d \in DealIds,
           NEW i \in 1..DealBaseReplication, CompleteSlotRepair(sender, d, i)
    PROVE  TypeOK'
  <1> DEFINE slot == RepairedSlot(deals[d].slots[i])
             ss   == [deals[d].slots EXCEPT ![i] = slot]
             ps   == AlignProviders(deals[d], i)
             new  == [deals[d] EXCEPT !.slots = ss, !.providers = ps]
  <1>1. /\ d \in DOMAIN deals /\ i \in DOMAIN deals[d].slots
        /\ deals[d] \in Deal
    BY DealTyped DEF CompleteSlotRepair, MayRepair
  <1>2. deals[d].slots \in Seq(DealSlot) /\ deals[d].providers \in Seq(Providers)
    BY <1>1 DEF Deal
  <1>3. i \in 1..Len(deals[d].slots) /\ deals[d].slots[i] \in DealSlot
    BY <1>1, <1>2, LenProperties, ElementOfSeq
  <1>4. deals[d].slots[i].pending \in Providers
    BY <1>3 DEF CompleteSlotRepair, DealSlot
  <1>5. slot \in DealSlot
    BY <1>4 DEF RepairedSlot, InitialSlot, DealSlot, SlotStatus
  <1>6. ps \in Seq(Providers)
    <2>1. CASE i \in DOMAIN deals[d].providers
      <3>1. i \in 1..Len(deals[d].providers)
        BY <1>2, <2>1, LenProperties
      <3>2. QED
        BY <1>2, <1>4, <2>1, <3>1, ExceptSeq DEF AlignProviders
    <2>2. CASE i \notin DOMAIN deals[d].providers
      BY <1>2, <2>2 DEF AlignProviders
    <2>3. QED
      BY <2>1, <2>2
  <1>7. deals' = [deals EXCEPT ![d] = new]
    BY <1>1, <1>2, <1>3 DEF CompleteSlotRepair
  <1> HIDE DEF slot, ps
  <1>8. ss \in Seq(DealSlot)
    BY <1>2, <1>3, <1>5, ExceptSeq
  <1> HIDE DEF ss
  <1>9. new \in Deal
    BY <1>1, <1>6, <1>8, SlotsChanged
  <1> HIDE DEF new
  <1>10. /\ deals' \in Seq(Deal)
         /\ Len(deals') <= MaxDeals
         /\ DOMAIN deals' = DOMAIN deals
    BY <1>1, <1>7, <1>9, DealReplaced
  <1>11. QED
    BY <1>10 DEF TypeOK, CompleteSlotRepair, bankVars, providerVars, nonceVars,
                 healthVars
-----------------------------------------------------------------------------
\* A slash is a natural number of coins the provider has.
LEMMA SlashedType ==
    ASSUME TypeOK, NEW p \in Providers
    PROVE  Slashed(p) \in Nat /\ Slashed(p) <= balance[p]
  <1> DEFINE D          == {d \in DealIds : <<d, p>> \in Overdue}
             due        == Cardinality(D)
             affordable == balance[p] \div SlashAmount
             n          == IF due < affordable THEN due ELSE affordable
  <1>1. IsFiniteSet(DealIds)
    BY NilChainAssumption, FS_Interval DEF DealIds
  <1>2. due \in Nat
    BY <1>1, FS_Subset, FS_CardinalityType
  <1>3. balance[p] \in Nat /\ SlashAmount \in Nat \ {0}
    BY NilChainAssumption, AccountsInclude DEF TypeOK
  <1>4. affordable \in Nat
    BY <1>3
  <1>5. Slashed(p) = SlashAmount * n
    BY DEF Slashed
  <1> HIDE DEF due
  <1>6. n \in Nat /\ n <= affordable
    BY <1>2, <1>4
  <1> HIDE DEF n
  <1>7. SlashAmount * n \in Nat /\ SlashAmount * n <= balance[p]
    BY <1>3, <1>6
  <1>8. QED
    BY <1>5, <1>7

\* EndBlock slashes what providers have and starts the next block.
LEMMA EndBlockType ==
    ASSUME TypeOK, EndBlock
    PROVE  TypeOK'
  <1>1. height \in Nat \ {0} /\ balance \in [Accounts -> Nat]
    BY DEF TypeOK
  <1>2. height' \in Nat \ {0}
    BY <1>1 DEF EndBlock
  <1>3. \A a \in Providers : balance[a] - Slashed(a) \in Nat
    BY <1>1, SlashedType, AccountsInclude
  <1>4. balance' \in [Accounts -> Nat]
    BY <1>1, <1>3 DEF EndBlock
  <1>5. lastProof' \in [Pairs -> Nat]
    BY <1>1 DEF EndBlock, TypeOK
  <1>6. QED
    BY <1>2, <1>4, <1>5 DEF TypeOK, EndBlock, providerVars, nonceVars

\* The genesis state is typed.
LEMMA InitType == Init => TypeOK
  <1> SUFFICES ASSUME Init PROVE TypeOK
    OBVIOUS
  <1>1. params \in Params /\ GenesisCoins \in Nat
    BY NilChainAssumption DEF Init
  <1>2. balance \in [Accounts -> Nat]
    BY <1>1 DEF Init
  <1>3. deals \in Seq(Deal) /\ Len(deals) <= MaxDeals
    BY NilChainAssumption DEF Init
  <1>4. DOMAIN sessions = {} /\ sessions \in [DOMAIN sessions -> Session]
    BY DEF Init
  <1>5. heat \in [DealIds -> Heat] /\ proofLog \in [Pairs -> ProofCounts]
    BY DEF Init, Heat, ProofCounts
  <1>6. /\ height \in Nat \ {0}
        /\ capability \in [Providers -> Capabilities \cup {"none"}]
        /\ reputation \in [Providers -> Nat]
        /\ rewards \in [Providers -> Nat]
    BY DEF Init
  <1>7. /\ evmNonce \in [Users -> Nat]
        /\ sessionNonce \in [Users \X DealIds \X Providers -> Nat]
        /\ receiptNonce \in [DealIds \X Files -> Nat]
        /\ lastProof \in [Pairs -> Nat]
        /\ failures \in [Pairs -> Nat]
    BY DEF Init
  <1>8. QED
    BY <1>1, <1>2, <1>3, <1>4, <1>5, <1>6, <1>7 DEF TypeOK

\* Every handler, and every step that changes nothing, keeps the types.
LEMMA NextType == TypeOK /\ [Next]_vars => TypeOK'
  <1> SUFFICES ASSUME TypeOK, [Next]_vars PROVE TypeOK'
    OBVIOUS
  <1>1. CASE RegistryNext
    BY <1>1, RegisterProviderType, UpdateParamsType DEF RegistryNext
  <1>2. CASE DealNext
    BY <1>2, CreateDealType, CreateDealFromEvmType, UpdateDealContentType,
       UpdateDealContentFromEvmType, AddCreditType DEF DealNext
  <1>3. CASE SessionNext
    BY <1>3, OpenRetrievalSessionType, ConfirmRetrievalSessionType,
       SubmitRetrievalSessionProofType, CancelRetrievalSessionType
    DEF SessionNext
  <1>4. CASE ProofNext
    BY <1>4, ProveLivenessSystemType, ProveLivenessSystemFailsType,
       ProveLivenessReceiptsType, ProveLivenessSessionType, WithdrawRewardsType
    DEF ProofNext
  <1>5. CASE PlacementNext
    BY <1>5, SignalSaturationType, StartSlotRepairType, CompleteSlotRepairType
    DEF PlacementNext
  <1>6. CASE EndBlock
    BY <1>6, EndBlockType
  <1>7. CASE UNCHANGED vars
    BY <1>7 DEF TypeOK, vars, bankVars, providerVars, nonceVars, healthVars
  <1>8. QED
    BY <1>1, <1>2, <1>3, <1>4, <1>5, <1>6, <1>7 DEF Next

\* Whatever messages arrive and however many blocks pass, the keeper's stores
\* keep their types: no handler and no slash leaves a negative balance, escrow,
\* locked fee or counter, and no session outlives its deal.
THEOREM TypeCorrect == Spec => []TypeOK
  <1>1. QED
    BY InitType, NextType, PTL DEF Spec
-----------------------------------------------------------------------------
(***************************************************************************)
(* The placement of deals: the legacy list of providers follows the slot     *)
(* map, and every repair has exactly one candidate, whatever sequence of     *)
(* repairs, stripes and content updates a deal goes through.                 *)
(***************************************************************************)
\* ProvidersFollowSlots and RepairHasCandidate, said of one deal.
Aligned(deal) ==
    /\ Len(deal.slots) <= Len(deal.providers)
    /\ \A i \in DOMAIN deal.slots : deal.providers[i] = deal.slots[i].provider

SlotOK(slot, gen) ==
    /\ slot.status = "REPAIRING" <=> slot.pending # NoProvider
    /\ slot.pending # slot.provider
    /\ slot.targetGen <= gen

Repairable(deal) == \A i \in DOMAIN deal.slots : SlotOK(deal.slots[i], deal.gen)

PlacementInv ==
    \A d \in DOMAIN deals : Aligned(deals[d]) /\ Repairable(deals[d])

\* The inductive invariant is the two properties together.
LEMMA PlacementInvMeaning ==
    PlacementInv <=> ProvidersFollowSlots /\ RepairHasCandidate
  BY DEF PlacementInv, Aligned, Repairable, SlotOK, ProvidersFollowSlots,
         RepairHasCandidate
-----------------------------------------------------------------------------
(***************************************************************************)
(* Steps that leave the placement of every deal alone.                       *)
(***************************************************************************)
SamePlacement ==
    /\ DOMAIN deals' = DOMAIN deals
    /\ \A d \in DOMAIN deals : /\ deals'[d].slots = deals[d].slots
                               /\ deals'[d].providers = deals[d].providers
                               /\ deals'[d].gen \in Nat
                               /\ deals'[d].gen >= deals[d].gen

\* The fields of a stored deal that the placement is about.
LEMMA PlacementTyped ==
    ASSUME TypeOK, NEW d \in DOMAIN deals
    PROVE  /\ deals[d] \in Deal
           /\ deals[d].slots \in Seq(DealSlot)
           /\ deals[d].providers \in Seq(Providers)
           /\ deals[d].gen \in Nat
  <1>1. deals[d] \in Deal
    BY DealTyped
  <1>2. QED
    BY <1>1 DEF Deal

\* A slot of a stored deal is a slot.
LEMMA SlotTyped ==
    ASSUME TypeOK, NEW d \in DOMAIN deals, NEW i \in DOMAIN deals[d].slots
    PROVE  /\ deals[d].slots[i] \in DealSlot
           /\ i \in 1..Len(deals[d].slots)
           /\ Len(deals[d].slots) \in Nat
  BY PlacementTyped, LenProperties, ElementOfSeq

\* A slot whose repair is well-formed stays so in a later generation.
LEMMA SlotOKLater ==
    ASSUME NEW slot \in DealSlot, NEW g \in Nat, NEW h \in Nat, g <= h,
           SlotOK(slot, g)
    PROVE  SlotOK(slot, h)
  <1>1. slot.targetGen \in Nat
    BY DEF DealSlot
  <1>2. slot.targetGen <= h
    BY <1>1 DEF SlotOK
  <1>3. QED
    BY <1>2 DEF SlotOK

\* Such a step keeps the invariant.
LEMMA SamePlacementKeepsInv ==
    ASSUME TypeOK, PlacementInv, SamePlacement
    PROVE  PlacementInv'
  <1> SUFFICES ASSUME NEW d \in DOMAIN deals
               PROVE  Aligned(deals'[d]) /\ Repairable(deals'[d])
    BY DEF PlacementInv, SamePlacement
  <1>1. Aligned(deals[d]) /\ Repairable(deals[d])
    BY DEF PlacementInv
  <1>2. /\ deals'[d].slots = deals[d].slots
        /\ deals'[d].providers = deals[d].providers
        /\ deals'[d].gen \in Nat
        /\ deals'[d].gen >= deals[d].gen
    BY DEF SamePlacement
  <1>3. Aligned(deals'[d])
    BY <1>1, <1>2 DEF Aligned
  <1>4. ASSUME NEW i \in DOMAIN deals[d].slots
        PROVE  SlotOK(deals[d].slots[i], deals'[d].gen)
    <2>1. SlotOK(deals[d].slots[i], deals[d].gen)
      BY <1>1 DEF Repairable
    <2>2. deals[d].slots[i] \in DealSlot /\ deals[d].gen \in Nat
      BY SlotTyped, PlacementTyped
    <2>3. deals[d].gen <= deals'[d].gen
      BY <1>2, <2>2
    <2>4. QED
      BY <1>2, <2>1, <2>2, <2>3, SlotOKLater
  <1>5. Repairable(deals'[d])
    BY <1>2, <1>4 DEF Repairable
  <1>6. QED
    BY <1>3, <1>5

\* A step that does not touch the deals is one.
LEMMA DealsUnchanged ==
    ASSUME TypeOK, UNCHANGED deals
    PROVE  SamePlacement
  <1>1. \A d \in DOMAIN deals : deals[d].gen \in Nat
    BY PlacementTyped
  <1>2. \A n \in Nat : n >= n
    OBVIOUS
  <1>3. QED
    BY <1>1, <1>2 DEF SamePlacement

\* So is a step that changes one deal and keeps its placement.
LEMMA OneDealKept ==
    ASSUME TypeOK, NEW d \in DOMAIN deals, NEW new,
           deals' = [deals EXCEPT ![d] = new],
           new.slots = deals[d].slots, new.providers = deals[d].providers,
           new.gen \in Nat, new.gen >= deals[d].gen
    PROVE  SamePlacement
  <1>1. DOMAIN deals' = DOMAIN deals
    OBVIOUS
  <1>2. ASSUME NEW x \in DOMAIN deals
        PROVE  /\ deals'[x].slots = deals[x].slots
               /\ deals'[x].providers = deals[x].providers
               /\ deals'[x].gen \in Nat
               /\ deals'[x].gen >= deals[x].gen
    <2>1. CASE x = d
      <3>1. deals'[x] = new
        BY <2>1
      <3>2. QED
        BY <2>1, <3>1
    <2>2. CASE x # d
      <3>1. deals'[x] = deals[x] /\ deals[x].gen \in Nat
        BY <2>2, PlacementTyped
      <3>2. \A n \in Nat : n >= n
        OBVIOUS
      <3>3. QED
        BY <3>1, <3>2
    <2>3. QED
      BY <2>1, <2>2
  <1>3. QED
    BY <1>1, <1>2 DEF SamePlacement

\* So is a step that changes only the escrow of a deal.
LEMMA EscrowOnly ==
    ASSUME TypeOK, NEW d \in DOMAIN deals, NEW e,
           deals' = [deals EXCEPT ![d].escrow = e]
    PROVE  SamePlacement
  <1> DEFINE new == [deals[d] EXCEPT !.escrow = e]
  <1>1. deals' = [deals EXCEPT ![d] = new]
    OBVIOUS
  <1>2. deals[d] \in Deal /\ deals[d].gen \in Nat
    BY PlacementTyped
  <1>3. /\ new.slots = deals[d].slots
        /\ new.providers = deals[d].providers
        /\ new.gen = deals[d].gen
    BY <1>2 DEF Deal
  <1> HIDE DEF new
  <1>4. new.gen \in Nat /\ new.gen >= deals[d].gen
    BY <1>2, <1>3
  <1>5. QED
    BY <1>1, <1>3, <1>4, OneDealKept

\* New content keeps the placement and never lowers the generation.
LEMMA CommitContentKeeps ==
    ASSUME TypeOK, NEW sender, NEW d, NEW c, CommitContent(sender, d, c)
    PROVE  SamePlacement
  <1> DEFINE gen  == NextGen(deals[d], c.root)
             new  == [deals[d] EXCEPT
                        !.escrow = deals[d].escrow + Deposit(deals[d], c.size),
                        !.gen = gen, !.root = c.root, !.size = c.size]
  <1>1. d \in DOMAIN deals /\ deals' = [deals EXCEPT ![d] = new]
    BY DEF CommitContent
  <1>2. deals[d] \in Deal /\ deals[d].gen \in Nat
    BY <1>1, PlacementTyped
  <1>3. gen \in Nat /\ gen >= deals[d].gen
    BY <1>2 DEF NextGen
  <1> HIDE DEF gen
  <1>4. /\ new.slots = deals[d].slots
        /\ new.providers = deals[d].providers
        /\ new.gen = gen
    BY <1>2 DEF Deal
  <1> HIDE DEF new
  <1>5. QED
    BY <1>1, <1>3, <1>4, OneDealKept

\* An accepted proof changes only the escrow.
LEMMA AcceptProofKeeps ==
    ASSUME TypeOK, NEW p, NEW d, NEW payment, AcceptProof(p, d, payment)
    PROVE  SamePlacement
  <1>1. d \in DOMAIN deals
    BY DEF AcceptProof, MayProve
  <1>2. deals' = [deals EXCEPT ![d].escrow = deals[d].escrow - payment]
    BY DEF AcceptProof
  <1>3. QED
    BY <1>1, <1>2, EscrowOnly

\* Opening and cancelling a session change only the escrow.
LEMMA SessionNextKeeps ==
    ASSUME TypeOK, SessionNext
    PROVE  SamePlacement
  <1>1. ASSUME NEW u \in Users, NEW id \in SessionReqs,
               OpenRetrievalSession(u, id)
        PROVE  SamePlacement
    <2> DEFINE e == deals[id.deal].escrow
                    - (VariableFee(params.blobPrice, id.blobs) + params.baseFee)
    <2>1. id.deal \in DOMAIN deals
      BY <1>1 DEF OpenRetrievalSession
    <2>2. deals' = [deals EXCEPT ![id.deal].escrow = e]
      BY <1>1 DEF OpenRetrievalSession
    <2> HIDE DEF e
    <2>3. QED
      BY <2>1, <2>2, EscrowOnly
  <1>2. ASSUME NEW u \in Users, NEW id \in SessionReqs,
               ConfirmRetrievalSession(u, id)
        PROVE  SamePlacement
    BY <1>2, DealsUnchanged DEF ConfirmRetrievalSession, AdvanceSession
  <1>3. ASSUME NEW p \in Providers, NEW id \in SessionReqs,
               SubmitRetrievalSessionProof(p, id)
        PROVE  SamePlacement
    BY <1>3, DealsUnchanged DEF SubmitRetrievalSessionProof, AdvanceSession
  <1>4. ASSUME NEW u \in Users, NEW id \in SessionReqs,
               CancelRetrievalSession(u, id)
        PROVE  SamePlacement
    <2> DEFINE e == deals[id.deal].escrow + sessions[id].locked
    <2>1. id.deal \in DOMAIN deals
      BY <1>4 DEF CancelRetrievalSession, TypeOK
    <2>2. deals' = [deals EXCEPT ![id.deal].escrow = e]
      BY <1>4 DEF CancelRetrievalSession
    <2> HIDE DEF e
    <2>3. QED
      BY <2>1, <2>2, EscrowOnly
  <1>5. QED
    BY <1>1, <1>2, <1>3, <1>4 DEF SessionNext

\* Proofs and withdrawals change at most the escrow.
LEMMA ProofNextKeeps ==
    ASSUME TypeOK, ProofNext
    PROVE  SamePlacement
  <1>1. ASSUME NEW p \in Providers, NEW d \in DealIds, NEW s,
               ProveLivenessSystem(p, d, s)
        PROVE  SamePlacement
    BY <1>1, AcceptProofKeeps DEF ProveLivenessSystem
  <1>2. ASSUME NEW p \in Providers, NEW d \in DealIds,
               ProveLivenessSystemFails(p, d)
        PROVE  SamePlacement
    BY <1>2, DealsUnchanged DEF ProveLivenessSystemFails
  <1>3. ASSUME NEW p \in Providers, NEW d \in DealIds, NEW b \in Batches,
               ProveLivenessReceipts(p, d, b)
        PROVE  SamePlacement
    BY <1>3, AcceptProofKeeps DEF ProveLivenessReceipts
  <1>4. ASSUME NEW p \in Providers, NEW d \in DealIds, NEW r \in Downloads,
               ProveLivenessSession(p, d, r)
        PROVE  SamePlacement
    BY <1>4, AcceptProofKeeps DEF ProveLivenessSession
  <1>5. ASSUME NEW p \in Providers, WithdrawRewards(p)
        PROVE  SamePlacement
    BY <1>5, DealsUnchanged DEF WithdrawRewards
  <1>6. QED
    BY <1>1, <1>2, <1>3, <1>4, <1>5 DEF ProofNext
-----------------------------------------------------------------------------
(***************************************************************************)
(* Steps that place a deal or move it.                                       *)
(***************************************************************************)
\* Storing a deal that is placed well keeps the invariant.
LEMMA WellPlacedReplaced ==
    ASSUME PlacementInv, NEW d \in DOMAIN deals, NEW new,
           deals' = [deals EXCEPT ![d] = new],
           Aligned(new), Repairable(new)
    PROVE  PlacementInv'
  <1>1. DOMAIN deals' = DOMAIN deals
    OBVIOUS
  <1>2. ASSUME NEW x \in DOMAIN deals
        PROVE  Aligned(deals'[x]) /\ Repairable(deals'[x])
    <2>1. CASE x = d
      <3>1. deals'[x] = new
        BY <2>1
      <3>2. QED
        BY <3>1
    <2>2. CASE x # d
      <3>1. deals'[x] = deals[x]
        BY <2>2
      <3>2. QED
        BY <3>1 DEF PlacementInv
    <2>3. QED
      BY <2>1, <2>2
  <1>3. QED
    BY <1>1, <1>2 DEF PlacementInv

\* A new deal has one ACTIVE slot per assigned provider, or none.
LEMMA NewDealPlaced ==
    ASSUME TypeOK, NEW owner, NEW m, NEW assigned \in Seq(Providers)
    PROVE  Aligned(NewDeal(owner, m, assigned))
           /\ Repairable(NewDeal(owner, m, assigned))
  <1> DEFINE new   == NewDeal(owner, m, assigned)
             slots == [i \in DOMAIN assigned |-> InitialSlot(assigned[i])]
  <1> SUFFICES Aligned(new) /\ Repairable(new)
    OBVIOUS
  <1>1. /\ new.slots = IF m.rs = NoProfile THEN <<>> ELSE slots
        /\ new.providers = assigned
        /\ new.gen = 0
    BY DEF NewDeal
  <1>2. Len(assigned) \in Nat /\ DOMAIN assigned = 1..Len(assigned)
    BY LenProperties
  <1>3. CASE m.rs = NoProfile
    <2>1. new.slots = <<>>
      BY <1>1, <1>3
    <2>2. DOMAIN new.slots = {} /\ Len(new.slots) = 0
      BY <2>1
    <2> HIDE DEF new
    <2>3. QED
      BY <1>1, <1>2, <2>2 DEF Aligned, Repairable
  <1>4. CASE m.rs # NoProfile
    <2>1. new.slots = slots
      BY <1>1, <1>4
    <2>2. DOMAIN slots = 1..Len(assigned) /\ Len(slots) = Len(assigned)
      BY <1>2
    <2>3. ASSUME NEW i \in DOMAIN slots
          PROVE  slots[i].provider = assigned[i] /\ SlotOK(slots[i], 0)
      <3>1. slots[i] = InitialSlot(assigned[i])
        OBVIOUS
      <3>2. assigned[i] \in Providers /\ assigned[i] # NoProvider
        BY <1>2, <2>2, <2>3, ElementOfSeq, NilChainAssumption
      <3> HIDE DEF slots
      <3>3. QED
        BY <3>1, <3>2 DEF InitialSlot, SlotOK
    <2> HIDE DEF new, slots
    <2>4. Len(new.slots) <= Len(new.providers)
      BY <1>1, <1>2, <2>1, <2>2
    <2>5. QED
      BY <1>1, <2>1, <2>3, <2>4 DEF Aligned, Repairable
  <1>5. QED
    BY <1>3, <1>4

\* OpenDeal appends a deal that is placed well.
LEMMA OpenDealPlaced ==
    ASSUME TypeOK, PlacementInv, NEW payer \in Users, NEW owner \in Users,
           NEW m \in DealMsgs, OpenDeal(payer, owner, m)
    PROVE  PlacementInv'
  <1>1. PICK assigned \in AssignProviders(m.hint, RequestedReplicas(m)) :
          deals' = Append(deals, NewDeal(owner, m, assigned))
    BY DEF OpenDeal
  <1> DEFINE new == NewDeal(owner, m, assigned)
  <1>2. assigned \in Seq(Providers)
    BY ReplicasType, AssignedAreProviders
  <1>3. Aligned(new) /\ Repairable(new)
    BY <1>2, NewDealPlaced
  <1>4. new \in Deal
    BY <1>2, NewDealType
  <1> HIDE DEF new
  <1>5. deals \in Seq(Deal) /\ deals' = Append(deals, new)
    BY <1>1 DEF TypeOK, new
  <1>6. /\ DOMAIN deals' = DOMAIN deals \cup {Len(deals) + 1}
        /\ deals'[Len(deals) + 1] = new
        /\ \A x \in DOMAIN deals : deals'[x] = deals[x]
    BY <1>4, <1>5
  <1>7. QED
    BY <1>3, <1>6 DEF PlacementInv

\* An added stripe goes after the providers of the slots.
LEMMA SignalSaturationPlaced ==
    ASSUME TypeOK, PlacementInv, NEW p \in Providers, NEW d \in DealIds,
           SignalSaturation(p, d)
    PROVE  PlacementInv'
  <1>1. d \in DOMAIN deals /\ DealBaseReplication \in Nat
    BY NilChainAssumption DEF SignalSaturation
  <1>2. PICK assigned \in AssignProviders("Hot", DealBaseReplication) :
          deals' = [deals EXCEPT
                      ![d].providers   = @ \o assigned,
                      ![d].replication = @ + DealBaseReplication,
                      ![d].escrow      = @ - ElasticityCost,
                      ![d].winStart    = WindowStart(deals[d]),
                      ![d].winSpent    = SpentAfter(deals[d])]
    BY DEF SignalSaturation
  <1> DEFINE new == [deals[d] EXCEPT
                       !.providers   = deals[d].providers \o assigned,
                       !.replication = deals[d].replication + DealBaseReplication,
                       !.escrow      = deals[d].escrow - ElasticityCost,
                       !.winStart    = WindowStart(deals[d]),
                       !.winSpent    = SpentAfter(deals[d])]
  <1>3. deals' = [deals EXCEPT ![d] = new]
    BY <1>1, <1>2
  <1>4. /\ deals[d] \in Deal
        /\ deals[d].slots \in Seq(DealSlot)
        /\ deals[d].providers \in Seq(Providers)
    BY <1>1, PlacementTyped
  <1>5. /\ new.slots = deals[d].slots
        /\ new.providers = deals[d].providers \o assigned
        /\ new.gen = deals[d].gen
    BY <1>4 DEF Deal
  <1> HIDE DEF new
  <1>6. assigned \in Seq(Providers)
    BY <1>1, AssignedAreProviders
  <1>7. Aligned(deals[d]) /\ Repairable(deals[d])
    BY <1>1 DEF PlacementInv
  <1>8. /\ Len(deals[d].providers) \in Nat /\ Len(deals[d].slots) \in Nat
        /\ Len(assigned) \in Nat
        /\ DOMAIN deals[d].slots = 1..Len(deals[d].slots)
    BY <1>4, <1>6, LenProperties
  <1>9. /\ Len(new.providers) = Len(deals[d].providers) + Len(assigned)
        /\ \A i \in 1..Len(deals[d].providers) :
              new.providers[i] = deals[d].providers[i]
    <2> DEFINE ps == deals[d].providers
    <2> HIDE DEF ps
    <2>1. ps \in Seq(Providers) /\ Len(ps) \in Nat
      BY <1>4, <1>8 DEF ps
    <2>2. Len(ps \o assigned) = Len(ps) + Len(assigned)
      BY <1>6, <2>1
    <2>3. \A i \in 1..Len(ps) : (ps \o assigned)[i] = ps[i]
      BY <1>6, <1>8, <2>1
    <2>4. QED
      BY <1>5, <2>2, <2>3 DEF ps
  <1>10. Aligned(new)
    <2>1. Len(deals[d].slots) <= Len(deals[d].providers)
      BY <1>7 DEF Aligned
    <2>2. Len(new.slots) <= Len(new.providers)
      BY <1>5, <1>8, <1>9, <2>1
    <2>3. \A i \in DOMAIN deals[d].slots : i \in 1..Len(deals[d].providers)
      BY <1>8, <2>1
    <2>4. QED
      BY <1>5, <1>7, <1>9, <2>2, <2>3 DEF Aligned
  <1>11. Repairable(new)
    BY <1>5, <1>7 DEF Repairable
  <1>12. QED
    BY <1>1, <1>3, <1>10, <1>11, WellPlacedReplaced

\* Replacing slot i of a deal, and its provider in the legacy list.
LEMMA SlotReplaced ==
    ASSUME TypeOK, PlacementInv, NEW d \in DOMAIN deals,
           NEW i \in DOMAIN deals[d].slots, NEW slot, NEW new,
           new.slots = [deals[d].slots EXCEPT ![i] = slot],
           new.providers = [deals[d].providers EXCEPT ![i] = slot.provider],
           new.gen = deals[d].gen,
           SlotOK(slot, deals[d].gen)
    PROVE  Aligned(new) /\ Repairable(new)
  <1> DEFINE ss == deals[d].slots
             ps == deals[d].providers
  <1>1. ss \in Seq(DealSlot) /\ ps \in Seq(Providers)
    BY PlacementTyped
  <1>2. Aligned(deals[d]) /\ Repairable(deals[d])
    BY DEF PlacementInv
  <1>3. /\ Len(ss) <= Len(ps)
        /\ \A j \in DOMAIN ss : ps[j] = ss[j].provider
    BY <1>2 DEF Aligned
  <1>4. \A j \in DOMAIN ss : SlotOK(ss[j], deals[d].gen)
    BY <1>2 DEF Repairable
  <1>5. i \in DOMAIN ss
    OBVIOUS
  <1>6. /\ new.slots = [ss EXCEPT ![i] = slot]
        /\ new.providers = [ps EXCEPT ![i] = slot.provider]
    OBVIOUS
  <1> HIDE DEF ss, ps
  <1>7. /\ Len(ss) \in Nat /\ Len(ps) \in Nat
        /\ DOMAIN ss = 1..Len(ss) /\ DOMAIN ps = 1..Len(ps)
    BY <1>1, LenProperties
  <1>8. DOMAIN ss \subseteq DOMAIN ps
    BY <1>3, <1>7
  <1>9. DOMAIN new.slots = DOMAIN ss /\ DOMAIN new.providers = DOMAIN ps
    BY <1>6
  <1>10. Len(new.slots) = Len(ss) /\ Len(new.providers) = Len(ps)
    BY <1>7, <1>9
  <1>11. ASSUME NEW j \in DOMAIN ss
         PROVE  /\ new.providers[j] = new.slots[j].provider
                /\ SlotOK(new.slots[j], new.gen)
    <2>1. CASE j = i
      <3>1. new.slots[j] = slot /\ new.providers[j] = slot.provider
        BY <1>5, <1>6, <1>8, <2>1
      <3>2. QED
        BY <3>1
    <2>2. CASE j # i
      <3>1. new.slots[j] = ss[j] /\ new.providers[j] = ps[j]
        BY <1>6, <1>8, <2>2
      <3>2. QED
        BY <1>3, <1>4, <3>1
    <2>3. QED
      BY <2>1, <2>2
  <1>12. QED
    BY <1>3, <1>9, <1>10, <1>11 DEF Aligned, Repairable

\* StartSlotRepair gives a slot a candidate other than its provider and the
\* generation of the moment.
LEMMA StartSlotRepairPlaced ==
    ASSUME TypeOK, PlacementInv, NEW sender, NEW d, NEW i,
           NEW pending \in Providers, StartSlotRepair(sender, d, i, pending)
    PROVE  PlacementInv'
  <1> DEFINE old  == deals[d].slots[i]
             slot == RepairingSlot(old, pending, deals[d].gen)
             new  == [deals[d] EXCEPT !.slots = [deals[d].slots EXCEPT ![i] = slot]]
  <1>1. /\ d \in DOMAIN deals /\ i \in DOMAIN deals[d].slots
        /\ old.provider # pending
    BY DEF StartSlotRepair, MayRepair
  <1>2. deals' = [deals EXCEPT ![d] = new]
    BY <1>1 DEF StartSlotRepair
  <1>3. /\ old \in DealSlot /\ deals[d] \in Deal /\ deals[d].gen \in Nat
        /\ deals[d].slots \in Seq(DealSlot)
        /\ deals[d].providers \in Seq(Providers)
        /\ i \in 1..Len(deals[d].slots)
    BY <1>1, PlacementTyped, SlotTyped
  <1> HIDE DEF old
  <1>4. /\ slot.provider = old.provider
        /\ slot.status = "REPAIRING"
        /\ slot.pending = pending
        /\ slot.targetGen = deals[d].gen
    BY <1>3 DEF RepairingSlot, DealSlot
  <1> HIDE DEF slot
  <1>5. SlotOK(slot, deals[d].gen)
    <2>1. pending # NoProvider
      BY NilChainAssumption
    <2>2. slot.targetGen <= deals[d].gen
      BY <1>3, <1>4
    <2>3. QED
      BY <1>1, <1>4, <2>1, <2>2 DEF SlotOK
  <1>6. /\ new.slots = [deals[d].slots EXCEPT ![i] = slot]
        /\ new.providers = deals[d].providers
        /\ new.gen = deals[d].gen
    BY <1>3 DEF Deal
  <1> HIDE DEF new
  <1>7. deals[d].providers = [deals[d].providers EXCEPT ![i] = slot.provider]
    <2>1. deals[d].providers[i] = slot.provider
      BY <1>1, <1>4 DEF PlacementInv, Aligned, old
    <2>2. \A S, s : s \in Seq(S) => s = [s EXCEPT ![i] = s[i]]
      OBVIOUS
    <2>3. QED
      BY <1>3, <2>1, <2>2
  <1>8. Aligned(new) /\ Repairable(new)
    BY <1>1, <1>5, <1>6, <1>7, SlotReplaced
  <1>9. QED
    BY <1>1, <1>2, <1>8, WellPlacedReplaced

\* CompleteSlotRepair makes the candidate the provider, in both copies.
LEMMA CompleteSlotRepairPlaced ==
    ASSUME TypeOK, PlacementInv, NEW sender, NEW d, NEW i,
           CompleteSlotRepair(sender, d, i)
    PROVE  PlacementInv'
  <1> DEFINE q    == deals[d].slots[i].pending
             slot == RepairedSlot(deals[d].slots[i])
             ps   == AlignProviders(deals[d], i)
             new  == [deals[d] EXCEPT
                        !.slots = [deals[d].slots EXCEPT ![i] = slot],
                        !.providers = ps]
  <1>1. /\ d \in DOMAIN deals /\ i \in DOMAIN deals[d].slots
        /\ q # NoProvider
    BY DEF CompleteSlotRepair, MayRepair
  <1>2. deals' = [deals EXCEPT ![d] = new]
    BY <1>1 DEF CompleteSlotRepair
  <1>3. /\ deals[d].slots[i] \in DealSlot /\ deals[d] \in Deal
        /\ deals[d].gen \in Nat
        /\ deals[d].slots \in Seq(DealSlot)
        /\ deals[d].providers \in Seq(Providers)
        /\ i \in 1..Len(deals[d].slots)
        /\ Len(deals[d].slots) \in Nat
    BY <1>1, PlacementTyped, SlotTyped
  <1>4. /\ slot.provider = q /\ slot.status = "ACTIVE"
        /\ slot.pending = NoProvider /\ slot.targetGen = 0
    BY DEF RepairedSlot, InitialSlot
  <1>5. ps = [deals[d].providers EXCEPT ![i] = q]
    <2>1. Len(deals[d].slots) <= Len(deals[d].providers)
      BY <1>1 DEF PlacementInv, Aligned
    <2>2. /\ Len(deals[d].providers) \in Nat
          /\ DOMAIN deals[d].providers = 1..Len(deals[d].providers)
      BY <1>3, LenProperties
    <2>3. i \in DOMAIN deals[d].providers
      BY <1>3, <2>1, <2>2
    <2>4. QED
      BY <2>3 DEF AlignProviders
  <1> HIDE DEF slot, ps, q
  <1>6. SlotOK(slot, deals[d].gen)
    <2>1. slot.targetGen <= deals[d].gen
      BY <1>3, <1>4
    <2>2. QED
      BY <1>1, <1>4, <2>1 DEF SlotOK
  <1>7. /\ new.slots = [deals[d].slots EXCEPT ![i] = slot]
        /\ new.providers = ps
        /\ new.gen = deals[d].gen
    BY <1>3 DEF Deal
  <1> HIDE DEF new
  <1>8. Aligned(new) /\ Repairable(new)
    BY <1>1, <1>4, <1>5, <1>6, <1>7, SlotReplaced
  <1>9. QED
    BY <1>1, <1>2, <1>8, WellPlacedReplaced
-----------------------------------------------------------------------------
\* Every step keeps the invariant.
LEMMA NextPlaced ==
    TypeOK /\ PlacementInv /\ [Next]_vars => PlacementInv'
  <1> SUFFICES ASSUME TypeOK, PlacementInv, [Next]_vars PROVE PlacementInv'
    OBVIOUS
  <1>1. CASE RegistryNext
    <2>1. UNCHANGED deals
      BY <1>1 DEF RegistryNext, RegisterProvider, UpdateParams
    <2>2. QED
      BY <2>1, DealsUnchanged, SamePlacementKeepsInv
  <1>2. CASE DealNext
    <2>1. ASSUME NEW u \in Users, NEW o \in Users, NEW m \in DealMsgs,
                 CreateDeal(u, o, m)
          PROVE  PlacementInv'
      BY <2>1, OpenDealPlaced DEF CreateDeal
    <2>2. ASSUME NEW u \in Users, NEW n, NEW m \in DealMsgs,
                 CreateDealFromEvm(u, n, m)
          PROVE  PlacementInv'
      BY <2>2, OpenDealPlaced DEF CreateDealFromEvm
    <2>3. ASSUME NEW u \in Users, NEW d, NEW c, UpdateDealContent(u, d, c)
          PROVE  PlacementInv'
      BY <2>3, CommitContentKeeps, SamePlacementKeepsInv DEF UpdateDealContent
    <2>4. ASSUME NEW u \in Users, NEW n, NEW d, NEW c,
                 UpdateDealContentFromEvm(u, n, d, c)
          PROVE  PlacementInv'
      BY <2>4, CommitContentKeeps, SamePlacementKeepsInv
      DEF UpdateDealContentFromEvm
    <2>5. ASSUME NEW u \in Users, NEW d, NEW x, AddCredit(u, d, x)
          PROVE  PlacementInv'
      <3>1. /\ d \in DOMAIN deals
            /\ deals' = [deals EXCEPT ![d].escrow = deals[d].escrow + x]
        BY <2>5 DEF AddCredit
      <3>2. QED
        BY <3>1, EscrowOnly, SamePlacementKeepsInv
    <2>6. QED
      BY <1>2, <2>1, <2>2, <2>3, <2>4, <2>5 DEF DealNext
  <1>3. CASE SessionNext
    BY <1>3, SessionNextKeeps, SamePlacementKeepsInv
  <1>4. CASE ProofNext
    BY <1>4, ProofNextKeeps, SamePlacementKeepsInv
  <1>5. CASE PlacementNext
    BY <1>5, SignalSaturationPlaced, StartSlotRepairPlaced,
       CompleteSlotRepairPlaced DEF PlacementNext
  <1>6. CASE EndBlock \/ UNCHANGED vars
    <2>1. UNCHANGED deals
      BY <1>6 DEF EndBlock, vars
    <2>2. QED
      BY <2>1, DealsUnchanged, SamePlacementKeepsInv
  <1>7. QED
    BY <1>1, <1>2, <1>3, <1>4, <1>5, <1>6 DEF Next

\* Before the first deal there is nothing to place.
LEMMA InitPlaced == Init => PlacementInv
  BY DEF Init, PlacementInv

\* The invariant holds in every reachable state.
LEMMA PlacementKept == Spec => []PlacementInv
  BY InitPlaced, NextPlaced, TypeCorrect, PTL DEF Spec

\* The first entries of a deal's legacy providers list are the providers of
\* its slots, after any sequence of repairs, added stripes, content updates,
\* sessions and proofs.
THEOREM PlacementAgrees == Spec => []ProvidersFollowSlots
  BY PlacementKept, PlacementInvMeaning, PTL

\* A slot is REPAIRING exactly when it has a candidate, never its own
\* provider, and it aims at a generation the deal has reached.
THEOREM RepairsWellFormed == Spec => []RepairHasCandidate
  BY PlacementKept, PlacementInvMeaning, PTL
=============================================================================
