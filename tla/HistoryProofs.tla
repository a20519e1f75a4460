--------------------------- MODULE HistoryProofs ---------------------------
(***************************************************************************)
(* Proofs about what the chain promises over several transactions: signed    *)
(* intents and receipts count once, every payment arrives, a missed window   *)
(* costs one slash, and only ACTIVE slots earn.  The history variables are   *)
(* those of NilChainHistory.                                                 *)
(***************************************************************************)
EXTENDS NilChainHistory, EscrowProofs

\* The history variables are written beside the steps of the chain and do not
\* restrict them: what is proved of NilChain holds of NilChainHistory.
LEMMA HistoryStepIsStep == [HistoryNext]_allVars => [Next]_vars
  <1> SUFFICES ASSUME HistoryNext \/ UNCHANGED allVars
               PROVE  Next \/ UNCHANGED vars
    OBVIOUS
  <1>1. CASE IntentNext
    BY <1>1 DEF IntentNext, Next, DealNext
  <1>2. CASE ChargeNext
    BY <1>2 DEF ChargeNext, Next, ProofNext
  <1>3. CASE UnsignedNext
    <2>1. SenderNext => DealNext
      BY DEF SenderNext, DealNext
    <2>2. SystemProofNext => ProofNext
      BY DEF SystemProofNext, ProofNext
    <2>3. QED
      BY <1>3, <2>1, <2>2 DEF UnsignedNext, Next
  <1>4. CASE UNCHANGED allVars
    BY <1>4 DEF allVars
  <1>5. QED
    BY <1>1, <1>2, <1>3, <1>4 DEF HistoryNext

LEMMA HistoryIsSpec == HistorySpec => Spec
  BY HistoryStepIsStep, PTL DEF HistorySpec, Spec
-----------------------------------------------------------------------------
(***************************************************************************)
(* Signed intents.                                                           *)
(***************************************************************************)
\* An intent that took effect did so once, and its signer's nonce has reached
\* its own.
IntentInv ==
    /\ accepted \in [Intents -> Nat]
    /\ \A i \in Intents : /\ accepted[i] <= 1
                          /\ accepted[i] = 1 => i[2] <= evmNonce[i[1]]

\* The nonces of signers change only where an intent takes effect.
LEMMA EvmNonceKept ==
    ASSUME ChargeNext \/ UnsignedNext \/ UNCHANGED vars
    PROVE  UNCHANGED evmNonce
  <1>1. CASE ChargeNext
    <2>1. ASSUME NEW p, NEW d, NEW b, ProveLivenessReceipts(p, d, b) PROVE UNCHANGED evmNonce
      BY <2>1 DEF ProveLivenessReceipts, AcceptProof
    <2>2. ASSUME NEW p, NEW d, NEW r, ProveLivenessSession(p, d, r) PROVE UNCHANGED evmNonce
      BY <2>2 DEF ProveLivenessSession, AcceptProof
    <2>3. QED
      BY <1>1, <2>1, <2>2 DEF ChargeNext
  <1>2. CASE RegistryNext
    BY <1>2 DEF RegistryNext, RegisterProvider, UpdateParams, nonceVars
  <1>3. CASE SenderNext
    BY <1>3 DEF SenderNext, CreateDeal, UpdateDealContent, AddCredit, nonceVars
  <1>4. CASE SessionNext
    BY <1>4 DEF SessionNext, OpenRetrievalSession, ConfirmRetrievalSession,
                SubmitRetrievalSessionProof, CancelRetrievalSession,
                AdvanceSession, nonceVars
  <1>5. CASE SystemProofNext
    BY <1>5 DEF SystemProofNext, ProveLivenessSystem, AcceptProof,
                ProveLivenessSystemFails, WithdrawRewards, nonceVars
  <1>6. CASE PlacementNext
    BY <1>6 DEF PlacementNext, SignalSaturation, StartSlotRepair,
                CompleteSlotRepair, nonceVars
  <1>7. CASE EndBlock
    BY <1>7 DEF EndBlock, nonceVars
  <1>8. CASE UNCHANGED vars
    BY <1>8 DEF vars, nonceVars
  <1>9. QED
    BY <1>1, <1>2, <1>3, <1>4, <1>5, <1>6, <1>7, <1>8 DEF UnsignedNext

\* An intent that takes effect is newer than all that did before.
LEMMA IntentCounted ==
    ASSUME TypeOK, IntentInv, NEW u \in Users, NEW n \in 1..MaxNonce,
           UseEvmNonce(u, n), IntentTaken(u, n)
    PROVE  IntentInv'
  <1>1. evmNonce \in [Users -> Nat] /\ MaxNonce \in Nat
    BY NilChainAssumption DEF TypeOK
  <1>2. /\ n > evmNonce[u]
        /\ evmNonce' = [evmNonce EXCEPT ![u] = n]
        /\ accepted' = [accepted EXCEPT ![<<u, n>>] = @ + 1]
    BY DEF UseEvmNonce, FreshEvmNonce, IntentTaken
  <1>3. <<u, n>> \in Intents /\ accepted[<<u, n>>] = 0
    <2>1. <<u, n>> \in Intents
      BY DEF Intents
    <2>2. accepted[<<u, n>>] \in Nat /\ accepted[<<u, n>>] <= 1
          /\ accepted[<<u, n>>] # 1
      BY <1>1, <1>2, <2>1 DEF IntentInv
    <2>3. QED
      BY <2>1, <2>2
  <1>4. accepted' \in [Intents -> Nat]
    BY <1>2, <1>3 DEF IntentInv
  <1>5. ASSUME NEW i \in Intents
        PROVE  accepted'[i] <= 1 /\ (accepted'[i] = 1 => i[2] <= evmNonce'[i[1]])
    <2>1. i[1] \in Users /\ i[2] \in Nat /\ i = <<i[1], i[2]>>
      BY <1>1 DEF Intents
    <2>2. CASE i = <<u, n>>
      BY <1>1, <1>2, <1>3, <2>2 DEF IntentInv
    <2>3. CASE i # <<u, n>>
      <3>1. accepted'[i] = accepted[i]
        BY <1>2, <2>3 DEF IntentInv
      <3>2. accepted[i] <= 1 /\ (accepted[i] = 1 => i[2] <= evmNonce[i[1]])
        BY DEF IntentInv
      <3>3. evmNonce'[i[1]] \in Nat /\ evmNonce[i[1]] \in Nat
            /\ evmNonce[i[1]] <= evmNonce'[i[1]]
        BY <1>1, <1>2, <2>1
      <3>4. QED
        BY <2>1, <3>1, <3>2, <3>3
    <2>4. QED
      BY <2>2, <2>3
  <1>6. QED
    BY <1>4, <1>5 DEF IntentInv, Intents

\* Every step keeps count of the intents.
LEMMA IntentStep ==
    TypeOK /\ IntentInv /\ [HistoryNext]_allVars => IntentInv'
  <1> SUFFICES ASSUME TypeOK, IntentInv, HistoryNext \/ UNCHANGED allVars
               PROVE  IntentInv'
    OBVIOUS
  <1>1. CASE IntentNext
    BY <1>1, IntentCounted DEF IntentNext, CreateDealFromEvm,
                               UpdateDealContentFromEvm
  <1>2. CASE UNCHANGED <<accepted, evmNonce>>
    BY <1>2 DEF IntentInv, Intents
  <1>3. CASE ChargeNext
    BY <1>2, <1>3, EvmNonceKept DEF ChargeNext, ReceiptsCharged
  <1>4. CASE UnsignedNext /\ NothingSigned
    BY <1>2, <1>4, EvmNonceKept DEF NothingSigned
  <1>5. CASE UNCHANGED allVars
    BY <1>2, <1>5, EvmNonceKept DEF allVars, historyVars
  <1>6. QED
    BY <1>1, <1>3, <1>4, <1>5 DEF HistoryNext

\* For every number of users and messages: a signed intent takes effect at
\* most once, whether it creates a deal or updates its content.
THEOREM IntentsCountOnce == HistorySpec => []IntentsTakeEffectOnce
  <1>1. HistoryInit => IntentInv
    BY DEF HistoryInit, IntentInv
  <1>2. IntentInv => IntentsTakeEffectOnce
    BY DEF IntentInv, IntentsTakeEffectOnce
  <1>3. QED
    BY <1>1, <1>2, IntentStep, HistoryIsSpec, TypeCorrect, PTL DEF HistorySpec
-----------------------------------------------------------------------------
(***************************************************************************)
(* Signed receipts.                                                          *)
(***************************************************************************)
\* A receipt that was charged was charged once, and the nonce of its deal and
\* file has reached its own.
ChargeInv ==
    /\ paid \in [Charges -> Nat]
    /\ \A c \in Charges :
          /\ paid[c] <= 1
          /\ paid[c] = 1 => c[3] <= receiptNonce[<<c[1], c[2]>>]

\* What the keys of charges are made of.
LEMMA ChargeTyped ==
    ASSUME NEW c \in Charges
    PROVE  /\ c = <<c[1], c[2], c[3]>>
           /\ <<c[1], c[2]>> \in DealIds \X Files
           /\ c[3] \in Nat
  <1>1. \A r \in Receipts \cup Downloads : r.nonce \in Nat
    BY NilChainAssumption DEF Receipt, Download
  <1>2. QED
    BY <1>1 DEF Charges, SignedNonces

\* The nonces of receipts change only where receipts are charged.
LEMMA ReceiptNonceKept ==
    ASSUME IntentNext \/ UnsignedNext \/ UNCHANGED vars
    PROVE  UNCHANGED receiptNonce
  <1>1. CASE IntentNext
    BY <1>1 DEF IntentNext, CreateDealFromEvm, UpdateDealContentFromEvm,
                UseEvmNonce
  <1>2. CASE RegistryNext
    BY <1>2 DEF RegistryNext, RegisterProvider, UpdateParams, nonceVars
  <1>3. CASE SenderNext
    BY <1>3 DEF SenderNext, CreateDeal, UpdateDealContent, AddCredit, nonceVars
  <1>4. CASE SessionNext
    BY <1>4 DEF SessionNext, OpenRetrievalSession, ConfirmRetrievalSession,
                SubmitRetrievalSessionProof, CancelRetrievalSession,
                AdvanceSession, nonceVars
  <1>5. CASE SystemProofNext
    BY <1>5 DEF SystemProofNext, ProveLivenessSystem, ProveLivenessSystemFails,
                WithdrawRewards, nonceVars
  <1>6. CASE PlacementNext
    BY <1>6 DEF PlacementNext, SignalSaturation, StartSlotRepair,
                CompleteSlotRepair, nonceVars
  <1>7. CASE EndBlock
    BY <1>7 DEF EndBlock, nonceVars
  <1>8. CASE UNCHANGED vars
    BY <1>8 DEF vars, nonceVars
  <1>9. QED
    BY <1>1, <1>2, <1>3, <1>4, <1>5, <1>6, <1>7, <1>8 DEF UnsignedNext

\* Receipts in the order FreshReceipt asks for.
Ascending(d, b) ==
    /\ DOMAIN b \subseteq Nat
    /\ \A i \in DOMAIN b : b[i].nonce \in Nat
    /\ \A i \in DOMAIN b : FreshReceipt(d, b, i)

\* No two receipts of an accepted batch are for the same file and nonce.
LEMMA OccursOnce ==
    ASSUME NEW d, NEW b, Ascending(d, b), \A i \in DOMAIN b : i >= 1, NEW c
    PROVE  \/ Occurrences(c, d, b) = 0
           \/ /\ Occurrences(c, d, b) = 1
              /\ \E i \in DOMAIN b : c = <<d, b[i].file, b[i].nonce>>
  <1> DEFINE S == {i \in DOMAIN b : c = <<d, b[i].file, b[i].nonce>>}
  <1>1. CASE S = {}
    BY <1>1, FS_EmptySet DEF Occurrences
  <1>2. CASE S # {}
    <2>1. PICK i \in S : TRUE
      BY <1>2
    <2>2. \A j \in S : j = i
      <3> SUFFICES ASSUME NEW j \in S PROVE j = i
        OBVIOUS
      <3>1. /\ i \in Nat /\ j \in Nat /\ i >= 1 /\ j >= 1
            /\ b[i].file = b[j].file /\ b[i].nonce = b[j].nonce
            /\ b[i].nonce \in Nat
        BY DEF Ascending
      <3>2. FreshReceipt(d, b, i) /\ FreshReceipt(d, b, j)
        BY DEF Ascending
      <3>3. i < j => i \in 1..(j - 1)
        BY <3>1
      <3>4. j < i => j \in 1..(i - 1)
        BY <3>1
      <3>5. ~(i < j) /\ ~(j < i)
        BY <3>1, <3>2, <3>3, <3>4 DEF FreshReceipt
      <3>6. QED
        BY <3>1, <3>5
    <2>3. S = {i}
      BY <2>1, <2>2
    <2>4. Cardinality(S) = 1
      BY <2>3, FS_Singleton
    <2>5. QED
      BY <2>1, <2>4 DEF Occurrences
  <1>3. QED
    BY <1>1, <1>2

\* Charging fresh receipts and raising the nonces to theirs keeps count.
LEMMA ReceiptsCounted ==
    ASSUME TypeOK, ChargeInv, NEW d \in DealIds, NEW b,
           Ascending(d, b), \A i \in DOMAIN b : i >= 1,
           \A k \in DealIds \X Files : /\ receiptNonce'[k] \in Nat
                                       /\ receiptNonce[k] <= receiptNonce'[k],
           \A i \in DOMAIN b : b[i].nonce <= receiptNonce'[<<d, b[i].file>>],
           ReceiptsCharged(d, b)
    PROVE  ChargeInv'
  <1>1. receiptNonce \in [DealIds \X Files -> Nat]
    BY DEF TypeOK
  <1>2. paid' = [c \in Charges |-> paid[c] + Occurrences(c, d, b)]
    BY DEF ReceiptsCharged
  <1>3. ASSUME NEW c \in Charges
        PROVE  /\ paid'[c] \in Nat /\ paid'[c] <= 1
               /\ paid'[c] = 1 => c[3] <= receiptNonce'[<<c[1], c[2]>>]
    <2> DEFINE k == <<c[1], c[2]>>
    <2>1. /\ c = <<c[1], c[2], c[3]>> /\ k \in DealIds \X Files /\ c[3] \in Nat
      BY ChargeTyped
    <2>2. /\ receiptNonce[k] \in Nat /\ receiptNonce'[k] \in Nat
          /\ receiptNonce[k] <= receiptNonce'[k]
      BY <1>1, <2>1
    <2>3. /\ paid[c] \in Nat /\ paid[c] <= 1
          /\ paid[c] = 1 => c[3] <= receiptNonce[k]
      BY DEF ChargeInv
    <2>4. paid'[c] = paid[c] + Occurrences(c, d, b)
      BY <1>2
    <2>5. CASE Occurrences(c, d, b) = 0
      BY <2>1, <2>2, <2>3, <2>4, <2>5
    <2>6. CASE Occurrences(c, d, b) # 0
      <3>1. Occurrences(c, d, b) = 1
        BY <2>6, OccursOnce
      <3>2. PICK i \in DOMAIN b : c = <<d, b[i].file, b[i].nonce>>
        BY <2>6, OccursOnce
      <3>3. k = <<d, b[i].file>> /\ c[3] = b[i].nonce
        BY <3>2
      <3>4. c[3] > receiptNonce[k] /\ c[3] <= receiptNonce'[k]
        BY <3>3 DEF Ascending, FreshReceipt
      <3>5. paid[c] = 0
        BY <2>1, <2>2, <2>3, <3>4
      <3>6. QED
        BY <2>4, <3>1, <3>4, <3>5
    <2>7. QED
      BY <2>5, <2>6
  <1>4. paid' \in [Charges -> Nat]
    BY <1>2, <1>3
  <1>5. QED
    BY <1>3, <1>4 DEF ChargeInv, Charges

\* The last receipt of a batch about a file has the greatest nonce.
LEMMA LastIsNewest ==
    ASSUME NEW d, NEW b \in Batches, Ascending(d, b), NEW i \in DOMAIN b
    PROVE  /\ b[i].nonce <= LastReceiptOf(b, b[i].file).nonce
           /\ LastReceiptOf(b, b[i].file).nonce > receiptNonce[<<d, b[i].file>>]
  <1> DEFINE f == b[i].file
             S == {j \in DOMAIN b : b[j].file = f}
             Last(j) == b[j].file = f /\ \A h \in DOMAIN b : b[h].file = f => h <= j
  <1>1. b \in Seq(Receipts)
    BY NilChainAssumption
  <1>2. Len(b) \in Nat /\ DOMAIN b = 1..Len(b)
    BY <1>1, LenProperties
  <1>3. S \subseteq 1..Len(b) /\ S # {}
    BY <1>2
  <1>4. \E j \in S : \A h \in S : h <= j
    BY <1>2, <1>3, GreatestBelow
  <1> DEFINE last == CHOOSE j \in DOMAIN b : Last(j)
  <1>5. last \in DOMAIN b /\ Last(last)
    BY <1>4
  <1>6. LastReceiptOf(b, f) = b[last]
    BY DEF LastReceiptOf
  <1> HIDE DEF last
  <1>7. i <= last /\ i \in 1..Len(b) /\ last \in 1..Len(b) /\ b[last].file = f
    BY <1>2, <1>5
  <1>8. b[i].nonce <= b[last].nonce
    <2>1. CASE i = last
      BY <1>7, <2>1 DEF Ascending
    <2>2. CASE i < last
      <3>1. i \in 1..(last - 1)
        BY <1>2, <1>7, <2>2
      <3>2. FreshReceipt(d, b, last) /\ b[i].nonce \in Nat /\ b[last].nonce \in Nat
        BY <1>5 DEF Ascending
      <3>3. b[i].nonce < b[last].nonce
        BY <1>7, <3>1, <3>2 DEF FreshReceipt
      <3>4. QED
        BY <3>2, <3>3
    <2>3. QED
      BY <1>2, <1>7, <2>1, <2>2
  <1>9. b[last].nonce > receiptNonce[<<d, f>>]
    BY <1>5, <1>7 DEF Ascending, FreshReceipt
  <1>10. QED
    BY <1>6, <1>8, <1>9

\* A batch charges each of its receipts once.
LEMMA BatchCounted ==
    ASSUME TypeOK, TypeOK', ChargeInv, NEW p \in Providers, NEW d \in DealIds,
           NEW b \in Batches, ProveLivenessReceipts(p, d, b),
           ReceiptsCharged(d, b)
    PROVE  ChargeInv'
  <1>1. b \in Seq(Receipts) /\ Receipts \subseteq Receipt
    BY NilChainAssumption
  <1>2. /\ Len(b) \in Nat /\ DOMAIN b = 1..Len(b)
        /\ \A i \in DOMAIN b : b[i] \in Receipts
    BY <1>1, LenProperties, ElementOfSeq
  <1>3. \A i \in DOMAIN b : b[i].nonce \in Nat /\ b[i].file \in Files
    BY <1>1, <1>2 DEF Receipt
  <1>4. Ascending(d, b)
    BY <1>2, <1>3 DEF Ascending, ProveLivenessReceipts, ValidReceipt
  <1>5. /\ receiptNonce \in [DealIds \X Files -> Nat]
        /\ receiptNonce' \in [DealIds \X Files -> Nat]
    BY DEF TypeOK
  <1>6. receiptNonce' = [k \in DOMAIN receiptNonce |->
                           IF k[1] = d /\ \E i \in DOMAIN b : b[i].file = k[2]
                           THEN LastReceiptOf(b, k[2]).nonce
                           ELSE receiptNonce[k]]
    BY DEF ProveLivenessReceipts
  <1>7. \A i \in DOMAIN b : b[i].nonce <= receiptNonce'[<<d, b[i].file>>]
    <2> SUFFICES ASSUME NEW i \in DOMAIN b
                 PROVE  b[i].nonce <= receiptNonce'[<<d, b[i].file>>]
      OBVIOUS
    <2>1. <<d, b[i].file>> \in DealIds \X Files
      BY <1>3
    <2>2. receiptNonce'[<<d, b[i].file>>] = LastReceiptOf(b, b[i].file).nonce
      BY <1>5, <1>6, <2>1
    <2>3. QED
      BY <1>4, <2>2, LastIsNewest
  <1>8. ASSUME NEW k \in DealIds \X Files
        PROVE  receiptNonce'[k] \in Nat /\ receiptNonce[k] <= receiptNonce'[k]
    <2>1. receiptNonce'[k] \in Nat /\ receiptNonce[k] \in Nat
      BY <1>5
    <2>2. CASE k[1] = d /\ \E i \in DOMAIN b : b[i].file = k[2]
      <3>1. PICK i \in DOMAIN b : b[i].file = k[2]
        BY <2>2
      <3>2. k = <<d, b[i].file>>
        BY <2>2, <3>1
      <3>3. receiptNonce'[k] = LastReceiptOf(b, b[i].file).nonce
        BY <1>5, <1>6, <2>2, <3>1
      <3>4. LastReceiptOf(b, b[i].file).nonce > receiptNonce[k]
        BY <1>4, <3>2, LastIsNewest
      <3>5. QED
        BY <2>1, <3>3, <3>4
    <2>3. CASE ~(k[1] = d /\ \E i \in DOMAIN b : b[i].file = k[2])
      BY <1>5, <1>6, <2>1, <2>3
    <2>4. QED
      BY <2>2, <2>3
  <1>9. QED
    BY <1>2, <1>4, <1>7, <1>8, ReceiptsCounted

\* So does a download session, whose nonce is of the same sequence.
LEMMA DownloadCounted ==
    ASSUME TypeOK, TypeOK', ChargeInv, NEW p \in Providers, NEW d \in DealIds,
           NEW r \in Downloads, ProveLivenessSession(p, d, r),
           ReceiptsCharged(d, <<r>>)
    PROVE  ChargeInv'
  <1> DEFINE b == <<r>>
  <1>1. r.nonce \in Nat /\ r.file \in Files
    BY NilChainAssumption DEF Download
  <1>2. DOMAIN b = {1} /\ b[1] = r
    OBVIOUS
  <1>3. FreshReceipt(d, b, 1) /\ ReceiptsCharged(d, b)
    BY DEF ProveLivenessSession
  <1> HIDE DEF b
  <1>4. Ascending(d, b)
    BY <1>1, <1>2, <1>3 DEF Ascending
  <1>5. /\ receiptNonce \in [DealIds \X Files -> Nat]
        /\ receiptNonce' = [receiptNonce EXCEPT ![<<d, r.file>>] = r.nonce]
        /\ r.nonce > receiptNonce[<<d, r.file>>]
    BY <1>2, <1>3 DEF TypeOK, ProveLivenessSession, FreshReceipt
  <1>6. <<d, r.file>> \in DealIds \X Files
    BY <1>1
  <1>7. \A k \in DealIds \X Files : /\ receiptNonce'[k] \in Nat
                                    /\ receiptNonce[k] <= receiptNonce'[k]
    BY <1>1, <1>5, <1>6
  <1>8. \A i \in DOMAIN b : b[i].nonce <= receiptNonce'[<<d, b[i].file>>]
    BY <1>1, <1>2, <1>5, <1>6
  <1>9. \A i \in DOMAIN b : i >= 1
    BY <1>2
  <1>10. QED
    BY <1>3, <1>4, <1>7, <1>8, <1>9, ReceiptsCounted

\* Every step keeps count of the receipts.
LEMMA ChargeStep ==
    TypeOK /\ TypeOK' /\ ChargeInv /\ [HistoryNext]_allVars => ChargeInv'
  <1> SUFFICES ASSUME TypeOK, TypeOK', ChargeInv,
                      HistoryNext \/ UNCHANGED allVars
               PROVE  ChargeInv'
    OBVIOUS
  <1>1. CASE ChargeNext
    BY <1>1, BatchCounted, DownloadCounted DEF ChargeNext
  <1>2. CASE UNCHANGED <<paid, receiptNonce>>
    BY <1>2 DEF ChargeInv, Charges
  <1>3. CASE IntentNext
    BY <1>2, <1>3, ReceiptNonceKept DEF IntentNext, IntentTaken
  <1>4. CASE UnsignedNext /\ NothingSigned
    BY <1>2, <1>4, ReceiptNonceKept DEF NothingSigned
  <1>5. CASE UNCHANGED allVars
    BY <1>2, <1>5, ReceiptNonceKept DEF allVars, historyVars
  <1>6. QED
    BY <1>1, <1>3, <1>4, <1>5 DEF HistoryNext

\* For all batches and download sessions: a receipt the owner signed is
\* charged to the escrow at most once, in whichever message, batch or order
\* it is sent.
THEOREM ReceiptsCountOnce == HistorySpec => []ReceiptChargedOnce
  <1>1. HistoryInit => ChargeInv
    BY DEF HistoryInit, ChargeInv
  <1>2. ChargeInv => ReceiptChargedOnce
    BY DEF ChargeInv, ReceiptChargedOnce
  <1>3. QED
    BY <1>1, <1>2, ChargeStep, HistoryIsSpec, TypeCorrect, PTL DEF HistorySpec
-----------------------------------------------------------------------------
(***************************************************************************)
(* Proofs, windows and slashes.                                              *)
(***************************************************************************)
\* Provider p earns for a proof of deal d that verified.
EarningStep(p, d) ==
    \E payment, slot : /\ AcceptProof(p, d, payment)
                       /\ VerifyChainedProof(deals[d], p, slot)

\* Nobody proves, and no block ends.
QuietStep ==
    /\ UNCHANGED <<height, lastProof>>
    /\ \A dp \in Pairs : ~ProofStep(dp)

\* Logging a failure adds no accepted proof.
LEMMA FailureIsNoProof ==
    ASSUME TypeOK, NEW d, NEW p,
           proofLog' = [proofLog EXCEPT ![<<d, p>>].invalid = @ + 1]
    PROVE  \A dp \in Pairs : ~ProofStep(dp)
  <1>1. proofLog \in [Pairs -> ProofCounts]
    BY DEF TypeOK
  <1> SUFFICES ASSUME NEW dp \in Pairs
               PROVE  ~ProofStep(dp)
    OBVIOUS
  <1>2. proofLog[dp] \in ProofCounts
    BY <1>1
  <1>3. proofLog[dp].valid \in Nat
    BY <1>2 DEF ProofCounts
  <1>4. proofLog'[dp].valid = proofLog[dp].valid
    <2>1. CASE dp = <<d, p>>
      <3>1. proofLog'[dp] = [proofLog[dp] EXCEPT !.invalid = @ + 1]
        BY <1>1, <2>1
      <3>2. QED
        BY <1>2, <3>1 DEF ProofCounts
    <2>2. CASE dp # <<d, p>>
      BY <1>1, <2>2
    <2>3. QED
      BY <2>1, <2>2
  <1>5. QED
    BY <1>3, <1>4 DEF ProofStep

\* A proof log that does not change records no proof.
LEMMA SameLogNoProof ==
    ASSUME TypeOK, UNCHANGED proofLog
    PROVE  \A dp \in Pairs : ~ProofStep(dp)
  <1> SUFFICES ASSUME NEW dp \in Pairs
               PROVE  ~ProofStep(dp)
    OBVIOUS
  <1>1. proofLog[dp].valid \in Nat
    BY DEF TypeOK, ProofCounts
  <1>2. QED
    BY <1>1 DEF ProofStep

\* Every step is a proof that earns, the end of a block, or neither.
LEMMA StepKinds ==
    ASSUME TypeOK, [HistoryNext]_allVars
    PROVE  \/ \E p \in Providers, d \in DealIds : EarningStep(p, d)
           \/ EndBlock
           \/ QuietStep
  <1>1. Next \/ UNCHANGED vars
    BY HistoryStepIsStep
  <1>2. UNCHANGED <<height, lastProof, proofLog>> => QuietStep
    BY SameLogNoProof DEF QuietStep
  <1>3. CASE RegistryNext
    BY <1>2, <1>3 DEF RegistryNext, RegisterProvider, UpdateParams, healthVars
  <1>4. CASE DealNext
    <2>1. ASSUME NEW u, NEW o, NEW m, OpenDeal(u, o, m)
          PROVE  QuietStep
      BY <1>2, <2>1 DEF OpenDeal, healthVars
    <2>2. ASSUME NEW u, NEW d, NEW c, CommitContent(u, d, c)
          PROVE  QuietStep
      BY <1>2, <2>2 DEF CommitContent, healthVars
    <2>3. ASSUME NEW u, NEW d, NEW x, AddCredit(u, d, x)
          PROVE  QuietStep
      BY <1>2, <2>3 DEF AddCredit, healthVars
    <2>4. QED
      BY <1>4, <2>1, <2>2, <2>3
      DEF DealNext, CreateDeal, CreateDealFromEvm, UpdateDealContent,
          UpdateDealContentFromEvm
  <1>5. CASE SessionNext
    <2>1. ASSUME NEW u \in Users, NEW id \in SessionReqs,
                 CancelRetrievalSession(u, id), IsNonResponse(id)
          PROVE  QuietStep
      BY <2>1, FailureIsNoProof DEF CancelRetrievalSession, LogProof, QuietStep
    <2>2. ASSUME NEW u \in Users, NEW id \in SessionReqs,
                 CancelRetrievalSession(u, id), ~IsNonResponse(id)
          PROVE  UNCHANGED <<height, lastProof, proofLog>>
      BY <2>2 DEF CancelRetrievalSession
    <2>3. QED
      BY <1>2, <1>5, <2>1, <2>2
      DEF SessionNext, OpenRetrievalSession, ConfirmRetrievalSession,
          SubmitRetrievalSessionProof, AdvanceSession, healthVars
  <1>6. CASE ProofNext
    <2>1. ASSUME NEW p \in Providers, NEW d \in DealIds, NEW slot,
                 ProveLivenessSystem(p, d, slot)
          PROVE  EarningStep(p, d)
      BY <2>1 DEF ProveLivenessSystem, EarningStep
    <2>2. ASSUME NEW p \in Providers, NEW d \in DealIds, NEW b \in Batches,
                 ProveLivenessReceipts(p, d, b)
          PROVE  EarningStep(p, d)
      <3>1. 1 \in DOMAIN b
        <4>1. b \in Seq(Receipts) /\ b # <<>>
          BY NilChainAssumption
        <4>2. QED
          BY <4>1
      <3>2. VerifyChainedProof(deals[d], p, b[1].slot)
        BY <2>2, <3>1 DEF ProveLivenessReceipts, ValidReceipt
      <3>3. AcceptProof(p, d, BandwidthPayment(TotalBytes(b)))
        BY <2>2 DEF ProveLivenessReceipts
      <3>4. QED
        BY <3>2, <3>3 DEF EarningStep
    <2>3. ASSUME NEW p \in Providers, NEW d \in DealIds, NEW r \in Downloads,
                 ProveLivenessSession(p, d, r)
          PROVE  EarningStep(p, d)
      BY <2>3 DEF ProveLivenessSession, EarningStep
    <2>4. ASSUME NEW p \in Providers, NEW d \in DealIds,
                 ProveLivenessSystemFails(p, d)
          PROVE  QuietStep
      BY <1>2, <2>4 DEF ProveLivenessSystemFails
    <2>5. ASSUME NEW p \in Providers, WithdrawRewards(p)
          PROVE  QuietStep
      BY <1>2, <2>5 DEF WithdrawRewards, healthVars
    <2>6. QED
      BY <1>6, <2>1, <2>2, <2>3, <2>4, <2>5 DEF ProofNext
  <1>7. CASE PlacementNext
    BY <1>2, <1>7 DEF PlacementNext, SignalSaturation, StartSlotRepair,
                      CompleteSlotRepair, healthVars
  <1>8. CASE UNCHANGED vars
    BY <1>2, <1>8 DEF vars, healthVars
  <1>9. QED
    BY <1>1, <1>3, <1>4, <1>5, <1>6, <1>7, <1>8 DEF Next

\* Only the provider and the deal of the message earn.
LEMMA EarnerIsSender ==
    ASSUME TypeOK, NEW p \in Providers, NEW d \in DealIds, EarningStep(p, d),
           NEW dp \in Pairs, ProofStep(dp)
    PROVE  dp = <<d, p>>
  <1>1. proofLog' = [proofLog EXCEPT ![<<d, p>>].valid = @ + 1]
    BY DEF EarningStep, AcceptProof, LogProof
  <1>2. proofLog \in [Pairs -> ProofCounts]
    BY DEF TypeOK
  <1>3. proofLog[dp].valid \in Nat
    BY <1>2 DEF ProofCounts
  <1>4. dp # <<d, p>> => proofLog'[dp] = proofLog[dp]
    BY <1>1, <1>2
  <1>5. QED
    BY <1>3, <1>4 DEF ProofStep

\* The window of a pair starts no earlier than its last proof and its last
\* slash, and never in the future.
WindowInv ==
    /\ provedAt \in [Pairs -> Nat]
    /\ slashedAt \in [Pairs -> Nat]
    /\ \A dp \in Pairs : /\ provedAt[dp] <= lastProof[dp]
                         /\ slashedAt[dp] <= lastProof[dp]
                         /\ lastProof[dp] <= height

\* What the window of a pair may become in a step.
LEMMA WindowMoves ==
    ASSUME TypeOK, TypeOK', WindowInv, [HistoryNext]_allVars,
           NEW dp \in Pairs
    PROVE  /\ height <= height'
           /\ lastProof'[dp] \in {lastProof[dp], height}
           /\ ProofStep(dp) => lastProof'[dp] = height
           /\ SlashStep(dp) => lastProof'[dp] = height /\ dp \in Overdue
  <1>1. /\ height \in Nat /\ lastProof \in [Pairs -> Nat]
        /\ proofLog[dp].valid \in Nat
    BY DEF TypeOK, ProofCounts
  <1>2. ASSUME NEW p \in Providers, NEW d \in DealIds, EarningStep(p, d)
        PROVE  /\ height' = height
               /\ lastProof'[dp] \in {lastProof[dp], height}
               /\ ProofStep(dp) => lastProof'[dp] = height
    <2>1. /\ height' = height
          /\ lastProof' = [lastProof EXCEPT ![<<d, p>>] = height]
      BY <1>2 DEF EarningStep, AcceptProof
    <2>2. ProofStep(dp) => dp = <<d, p>>
      BY <1>2, EarnerIsSender
    <2>3. QED
      BY <1>1, <2>1, <2>2
  <1>3. CASE EndBlock
    <2>1. /\ height' = height + 1
          /\ lastProof'[dp] = IF dp \in Overdue THEN height ELSE lastProof[dp]
          /\ UNCHANGED proofLog
      BY <1>3 DEF EndBlock
    <2>2. ~ProofStep(dp)
      BY <2>1, SameLogNoProof
    <2>3. QED
      BY <1>1, <2>1, <2>2 DEF SlashStep
  <1>4. CASE QuietStep
    BY <1>1, <1>4 DEF QuietStep, SlashStep
  <1>5. QED
    BY <1>1, <1>2, <1>3, <1>4, StepKinds DEF SlashStep

\* Every step keeps the windows of all pairs behind their history.
LEMMA WindowStep ==
    TypeOK /\ TypeOK' /\ WindowInv /\ [HistoryNext]_allVars => WindowInv'
  <1> SUFFICES ASSUME TypeOK, TypeOK', WindowInv, [HistoryNext]_allVars
               PROVE  WindowInv'
    OBVIOUS
  <1>1. /\ height \in Nat /\ height' \in Nat
        /\ lastProof \in [Pairs -> Nat] /\ lastProof' \in [Pairs -> Nat]
    BY DEF TypeOK
  <1>2. \/ RecordWindows
        \/ UNCHANGED <<provedAt, slashedAt, vars>>
    BY DEF HistoryNext, allVars, historyVars
  <1>3. CASE RecordWindows
    <2>1. /\ provedAt' \in [Pairs -> Nat] /\ slashedAt' \in [Pairs -> Nat]
          /\ \A dp \in Pairs :
                /\ provedAt'[dp] = IF ProofStep(dp) THEN height ELSE provedAt[dp]
                /\ slashedAt'[dp] = IF SlashStep(dp) THEN height ELSE slashedAt[dp]
      BY <1>1, <1>3 DEF RecordWindows, WindowInv
    <2>2. ASSUME NEW dp \in Pairs
          PROVE  /\ provedAt'[dp] <= lastProof'[dp]
                 /\ slashedAt'[dp] <= lastProof'[dp]
                 /\ lastProof'[dp] <= height'
      <3>1. /\ provedAt[dp] \in Nat /\ slashedAt[dp] \in Nat
            /\ lastProof[dp] \in Nat
            /\ provedAt[dp] <= lastProof[dp] /\ slashedAt[dp] <= lastProof[dp]
            /\ lastProof[dp] <= height
        BY <1>1 DEF WindowInv
      <3>2. QED
        BY <1>1, <2>1, <3>1, WindowMoves
    <2>3. QED
      BY <2>1, <2>2 DEF WindowInv, Pairs, DealIds
  <1>4. CASE UNCHANGED <<provedAt, slashedAt, vars>>
    BY <1>4 DEF WindowInv, vars, healthVars, Pairs, DealIds
  <1>5. QED
    BY <1>2, <1>3, <1>4

LEMMA WindowsKept == HistorySpec => []WindowInv
  <1>1. Init /\ HistoryInit => WindowInv
    BY DEF Init, HistoryInit, WindowInv
  <1>2. QED
    BY <1>1, WindowStep, HistoryIsSpec, TypeCorrect, PTL DEF HistorySpec

\* For every ProofWindow: CheckMissedProofs slashes a provider for a deal only
\* when more than a window has passed since its last accepted proof and since
\* its last slash for that deal.
THEOREM SlashedOncePerWindow == HistorySpec => OneSlashPerWindow
  <1>1. ASSUME TypeOK, TypeOK', WindowInv, [HistoryNext]_allVars,
               NEW dp \in Pairs, SlashStep(dp)
        PROVE  /\ height > provedAt[dp] + ProofWindow
               /\ height > slashedAt[dp] + ProofWindow
    <2>1. dp \in Overdue
      BY <1>1, WindowMoves
    <2>2. /\ dp = <<dp[1], dp[2]>>
          /\ dp[1] \in DOMAIN deals /\ Missed(dp[1], dp[2])
      BY <2>1 DEF Overdue, Pairs
    <2>3. /\ height \in Nat /\ ProofWindow \in Nat /\ lastProof[dp] \in Nat
          /\ deals[dp[1]].start \in Nat
      BY <1>1, <2>2, DealTyped, NilChainAssumption DEF TypeOK, Deal
    <2>4. lastProof[dp] + ProofWindow < height
      BY <2>2, <2>3 DEF Missed, LastProof
    <2>5. /\ provedAt[dp] \in Nat /\ slashedAt[dp] \in Nat
          /\ provedAt[dp] <= lastProof[dp] /\ slashedAt[dp] <= lastProof[dp]
      BY <1>1 DEF WindowInv
    <2>6. QED
      BY <2>3, <2>4, <2>5
  <1>2. TypeOK /\ TypeOK' /\ WindowInv /\ [HistoryNext]_allVars =>
            [\A dp \in Pairs : SlashStep(dp) =>
                /\ height > provedAt[dp] + ProofWindow
                /\ slashedAt[dp] # 0 => height > slashedAt[dp] + ProofWindow
            ]_allVars
    BY <1>1
  <1>3. QED
    BY <1>2, WindowsKept, HistoryIsSpec, TypeCorrect, PTL
    DEF HistorySpec, OneSlashPerWindow

\* At the end of every block, whoever is assigned to an active deal has a
\* proof, a slash or the start of the deal at most ProofWindow blocks back.
THEOREM OverdueIsSlashed == HistorySpec => NobodyStaysOverdue
  <1>1. ASSUME TypeOK, [HistoryNext]_allVars, height' # height,
               NEW dp \in Pairs, AssignedTo(dp), Active(deals[dp[1]])
        PROVE  \/ height <= deals[dp[1]].start + ProofWindow
               \/ height <= lastProof'[dp] + ProofWindow
    <2>1. EndBlock
      <3>1. ~QuietStep
        BY <1>1 DEF QuietStep
      <3>2. \A p \in Providers, d \in DealIds : ~EarningStep(p, d)
        BY <1>1 DEF EarningStep, AcceptProof
      <3>3. QED
        BY <1>1, <3>1, <3>2, StepKinds
    <2>2. lastProof'[dp] = IF dp \in Overdue THEN height ELSE lastProof[dp]
      BY <2>1 DEF EndBlock
    <2>3. /\ dp = <<dp[1], dp[2]>> /\ dp[1] \in DOMAIN deals
          /\ dp[2] \in Assigned(deals[dp[1]])
      BY <1>1 DEF AssignedTo, Pairs
    <2>4. /\ height \in Nat /\ ProofWindow \in Nat /\ lastProof[dp] \in Nat
          /\ deals[dp[1]].start \in Nat
      BY <1>1, <2>3, DealTyped, NilChainAssumption DEF TypeOK, Deal
    <2>5. dp \in Overdue \/ ~Missed(dp[1], dp[2])
      BY <1>1, <2>3 DEF Overdue
    <2>6. QED
      BY <2>2, <2>3, <2>4, <2>5 DEF Missed, LastProof
  <1>2. TypeOK /\ [HistoryNext]_allVars =>
            [height' # height =>
                \A dp \in Pairs :
                   AssignedTo(dp) /\ Active(deals[dp[1]]) =>
                      \/ height <= deals[dp[1]].start + ProofWindow
                      \/ height <= lastProof'[dp] + ProofWindow
            ]_allVars
    BY <1>1
  <1>3. QED
    BY <1>2, HistoryIsSpec, TypeCorrect, PTL DEF HistorySpec, NobodyStaysOverdue
-----------------------------------------------------------------------------
(***************************************************************************)
(* Slots that earn.                                                          *)
(***************************************************************************)
\* The least member of a set of natural numbers.
LEMMA LeastIsLeast ==
    ASSUME NEW S, S \subseteq Nat, S # {}
    PROVE  Least(S) \in S
  <1> DEFINE Less == {ss \in Nat \X Nat : ss[1] < ss[2]}
  <1>1. IsWellFoundedOn(Less, Nat)
    BY NatLessThanWellFounded DEF OpToRel
  <1>2. \E x \in S : \A y \in S : ~(<<y, x>> \in Less)
    <2> HIDE DEF Less
    <2> QED  BY <1>1, WFMin
  <1>3. \A x \in Nat, y \in Nat : ~(<<y, x>> \in Less) => x <= y
    OBVIOUS
  <1>4. \E x \in S : \A y \in S : x <= y
    <2> HIDE DEF Less
    <2> QED  BY <1>2, <1>3
  <1>5. QED
    BY <1>4 DEF Least

\* In a deal with a full slot map, a range that the provider's slot index
\* matches is a range of a slot the provider holds: a provider that is only in
\* the legacy list comes after all slots.
LEMMA MatchIsSlot ==
    ASSUME NEW deal, deal \in Deal, Aligned(deal), deal.profile # NoProfile,
           SlotMapFull(deal), NEW p \in Assigned(deal), NEW slot,
           MatchesSlot(deal, p, slot)
    PROVE  /\ ProviderSlotIndex(deal, p) \in DOMAIN deal.slots
           /\ deal.slots[ProviderSlotIndex(deal, p)].provider = p
  <1> DEFINE inSlots     == {i \in DOMAIN deal.slots : deal.slots[i].provider = p}
             inProviders == {i \in DOMAIN deal.providers : deal.providers[i] = p}
             n == Len(deal.slots)
  <1>1. deal.slots \in Seq(DealSlot) /\ deal.providers \in Seq(Providers)
    BY DEF Deal
  <1>2. /\ n \in Nat /\ DOMAIN deal.slots = 1..n
        /\ DOMAIN deal.providers = 1..Len(deal.providers)
        /\ Len(deal.providers) \in Nat
    BY <1>1, LenProperties
  <1>3. inSlots \subseteq Nat /\ inProviders \subseteq Nat
    BY <1>2
  <1>4. inProviders # {}
    BY DEF Assigned
  <1>5. ProviderSlotIndex(deal, p) = IF inSlots # {} THEN Least(inSlots)
                                     ELSE Least(inProviders)
    BY <1>4 DEF ProviderSlotIndex
  <1>6. CASE inSlots # {}
    <2>1. Least(inSlots) \in inSlots
      BY <1>3, <1>6, LeastIsLeast
    <2>2. QED
      BY <1>5, <1>6, <2>1
  <1>7. CASE inSlots = {}
    <2>1. Least(inProviders) \in inProviders
      BY <1>3, <1>4, LeastIsLeast
    <2>2. Least(inProviders) <= n
      BY <1>5, <1>7 DEF MatchesSlot, SlotMapFull
    <2>3. Least(inProviders) \in DOMAIN deal.slots
      BY <1>2, <2>1, <2>2
    <2>4. deal.slots[Least(inProviders)].provider = p
      BY <2>1, <2>3 DEF Aligned
    <2>5. QED
      BY <1>7, <2>3, <2>4
  <1>8. QED
    BY <1>6, <1>7

\* In every Mode 2 deal with a full slot map, of whatever shape and after
\* whatever repairs and stripes, only the provider of an ACTIVE slot earns.
THEOREM EarnersHoldActiveSlots == HistorySpec => OnlyActiveSlotsEarn
  <1>1. ASSUME TypeOK, PlacementInv, [HistoryNext]_allVars, NEW dp \in Pairs,
               ProofStep(dp), deals[dp[1]].profile # NoProfile,
               SlotMapFull(deals[dp[1]])
        PROVE  \E i \in DOMAIN deals[dp[1]].slots :
                  /\ deals[dp[1]].slots[i].provider = dp[2]
                  /\ deals[dp[1]].slots[i].status = "ACTIVE"
    <2>1. ~QuietStep
      BY <1>1 DEF QuietStep
    <2>2. ~EndBlock
      <3>1. EndBlock => UNCHANGED proofLog
        BY DEF EndBlock
      <3>2. QED
        BY <1>1, <3>1, SameLogNoProof
    <2>3. PICK p \in Providers, d \in DealIds : EarningStep(p, d)
      BY <1>1, <2>1, <2>2, StepKinds
    <2>4. dp = <<d, p>>
      BY <1>1, <2>3, EarnerIsSender
    <2>5. dp[1] = d /\ dp[2] = p
      BY <2>4
    <2>6. PICK slot : VerifyChainedProof(deals[d], p, slot)
      BY <2>3 DEF EarningStep
    <2>7. MayProve(p, d)
      BY <2>3 DEF EarningStep, AcceptProof
    <2>8. /\ d \in DOMAIN deals /\ p \in Assigned(deals[d])
          /\ ~SlotRepairing(deals[d], p) /\ MatchesSlot(deals[d], p, slot)
      BY <2>6, <2>7 DEF MayProve, VerifyChainedProof
    <2>9. deals[d] \in Deal /\ Aligned(deals[d])
      BY <1>1, <2>8, DealTyped DEF PlacementInv
    <2> DEFINE i == ProviderSlotIndex(deals[d], p)
    <2>10. i \in DOMAIN deals[d].slots /\ deals[d].slots[i].provider = p
      BY <1>1, <2>5, <2>8, <2>9, MatchIsSlot
    <2>11. deals[d].slots[i].status # "REPAIRING"
      BY <1>1, <2>5, <2>8, <2>10 DEF SlotRepairing
    <2> HIDE DEF i
    <2>12. deals[d].slots[i].status = "ACTIVE"
      BY <1>1, <2>8, <2>10, <2>11, SlotTyped DEF DealSlot, SlotStatus
    <2>13. QED
      BY <2>5, <2>10, <2>12
  <1>2. TypeOK /\ PlacementInv /\ [HistoryNext]_allVars =>
            [\A dp \in Pairs :
                /\ ProofStep(dp)
                /\ deals[dp[1]].profile # NoProfile
                /\ SlotMapFull(deals[dp[1]])
                => \E i \in DOMAIN deals[dp[1]].slots :
                      /\ deals[dp[1]].slots[i].provider = dp[2]
                      /\ deals[dp[1]].slots[i].status = "ACTIVE"
            ]_allVars
    BY <1>1
  <1>3. QED
    BY <1>2, PlacementKept, HistoryIsSpec, TypeCorrect, PTL
    DEF HistorySpec, OnlyActiveSlotsEarn
-----------------------------------------------------------------------------
(***************************************************************************)
(* Payments.                                                                 *)
(***************************************************************************)
\* What u pays arrives, and nobody else pays: PaymentsArrive of one user.
Arrives(u) ==
    balance'[u] < balance[u] =>
       /\ \A v \in Users \ {u} : balance'[v] = balance[v]
       /\ balance[u] - balance'[u] =
             (Cardinality(EscrowCoins') - Cardinality(EscrowCoins))
             + (balance'[FeeCollector] - balance[FeeCollector])

\* Balances of users are numbers, and a user is no module account.
LEMMA UserBalance ==
    ASSUME TypeOK, NEW u \in Users
    PROVE  /\ balance \in [Accounts -> Nat] /\ u \in Accounts
           /\ balance[u] \in Nat /\ u # Module /\ u # FeeCollector
           /\ balance[FeeCollector] \in Nat
  BY AccountsInclude, NilChainAssumption DEF TypeOK

\* A step in which no user loses coins.
LEMMA NobodyPays ==
    ASSUME TypeOK, NEW u \in Users, balance'[u] = balance[u]
    PROVE  Arrives(u)
  BY UserBalance DEF Arrives

\* The creation fee and the initial escrow arrive.
LEMMA OpenDealArrives ==
    ASSUME TypeOK, SolventInv, NEW payer \in Users, NEW owner \in Users,
           NEW m \in DealMsgs, OpenDeal(payer, owner, m), NEW u \in Users
    PROVE  Arrives(u)
  <1>1. CASE u # payer
    BY <1>1, OpenDealPaid, NobodyPays
  <1>2. CASE u = payer
    <2>1. params.creationFee \in Nat
      BY DEF TypeOK, Params
    <2>2. QED
      BY <1>2, <2>1, OpenDealPaid, OpenDealEscrow, UserBalance, SumsTyped
      DEF Arrives
  <1>3. QED
    BY <1>1, <1>2

\* A payment into the escrow of a deal arrives.
LEMMA DepositArrives ==
    ASSUME TypeOK, SolventInv, NEW sender \in Users, NEW cost \in Nat,
           balance' = Send(balance, sender, Module, cost),
           Cardinality(EscrowCoins') = Cardinality(EscrowCoins) + cost,
           NEW u \in Users
    PROVE  Arrives(u)
  <1>1. /\ balance'[FeeCollector] = balance[FeeCollector]
        /\ balance'[sender] = balance[sender] - cost
        /\ \A v \in Users \ {sender} : balance'[v] = balance[v]
    BY UserBalance, AccountsInclude, NilChainAssumption DEF Send
  <1>2. CASE u # sender
    BY <1>1, <1>2, NobodyPays
  <1>3. CASE u = sender
    BY <1>1, <1>3, UserBalance, SumsTyped DEF Arrives
  <1>4. QED
    BY <1>2, <1>3

\* A settlement takes nothing from a user.
LEMMA AdvancePaysUsers ==
    ASSUME TypeOK, NEW id \in DOMAIN sessions, NEW status,
           AdvanceSession(id, status), NEW u \in Users
    PROVE  Arrives(u)
  <1>1. CASE UNCHANGED balance
    BY <1>1, NobodyPays
  <1>2. CASE balance' = Settle(balance, id)
    <2> DEFINE variable == sessions[id].locked
               burn     == BurnShare(variable, params.burnBps)
    <2>1. variable \in Nat /\ params.burnBps \in Nat
      BY BurnBpsType DEF TypeOK, Session
    <2>2. burn \in Nat /\ burn <= variable
      BY <2>1, BurnShareType
    <2>3. balance' = Send(BurnCoins(balance, burn), Module, id.provider,
                          variable - burn)
      BY <1>2 DEF Settle
    <2> HIDE DEF variable, burn
    <2>4. id.provider # Module
      BY SessionReqTyped, NilChainAssumption DEF TypeOK
    <2>5. balance'[u] >= balance[u]
      BY <2>1, <2>2, <2>3, <2>4, UserBalance DEF Send, BurnCoins
    <2>6. balance'[u] \in Int
      BY <2>1, <2>2, <2>3, <2>4, UserBalance DEF Send, BurnCoins
    <2>7. QED
      BY <2>5, <2>6, UserBalance DEF Arrives
  <1>3. QED
    BY <1>1, <1>2 DEF AdvanceSession

\* In every step but the end of a block, what a user pays arrives.
LEMMA StepArrives ==
    ASSUME TypeOK, SolventInv, [HistoryNext]_allVars, height' = height,
           NEW u \in Users
    PROVE  Arrives(u)
  <1>1. Next \/ UNCHANGED vars
    BY HistoryStepIsStep
  <1>2. UNCHANGED balance => Arrives(u)
    BY NobodyPays
  <1>3. CASE RegistryNext
    BY <1>2, <1>3 DEF RegistryNext, RegisterProvider, UpdateParams, bankVars
  <1>4. CASE DealNext
    <2>1. ASSUME NEW v \in Users, NEW d \in DealIds, NEW c \in Contents,
                 CommitContent(v, d, c)
          PROVE  Arrives(u)
      BY <2>1, CommitContentEscrow, DepositArrives
    <2>2. ASSUME NEW v \in Users, NEW d \in DealIds, NEW x \in Amounts,
                 AddCredit(v, d, x)
          PROVE  Arrives(u)
      BY <2>2, AddCreditEscrow, DepositArrives
    <2>3. QED
      BY <1>4, <2>1, <2>2, OpenDealArrives
      DEF DealNext, CreateDeal, CreateDealFromEvm, UpdateDealContent,
          UpdateDealContentFromEvm
  <1>5. CASE SessionNext
    <2>1. ASSUME NEW v \in Users, NEW id \in SessionReqs,
                 OpenRetrievalSession(v, id)
          PROVE  Arrives(u)
      <3>1. balance' = BurnCoins(balance, params.baseFee)
        BY <2>1 DEF OpenRetrievalSession
      <3>2. balance'[u] = balance[u]
        BY <3>1, UserBalance DEF BurnCoins
      <3>3. QED
        BY <3>2, NobodyPays
    <2>2. ASSUME NEW v \in Users, NEW id \in SessionReqs,
                 ConfirmRetrievalSession(v, id)
          PROVE  Arrives(u)
      BY <2>2, AdvancePaysUsers DEF ConfirmRetrievalSession
    <2>3. ASSUME NEW p \in Providers, NEW id \in SessionReqs,
                 SubmitRetrievalSessionProof(p, id)
          PROVE  Arrives(u)
      BY <2>3, AdvancePaysUsers DEF SubmitRetrievalSessionProof
    <2>4. ASSUME NEW v \in Users, NEW id \in SessionReqs,
                 CancelRetrievalSession(v, id)
          PROVE  Arrives(u)
      BY <1>2, <2>4 DEF CancelRetrievalSession, bankVars
    <2>5. QED
      BY <1>5, <2>1, <2>2, <2>3, <2>4 DEF SessionNext
  <1>6. CASE ProofNext
    <2>1. ASSUME NEW p \in Providers, WithdrawRewards(p)
          PROVE  Arrives(u)
      <3>1. /\ balance' = [balance EXCEPT ![p] = @ + rewards[p]]
            /\ rewards[p] \in Nat /\ p \in Accounts
        BY <2>1, AccountsInclude DEF WithdrawRewards, PayRewards, TypeOK
      <3>2. balance'[u] \in Nat /\ balance'[u] >= balance[u]
        BY <3>1, UserBalance
      <3>3. QED
        BY <3>2, UserBalance DEF Arrives
    <2>2. ASSUME NEW p, NEW d, NEW payment, AcceptProof(p, d, payment)
          PROVE  UNCHANGED balance
      BY <2>2 DEF AcceptProof, bankVars
    <2>3. QED
      BY <1>2, <1>6, <2>1, <2>2
      DEF ProofNext, ProveLivenessSystem, ProveLivenessSystemFails,
          ProveLivenessReceipts, ProveLivenessSession, bankVars
  <1>7. CASE PlacementNext
    BY <1>2, <1>7 DEF PlacementNext, SignalSaturation, StartSlotRepair,
                      CompleteSlotRepair, bankVars
  <1>8. ~EndBlock
    BY DEF EndBlock, TypeOK
  <1>9. CASE UNCHANGED vars
    BY <1>2, <1>9 DEF vars, bankVars
  <1>10. QED
    BY <1>1, <1>3, <1>4, <1>5, <1>6, <1>7, <1>8, <1>9 DEF Next

\* Whatever prices governance installs: outside the slashing pass a step costs
\* at most one user coins, and all of them reach the escrow of a deal or the
\* fee collector.
THEOREM PaymentsAllArrive == HistorySpec => PaymentsArrive
  <1>1. TypeOK /\ SolventInv /\ [HistoryNext]_allVars =>
          [height' = height =>
             \A u \in Users :
                balance'[u] < balance[u] =>
                   /\ \A v \in Users \ {u} : balance'[v] = balance[v]
                   /\ balance[u] - balance'[u] =
                         (Cardinality(EscrowCoins') - Cardinality(EscrowCoins))
                         + (balance'[FeeCollector] - balance[FeeCollector])
          ]_allVars
    BY StepArrives DEF Arrives
  <1>2. QED
    BY <1>1, SolventKept, HistoryIsSpec, TypeCorrect, PTL
    DEF HistorySpec, PaymentsArrive
=============================================================================
