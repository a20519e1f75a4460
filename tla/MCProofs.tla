------------------------------ MODULE MCProofs ------------------------------
(***************************************************************************)
(* Proofs that earn: system proofs that verify or not, user receipts in      *)
(* batches, download sessions and withdrawals on one Mode 1 deal with two    *)
(* replicas.                                                                 *)
(***************************************************************************)
EXTENDS MCBase, NilChainHistory

TwoFiles == {f1, f2}
MCDealMsgs == {[hint |-> "Hot", rs |-> NoProfile, replicas |-> 2,
                escrow |-> 4, spend |-> 0, duration |-> 4]}

MCParamSets ==
    {[baseFee |-> 0, blobPrice |-> 0, burnBps |-> 0, creationFee |-> 0,
      minDuration |-> 0, monthLen |-> 0, stripeCost |-> 1, storagePrice |-> 0,
      halving |-> 2]}

SignedReceipt(f, n, e) ==
    [file |-> f, bytes |-> 3, nonce |-> n, expires |-> e, slot |-> 1]
MCReceipts == {SignedReceipt(f1, 1, 0), SignedReceipt(f1, 2, 1),
               SignedReceipt(f2, 1, 0)}
\* Every order, with repetitions, of one or two receipts.
MCBatches == {<<a>> : a \in MCReceipts}
             \cup {<<a, b>> : a, b \in MCReceipts}
MCDownloads == {[file |-> f1, bytes |-> 4, chunks |-> 2, nonce |-> 2,
                 expires |-> 0, slot |-> 1]}

MCInit ==
    /\ \E m \in DealMsgs : StartFrom(m, <<p2, p3>>)
    /\ HistoryInit

MCNext ==
    /\ ChargeNext \/ ((SystemProofNext \/ EndBlock) /\ NothingSigned)
    /\ RecordWindows

MCSpec == MCInit /\ [][MCNext]_allVars
-----------------------------------------------------------------------------
(* What a document, a comment or a test says and the code does not keep; the *)
(* README tells how. *)

\* The reputation of a provider rises only with a proof that was accepted.
ReputationNeedsSuccess ==
    [][\A p \in Providers :
          reputation'[p] > reputation[p] =>
             \E d \in DealIds :
                proofLog'[<<d, p>>].valid > proofLog[<<d, p>>].valid]_allVars
=============================================================================
